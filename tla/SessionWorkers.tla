--------------------------- MODULE SessionWorkers ---------------------------
(***************************************************************************)
(* What the scheduler promises its clients: every session, and the cron    *)
(* scheduler, is served by at most one worker process at a time; a         *)
(* replacement starts only when its predecessor has exited; an operating   *)
(* system process serves one identity and is never brought back.           *)
(*                                                                         *)
(* SchedulerBroker implements this specification; see Workers! there.      *)
(***************************************************************************)
CONSTANTS
    Identity,   \* the worker identities, "pa:<session>", "cron:scheduler", ...
    Proc,       \* operating system processes
    None        \* no process

VARIABLES
    worker,     \* the live process that serves each identity, or None
    used        \* the processes started so far

vars == <<worker, used>>

Init ==
    /\ worker = [i \in Identity |-> None]
    /\ used = {}

\* A fresh process p starts to serve i, which nobody serves.
Start(i, p) ==
    /\ worker[i] = None
    /\ p \notin used
    /\ worker' = [worker EXCEPT ![i] = p]
    /\ used' = used \cup {p}

\* The workers of some identities exit: a crash, a stop, or a shutdown.
Exit(S) ==
    /\ worker' = [i \in Identity |-> IF i \in S THEN None ELSE worker[i]]
    /\ UNCHANGED used

Next ==
    \/ \E i \in Identity, p \in Proc : Start(i, p)
    \/ \E S \in SUBSET Identity : Exit(S)

Spec == Init /\ [][Next]_vars
=============================================================================
