--------------------------- MODULE SchedulerClient ---------------------------
(***************************************************************************)
(* The client side of the scheduler: scheduler/client.py in the FastAPI     *)
(* process, with the scheduler processes it starts, watches, restarts and   *)
(* stops (scheduler/process.py), and the requests it makes of them.         *)
(*                                                                         *)
(* SchedulerBroker is what happens inside one scheduler process; here it is *)
(* reduced to taking requests and answering them.  A request keeps running  *)
(* in the scheduler when its caller has given up.  The event streams of     *)
(* chats are sockets of the same ZeroMQ context, which stop() closes last.  *)
(***************************************************************************)
EXTENDS Naturals, FiniteSets

CONSTANTS
    Request,     \* msg_ids; each one is used once
    Stream,      \* event streams, of browsers and of DingTalk's handlers
    MaxStarts,   \* bound: how many scheduler processes are started
    MaxCrashes   \* bound: how many of them crash

ASSUME StartAssumption == MaxStarts \in Nat \ {0} /\ MaxCrashes \in Nat

VARIABLES
    client,     \* start() and stop() of the client
    health,     \* _health_check_loop
    listening,  \* _recv_loop runs
    gen,        \* the scheduler process the client knows
    proc,       \* all scheduler processes
    crashes,    \* bounded by MaxCrashes
    pending,    \* _pending_requests
    call,       \* what the callers see
    way,        \* where a request or its reply is
    done,       \* the requests that were carried out
    bye,        \* SCHEDULER_SHUTDOWN is on its way
    open        \* the streams whose sockets are open

life == <<gen, proc, crashes>>
request == <<pending, call, way, done>>
vars == <<client, health, listening, life, request, bye, open>>

Gen == 1 .. MaxStarts
Alive == {"starting", "serving", "closing"}

TypeOK ==
    /\ client \in {"starting", "up", "joining", "terminating", "exiting",
                   "closing", "stopped"}
    /\ health \in {"off", "watching", "respawning"}
    /\ listening \in BOOLEAN
    /\ gen \in Gen
    /\ proc \in [Gen -> Alive \cup {"none", "exited", "crashed", "killed"}]
    /\ crashes \in 0 .. MaxCrashes
    /\ pending \subseteq Request
    /\ call \in [Request -> {"none", "waiting", "answered", "expired"}]
    /\ way \in [Request -> {"none", "out", "handling", "back", "gone"}]
    /\ done \subseteq Request
    /\ bye \in BOOLEAN
    /\ open \subseteq Stream

Init ==
    /\ client = "starting"
    /\ health = "off"
    /\ listening = FALSE
    /\ gen = 1
    /\ proc = [g \in Gen |-> IF g = 1 THEN "starting" ELSE "none"]
    /\ crashes = 0
    /\ pending = {}
    /\ call = [i \in Request |-> "none"]
    /\ way = [i \in Request |-> "none"]
    /\ done = {}
    /\ bye = FALSE
    /\ open = {}

-----------------------------------------------------------------------------
(* The scheduler processes: scheduler_process_main *)

\* broker.start(), then ready_event.
BecomeReady(g) ==
    /\ proc[g] = "starting"
    /\ proc' = [proc EXCEPT ![g] = "serving"]
    /\ UNCHANGED <<client, health, listening, gen, crashes, request, bye, open>>

\* What was being handled when a process ended: it may have been carried out.
LoseHandled ==
    /\ way' = [i \in Request |-> IF way[i] = "handling" THEN "gone" ELSE way[i]]
    /\ \E did \in SUBSET {i \in Request : way[i] = "handling"} : done' = done \cup did
    /\ UNCHANGED <<pending, call>>

Crash(g) ==
    /\ proc[g] \in Alive /\ crashes < MaxCrashes
    /\ crashes' = crashes + 1
    /\ proc' = [proc EXCEPT ![g] = "crashed"]
    /\ LoseHandled
    /\ UNCHANGED <<client, health, listening, gen, bye, open>>

\* The workers are stopped, the sockets closed, the process exits.
Close(g) ==
    /\ proc[g] = "closing"
    /\ proc' = [proc EXCEPT ![g] = "exited"]
    /\ LoseHandled
    /\ UNCHANGED <<client, health, listening, gen, crashes, bye, open>>

TakeShutdown ==
    /\ bye /\ proc[gen] = "serving"
    /\ bye' = FALSE
    /\ proc' = [proc EXCEPT ![gen] = "closing"]
    /\ UNCHANGED <<client, health, listening, gen, crashes, request, open>>

\* A handler is a task of its own, it may take seconds (ENSURE_PA).
Accept(i) ==
    /\ way[i] = "out" /\ proc[gen] = "serving"
    /\ way' = [way EXCEPT ![i] = "handling"]
    /\ UNCHANGED <<client, health, listening, life, pending, call, done, bye, open>>

Answer(i) ==
    /\ way[i] = "handling" /\ proc[gen] = "serving"
    /\ way' = [way EXCEPT ![i] = "back"]
    /\ done' = done \cup {i}
    /\ UNCHANGED <<client, health, listening, life, pending, call, bye, open>>

-----------------------------------------------------------------------------
(* Requests: _request, _recv_loop *)

Send(i) ==
    /\ client = "up" /\ call[i] = "none"
    /\ call' = [call EXCEPT ![i] = "waiting"]
    /\ pending' = pending \cup {i}
    /\ way' = [way EXCEPT ![i] = "out"]
    /\ UNCHANGED <<client, health, listening, life, done, bye, open>>

\* Mutant: the result is whatever comes next.
ReceiveAny(i) ==
    /\ listening /\ way[i] = "back"
    /\ way' = [way EXCEPT ![i] = "gone"]
    /\ \E k \in pending :
           /\ pending' = pending \ {k}
           /\ call' = [call EXCEPT ![k] = "answered"]
    /\ UNCHANGED <<client, health, listening, life, done, bye, open>>

\* A reply to a request that has expired is dropped.
Receive(i) ==
    /\ listening /\ way[i] = "back"
    /\ way' = [way EXCEPT ![i] = "gone"]
    /\ pending' = pending \ {i}
    /\ call' = [call EXCEPT ![i] = IF i \in pending THEN "answered" ELSE @]
    /\ UNCHANGED <<client, health, listening, life, done, bye, open>>

\* The caller gets None; the request itself is still on its way.
Expire(i) ==
    /\ call[i] = "waiting"
    /\ call' = [call EXCEPT ![i] = "expired"]
    /\ pending' = pending \ {i}
    /\ UNCHANGED <<client, health, listening, life, way, done, bye, open>>

-----------------------------------------------------------------------------
(* Start, restart, stop *)

\* start() goes on when the scheduler is ready, or after 30 seconds.
Connect ==
    /\ client = "starting"
    /\ client' = "up"
    /\ health' = "watching"
    /\ listening' = TRUE
    /\ UNCHANGED <<life, request, bye, open>>

\* Mutant: the health check takes a scheduler that is slow for a dead one.
RespawnIfNotReady ==
    /\ client = "up" /\ health = "watching"
    /\ proc[gen] # "serving" /\ gen < MaxStarts
    /\ health' = "respawning"
    /\ gen' = gen + 1
    /\ proc' = [proc EXCEPT ![gen + 1] = "starting"]
    /\ UNCHANGED <<client, listening, crashes, request, bye, open>>

\* _health_check_loop finds its process dead and starts another.
Respawn ==
    /\ client = "up" /\ health = "watching"
    /\ proc[gen] \notin Alive /\ gen < MaxStarts
    /\ health' = "respawning"
    /\ gen' = gen + 1
    /\ proc' = [proc EXCEPT ![gen + 1] = "starting"]
    /\ UNCHANGED <<client, listening, crashes, request, bye, open>>

\* Then, ready or not, it replaces the socket.  What the old one had to send or to
\* deliver is dropped, and closing it cancels the recv_multipart() the receive loop
\* waits for: the loop takes that for its own cancellation and ends.
Reconnect ==
    /\ health = "respawning"
    /\ health' = "watching"
    /\ listening' = FALSE
    /\ way' = [i \in Request |-> IF way[i] \in {"out", "back"} THEN "gone" ELSE way[i]]
    /\ UNCHANGED <<client, life, pending, call, done, bye, open>>

\* stop() ends its own loops, gives up what is pending and asks the scheduler
\* to shut down.
Stop ==
    /\ client = "up"
    /\ client' = "joining"
    /\ health' = "off"
    /\ listening' = FALSE
    /\ pending' = {}
    /\ call' = [i \in Request |-> IF call[i] = "waiting" THEN "expired" ELSE call[i]]
    /\ bye' = TRUE
    /\ UNCHANGED <<life, way, done, open>>

\* SIGTERM: its handler is installed when the broker serves; before that the
\* signal kills.
Terminated ==
    IF proc[gen] = "starting" THEN "killed"
    ELSE IF proc[gen] = "serving" THEN "closing" ELSE proc[gen]

\* stop() has waited for ten seconds; or the FastAPI process ends without stop(),
\* and _atexit_cleanup does the rest.
Terminate ==
    /\ \/ client = "joining" /\ proc[gen] \in Alive /\ client' = "terminating"
       \/ client = "up" /\ client' = "exiting"
    /\ health' = "off"
    /\ listening' = FALSE
    /\ pending' = {}
    /\ call' = [i \in Request |-> IF call[i] = "waiting" THEN "expired" ELSE call[i]]
    /\ proc' = [proc EXCEPT ![gen] = Terminated]
    /\ UNCHANGED <<gen, crashes, way, done, bye, open>>

\* Mutant: whoever survives SIGTERM gets it again.
TerminateAgain ==
    /\ client \in {"terminating", "exiting"} /\ proc[gen] \in Alive
    /\ proc' = [proc EXCEPT ![gen] = Terminated]
    /\ UNCHANGED <<client, health, listening, gen, crashes, request, bye, open>>

\* When the scheduler is gone, stop() closes its socket and goes on to the context;
\* there is no suspension in between.
Gone == IF client = "exiting" THEN "stopped" ELSE "closing"

Kill ==
    /\ client \in {"terminating", "exiting"} /\ proc[gen] \in Alive
    /\ client' = Gone
    /\ proc' = [proc EXCEPT ![gen] = "killed"]
    /\ LoseHandled
    /\ UNCHANGED <<health, listening, gen, crashes, bye, open>>

Joined ==
    /\ client \in {"joining", "terminating", "exiting"} /\ proc[gen] \notin Alive
    /\ client' = Gone
    /\ UNCHANGED <<health, listening, life, request, bye, open>>

\* _ctx.term() returns when no socket of the context is left.  It blocks the loop,
\* so that a stream that is open now is never closed.
Closed ==
    /\ client = "closing" /\ open = {}
    /\ client' = "stopped"
    /\ UNCHANGED <<health, listening, life, request, bye, open>>

-----------------------------------------------------------------------------
(* Event streams: create_event_subscriber, EventSubscriber *)

\* A handler opens a stream while its loop runs, stop() or not: nobody ends the
\* handlers of DingTalk, and one may have its answer to ENSURE_PA just before.
OpenStream(c) ==
    /\ client \in {"up", "joining", "terminating"} /\ c \notin open
    /\ open' = open \cup {c}
    /\ UNCHANGED <<client, health, listening, life, request, bye>>

CloseStream(c) ==
    /\ client \in {"up", "joining", "terminating"} /\ c \in open
    /\ open' = open \ {c}
    /\ UNCHANGED <<client, health, listening, life, request, bye>>

-----------------------------------------------------------------------------

Scheduler == TakeShutdown \/ \E g \in Gen : BecomeReady(g) \/ Crash(g) \/ Close(g)
Handling == \E i \in Request : Accept(i) \/ Answer(i)
Calling == \E i \in Request : Send(i) \/ Receive(i) \/ Expire(i)
Lifecycle == Connect \/ Respawn \/ Reconnect \/ Stop \/ Terminate \/ Kill \/ Joined \/ Closed
Streaming == \E c \in Stream : OpenStream(c) \/ CloseStream(c)

Next == Scheduler \/ Handling \/ Calling \/ Lifecycle \/ Streaming

Spec == Init /\ [][Next]_vars

\* stop() waits with timeouts, and so does every request.
Fairness ==
    /\ WF_vars(client # "up" /\ (Terminate \/ Kill \/ Joined \/ Closed))
    /\ \A i \in Request : WF_vars(Expire(i))

FairSpec == Spec /\ Fairness

-----------------------------------------------------------------------------
(* Properties *)

\* The table of pending requests holds those somebody waits for and no others,
\* through timeouts, late replies, restarts and stop(); and a caller that gets an
\* answer can rely on it: this very request was carried out.
RequestsMatched ==
    /\ pending = {i \in Request : call[i] = "waiting"}
    /\ \A i \in Request : call[i] = "answered" => i \in done

\* There is never a second scheduler: the health check starts one only when the
\* last one is dead, and stop() leaves none behind, even when it comes while the
\* health check is starting one.
OneScheduler ==
    \A g \in Gen : proc[g] \in Alive => g = gen /\ client \notin {"closing", "stopped"}

\* stop() ends, whatever state the scheduler is in, unless a stream is open when it
\* closes the context: then it waits for ever, see README.
StopEnds ==
    client = "joining" ~> client = "stopped" \/ (client = "closing" /\ open # {})

\* (Not kept, see README.)  A client that is up listens to the socket it uses.
UpMeansListening == client = "up" => listening
=============================================================================
