------------------------------- MODULE CronJobs -------------------------------
(***************************************************************************)
(* Scheduled jobs and their executions: the cron process                   *)
(* (zmq_bus/cron_daemon.py) with its scheduling loop, the runs it spawns    *)
(* (agents/cron_agent.py), the two tables behind it                        *)
(* (services/cron_scheduler.py), and the users who edit the first of them   *)
(* (api/v1/endpoints/cron.py, cron_cli) while the loop works on a copy.     *)
(*                                                                         *)
(* A step is what one coroutine does between two commits.  The clock is     *)
(* abstracted to whether the next run time of a job has come.               *)
(***************************************************************************)
EXTENDS Naturals, FiniteSets

CONSTANTS
    Job,        \* ids of jobs
    Heartbeat,  \* the job that the process itself creates
    MaxDue,     \* bound: due times and triggers
    MaxRounds,  \* MAX_TOOL_ROUNDS of cron_agent
    MaxEdits,   \* bound: changes of jobs by users
    MaxFaults   \* bound: failures of the database and the model, and crashes

ASSUME JobAssumption == Heartbeat \in Job
ASSUME CronBoundAssumption ==
    {MaxDue, MaxRounds, MaxEdits, MaxFaults} \subseteq Nat /\ MaxRounds > 0

VARIABLES
    job,     \* the table of jobs
    came,    \* how often the next run time of a job has come
    fired,   \* how often the loop has run the job
    todo,    \* the copies of due jobs the loop has not marked yet
    run,     \* the coroutines that execute jobs
    exec,    \* the table of executions: the status of each run
    told,    \* the runs whose result is a message of the target session
    shown,   \* the runs whose result was announced to browsers
    beat,    \* _ensure_heartbeat_job is still to come
    up,      \* the cron process runs
    edits,   \* bounded by MaxEdits
    faults   \* bounded by MaxFaults

table == <<job, came, edits>>
loop == <<fired, todo, beat, up>>
runs == <<run, exec, told, shown>>
vars == <<table, loop, runs, faults>>

\* <<j, n>> is what the loop does the n-th time job j is due, <<j, 0>> what a
\* CRON_TRIGGER does.
Run == Job \X (0 .. MaxDue)
Round == 0 .. MaxRounds - 1

Place == {"none", "spawned", "asking", "finishing", "notifying", "committing",
          "over", "cut", "refused"}
Active == {"spawned", "asking", "finishing", "notifying", "committing"}

TypeOK ==
    /\ job \in [Job -> [row : {"new", "there", "gone"}, on : BOOLEAN, due : BOOLEAN]]
    /\ came \in [Job -> Nat]
    /\ fired \in [Job -> Nat]
    /\ todo \subseteq Job
    /\ run \in [Run -> [at : Place, round : Round]]
    /\ exec \in [Run -> {"none", "running", "done", "failed"}]
    /\ told \subseteq Run
    /\ shown \subseteq Run
    /\ beat \in BOOLEAN
    /\ up \in BOOLEAN
    /\ edits \in Nat
    /\ faults \in Nat

NoJob == [row |-> "new", on |-> FALSE, due |-> FALSE]
NoRun == [at |-> "none", round |-> 0]

Init ==
    /\ job = [j \in Job |-> NoJob]
    /\ came = [j \in Job |-> 0]
    /\ fired = [j \in Job |-> 0]
    /\ todo = {}
    /\ run = [r \in Run |-> NoRun]
    /\ exec = [r \in Run |-> "none"]
    /\ told = {}
    /\ shown = {}
    /\ beat = TRUE
    /\ up = TRUE
    /\ edits = 0
    /\ faults = 0

There(j) == job[j].row = "there"
Due(j) == There(j) /\ job[j].on /\ job[j].due

Fault ==
    /\ faults < MaxFaults
    /\ faults' = faults + 1

-----------------------------------------------------------------------------
(* Users and time *)

\* A change of one row that ends a request.
Edit(j, new) ==
    /\ edits < MaxEdits
    /\ edits' = edits + 1
    /\ job' = [job EXCEPT ![j] = new]
    /\ UNCHANGED <<came, loop, runs, faults>>

\* create_job computes the next run time; an id is used once.
CreateJob(j) ==
    /\ job[j].row = "new" /\ j # Heartbeat
    /\ \E on \in BOOLEAN : Edit(j, [row |-> "there", on |-> on, due |-> FALSE])

\* update_job: a new schedule has a new next run time; switching a job on or
\* off keeps the old one, which may long have come.
UpdateJob(j) ==
    /\ There(j)
    /\ \E on \in BOOLEAN, due \in {FALSE, job[j].due} :
           Edit(j, [job[j] EXCEPT !.on = on, !.due = due])

\* toggle_job computes the next run time when it switches a job on.
ToggleJob(j) ==
    /\ There(j)
    /\ \E on \in BOOLEAN : Edit(j, [job[j] EXCEPT !.on = on, !.due = @ /\ ~on])

DeleteJob(j) ==
    /\ There(j)
    /\ Edit(j, [NoJob EXCEPT !.row = "gone"])

\* The runs the loop owes, and those that were triggered.
Came == {r \in Run : IF r[2] = 0 THEN run[r] # NoRun ELSE r[2] <= came[r[1]]}

\* The next run time of a job comes, whether it is enabled or not.
TimeComes(j) ==
    /\ There(j) /\ ~job[j].due
    /\ Cardinality(Came) < MaxDue
    /\ job' = [job EXCEPT ![j].due = TRUE]
    /\ came' = [came EXCEPT ![j] = @ + 1]
    /\ UNCHANGED <<edits, loop, runs, faults>>

-----------------------------------------------------------------------------
(* The scheduling loop: _scheduler_loop, _check_and_run *)

Spawn(r) == run' = [run EXCEPT ![r].at = "spawned"]

\* get_due_jobs: from here on the loop works on what it has read.
Check ==
    /\ up /\ todo = {}
    /\ \E j \in Job : Due(j)
    /\ todo' = {j \in Job : Due(j)}
    /\ UNCHANGED <<table, fired, beat, up, runs, faults>>

\* Mutant: a run is spawned for a job that stays due.
MarkLater(j) ==
    /\ up /\ j \in todo /\ There(j)
    /\ todo' = todo \ {j}
    /\ fired' = [fired EXCEPT ![j] = @ + 1]
    /\ Spawn(<<j, fired[j] + 1>>)
    /\ UNCHANGED <<table, beat, up, exec, told, shown, faults>>

\* mark_job_executed, commit, create_task.  The row gets the next run time of
\* the copy, whatever a user wrote meanwhile.
Mark(j) ==
    /\ up /\ j \in todo /\ There(j)
    /\ job' = [job EXCEPT ![j].due = FALSE]
    /\ todo' = todo \ {j}
    /\ fired' = [fired EXCEPT ![j] = @ + 1]
    /\ Spawn(<<j, fired[j] + 1>>)
    /\ UNCHANGED <<came, edits, beat, up, exec, told, shown, faults>>

\* Mutant: the next check begins with what this one has left over.
KeepForLater ==
    /\ up
    /\ \/ \E j \in todo : ~There(j) /\ UNCHANGED faults
       \/ todo # {} /\ Fault
    /\ UNCHANGED <<table, loop, runs>>

\* The row is gone (StaleDataError) or cannot be written: the exception ends
\* this check, the other jobs have to wait for the next one.
Abandon ==
    /\ up
    /\ \/ \E j \in todo : ~There(j) /\ UNCHANGED faults
       \/ todo # {} /\ Fault
    /\ todo' = {}
    /\ UNCHANGED <<table, fired, beat, up, runs>>

\* CRON_TRIGGER: runs a job at once, enabled or not, and leaves its row alone.
Trigger(j) ==
    /\ up /\ There(j)
    /\ run[<<j, 0>>].at = "none" /\ Cardinality(Came) < MaxDue
    /\ Spawn(<<j, 0>>)
    /\ UNCHANGED <<table, loop, exec, told, shown, faults>>

-----------------------------------------------------------------------------
(* A run: _execute_job, CronAgent.reply *)

Step(r, from, to) ==
    /\ up /\ run[r].at = from
    /\ run' = [run EXCEPT ![r] = [NoRun EXCEPT !.at = to]]
    /\ UNCHANGED <<table, loop>>

CreateExecution(r) ==
    /\ Step(r, "spawned", "asking")
    /\ exec' = [exec EXCEPT ![r] = "running"]
    /\ UNCHANGED <<told, shown, faults>>

\* The execution cannot be recorded: the exception ends the run unseen.
NotRecorded(r) ==
    /\ Step(r, "spawned", "over")
    /\ Fault
    /\ UNCHANGED <<exec, told, shown>>

\* Mutant: the rounds are not counted.
UseToolsForever(r) ==
    /\ up /\ run[r].at = "asking"
    /\ run' = [run EXCEPT ![r].round = (@ + 1) % MaxRounds]
    /\ UNCHANGED <<table, loop, exec, told, shown, faults>>

\* The model asks for tools (their errors become texts it reads).  After the
\* last round the loop ends with what there is.
UseTools(r) ==
    /\ up /\ run[r].at = "asking"
    /\ run' = [run EXCEPT ![r] = IF @.round + 1 < MaxRounds THEN [at |-> "asking", round |-> @.round + 1]
                                 ELSE [at |-> "finishing", round |-> 0]]
    /\ UNCHANGED <<table, loop, exec, told, shown, faults>>

\* The model answers, or the heartbeat has nothing to do.
Answer(r) ==
    /\ Step(r, "asking", "finishing")
    /\ UNCHANGED <<exec, told, shown, faults>>

\* The handler of the exceptions writes FAILED.  After an error of the database
\* the session may refuse that write too: then the row stays RUNNING.
Handle(r, from) ==
    /\ Fault
    /\ \/ Step(r, from, "over") /\ exec' = [exec EXCEPT ![r] = "failed"]
       \/ Step(r, from, "refused") /\ UNCHANGED exec
    /\ UNCHANGED <<told, shown>>

\* The model, or what precedes it, raises.
Fail(r) == Handle(r, "asking")

\* Mutant: the assistant is notified before the execution is finished.
NotifyFirst(r) ==
    /\ \E to \in {"over", "notifying"} : Step(r, "finishing", to)
    /\ UNCHANGED <<exec, told, shown, faults>>

\* A run that notifies the main assistant, or nobody, is over: what is sent to
\* pa:__cron__ is an address nobody has.
Finish(r) ==
    /\ \E to \in {"over", "notifying"} : Step(r, "finishing", to)
    /\ exec' = [exec EXCEPT ![r] = "done"]
    /\ UNCHANGED <<told, shown, faults>>

\* The result cannot be written.
FinishFails(r) == Handle(r, "finishing")

\* _notify_via_zmq: a message row is pending in the session, the assistant and
\* the browsers are told already.
Notify(r) ==
    /\ Step(r, "notifying", "committing")
    /\ shown' = shown \cup {r}
    /\ UNCHANGED <<exec, told, faults>>

NotifyFails(r) ==
    /\ Step(r, "notifying", "over")
    /\ Fault
    /\ UNCHANGED <<exec, told, shown>>

Commit(r) ==
    /\ Step(r, "committing", "over")
    /\ told' = told \cup {r}
    /\ UNCHANGED <<exec, shown, faults>>

\* The message is lost.  If the session can be written again, the handler of the
\* exception calls an execution failed that is done.
CommitFails(r) ==
    /\ Step(r, "committing", "over")
    /\ Fault
    /\ \E status \in {"done", "failed"} : exec' = [exec EXCEPT ![r] = status]
    /\ UNCHANGED <<told, shown>>

-----------------------------------------------------------------------------
(* The process *)

\* A crash, or stop(), which waits for no run: what is in memory is gone.
Crash ==
    /\ up /\ Fault
    /\ up' = FALSE
    /\ todo' = {}
    /\ run' = [r \in Run |-> IF run[r].at \in Active THEN [run[r] EXCEPT !.at = "cut"] ELSE run[r]]
    /\ UNCHANGED <<table, fired, beat, exec, told, shown>>

\* Nothing looks for executions that were cut.
Restart ==
    /\ ~up
    /\ up' = TRUE
    /\ beat' = TRUE
    /\ UNCHANGED <<table, fired, todo, runs, faults>>

\* _ensure_heartbeat_job creates the job, or gives it the configured schedule
\* and with it a new next run time, or finds nothing to do; it swallows errors.
EnsureHeartbeat ==
    /\ up /\ beat
    /\ beat' = FALSE
    /\ \/ /\ ~There(Heartbeat)
          /\ job' = [job EXCEPT ![Heartbeat] = [row |-> "there", on |-> TRUE, due |-> FALSE]]
       \/ /\ There(Heartbeat)
          /\ job' = [job EXCEPT ![Heartbeat].due = FALSE]
       \/ UNCHANGED job
    /\ UNCHANGED <<came, edits, fired, todo, up, runs, faults>>

-----------------------------------------------------------------------------

User(j) == CreateJob(j) \/ UpdateJob(j) \/ ToggleJob(j) \/ DeleteJob(j) \/ Trigger(j)

GoOn(r) ==
    \/ CreateExecution(r) \/ NotRecorded(r) \/ UseTools(r) \/ Answer(r) \/ Fail(r)
    \/ Finish(r) \/ FinishFails(r) \/ Notify(r) \/ NotifyFails(r) \/ Commit(r) \/ CommitFails(r)

Loop == Check \/ Abandon \/ \E j \in Job : Mark(j)

Next ==
    \/ \E j \in Job : User(j) \/ TimeComes(j)
    \/ Loop
    \/ \E r \in Run : GoOn(r)
    \/ Crash \/ Restart \/ EnsureHeartbeat

Spec == Init /\ [][Next]_vars

\* The loop and the runs go on: the loop catches what a check raises, model calls
\* and tools have timeouts.  The broker restarts the process.
Fairness == WF_vars(Loop) /\ WF_vars(Restart) /\ \A r \in Run : WF_vars(GoOn(r))

FairSpec == Spec /\ Fairness

-----------------------------------------------------------------------------
(* Properties *)

\* However checks, edits, failures and crashes interleave, the loop never runs a
\* job more often than its next run time has come: mark_job_executed is committed
\* before the run is spawned.
OncePerDue == \A j \in Job : fired[j] <= came[j]

\* A result that is a message of its session, or was announced to a browser,
\* belongs to an execution that is recorded as ended: _execute_job commits DONE
\* before it notifies.
ToldIsRecorded == \A r \in told \cup shown : exec[r] \in {"done", "failed"}

\* A job that is due does not stay so, although a check is abandoned at the first
\* job that was deleted or cannot be written, unless users keep the loop busy.
DueJobRuns == \A j \in Job : Due(j) ~> ~Due(j)

\* A run is over, with its execution ended if it was recorded at all, unless a
\* crash cut it or the database refused its last write.
Ended(r) ==
    \/ run[r].at \in {"cut", "refused"}
    \/ run[r].at = "over" /\ exec[r] # "running"

\* Each run ends, however often the model asks for tools, and an execution that
\* nobody works on any more is left RUNNING only by a crash or a refused write.
RunsEnd == \A r \in Run : (run[r].at \in Active) ~> Ended(r)
=============================================================================
