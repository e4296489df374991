---------------------------- MODULE CronJobsProofs ----------------------------
(***************************************************************************)
(* What CronJobs keeps for any jobs, due times, edits and failures.        *)
(***************************************************************************)
EXTENDS CronJobs, TLAPS

\* A job that is due, or was when the loop looked, has a due time to its name
\* that was not used yet.
DueInv == \A j \in Job : job[j].due \/ j \in todo => fired[j] < came[j]

\* The loop has not begun the runs it is still to spawn.
FreshInv ==
    \A j \in Job, n \in 1 .. MaxDue : n > fired[j] => run[<<j, n>>].at = "none"

\* Who notifies has ended its execution, and who has notified is past it.
NoticeInv ==
    /\ \A r \in Run : run[r].at \in {"notifying", "committing"}
                      => exec[r] \in {"done", "failed"}
    /\ \A r \in told \cup shown : run[r].at \in {"committing", "over", "cut"}

IInv ==
    /\ TypeOK
    /\ OncePerDue /\ DueInv
    /\ FreshInv /\ NoticeInv /\ ToldIsRecorded

\* At the start there is nothing.
LEMMA InitKeeps ==
    ASSUME Init
    PROVE  IInv
  <1>1. TypeOK
    <2>1. NoRun \in [at : Place, round : Round]
      BY CronBoundAssumption DEF NoRun, Place, Round
    <2>2. NoJob \in [row : {"new", "there", "gone"}, on : BOOLEAN, due : BOOLEAN]
      BY DEF NoJob
    <2> QED
      BY <2>1, <2>2 DEF Init, TypeOK
  <1>2. OncePerDue /\ DueInv
    BY DEF Init, OncePerDue, DueInv, NoJob
  <1>3. FreshInv
    BY DEF Init, FreshInv, NoRun, Run
  <1>4. NoticeInv /\ ToldIsRecorded
    BY DEF Init, NoticeInv, ToldIsRecorded, NoRun
  <1> QED
    BY <1>1, <1>2, <1>3, <1>4 DEF IInv

\* What a user or the clock does to the table of jobs: a job becomes due only
\* when its time has come once more.
LEMMA TableKeeps ==
    ASSUME IInv, UNCHANGED <<loop, runs>>, edits' \in Nat, faults' \in Nat,
           NEW j \in Job,
           NEW new \in [row : {"new", "there", "gone"}, on : BOOLEAN, due : BOOLEAN],
           job' = [job EXCEPT ![j] = new],
           \/ (new.due => job[j].due) /\ UNCHANGED came
           \/ came' = [came EXCEPT ![j] = @ + 1]
    PROVE  IInv'
  <1>1. TypeOK'
    BY DEF IInv, TypeOK, loop, runs
  <1>2. OncePerDue' /\ DueInv'
    BY DEF IInv, TypeOK, OncePerDue, DueInv, loop
  <1>3. FreshInv' /\ NoticeInv' /\ ToldIsRecorded'
    BY DEF IInv, FreshInv, NoticeInv, ToldIsRecorded, loop, runs
  <1> QED
    BY <1>1, <1>2, <1>3 DEF IInv

\* The endpoints and cron_cli.
LEMMA EditKeeps ==
    ASSUME IInv, NEW j \in Job,
           CreateJob(j) \/ UpdateJob(j) \/ ToggleJob(j) \/ DeleteJob(j)
    PROVE  IInv'
  <1> DEFINE Rows == [row : {"new", "there", "gone"}, on : BOOLEAN, due : BOOLEAN]
  <1>0. job[j] \in Rows
    BY DEF IInv, TypeOK
  <1>1. PICK new \in Rows : Edit(j, new) /\ (new.due => job[j].due)
    <2>1. CASE CreateJob(j)
      <3>1. PICK on \in BOOLEAN : Edit(j, [row |-> "there", on |-> on, due |-> FALSE])
        BY <2>1 DEF CreateJob
      <3>2. [row |-> "there", on |-> on, due |-> FALSE] \in Rows
        OBVIOUS
      <3> QED
        BY <3>1, <3>2
    <2>2. CASE UpdateJob(j)
      <3>1. PICK on \in BOOLEAN, due \in {FALSE, job[j].due} :
                   Edit(j, [job[j] EXCEPT !.on = on, !.due = due])
        BY <2>2 DEF UpdateJob
      <3>2. [job[j] EXCEPT !.on = on, !.due = due] \in Rows
        BY <1>0
      <3>3. [job[j] EXCEPT !.on = on, !.due = due].due => job[j].due
        BY <1>0
      <3> QED
        BY <3>1, <3>2, <3>3
    <2>3. CASE ToggleJob(j)
      <3> DEFINE New(on) == [job[j] EXCEPT !.on = on, !.due = job[j].due /\ ~on]
      <3>1. PICK on \in BOOLEAN : Edit(j, New(on))
        BY <2>3 DEF ToggleJob
      <3>2. New(on) \in Rows /\ (New(on).due => job[j].due)
        BY <1>0
      <3> QED
        BY <3>1, <3>2
    <2>4. CASE DeleteJob(j)
      <3> DEFINE gone == [NoJob EXCEPT !.row = "gone"]
      <3>1. Edit(j, gone)
        BY <2>4 DEF DeleteJob
      <3>2. gone \in Rows /\ ~gone.due
        BY DEF NoJob
      <3> QED
        BY <3>1, <3>2
    <2> QED
      BY <2>1, <2>2, <2>3, <2>4
  <1>2. edits' \in Nat /\ faults' \in Nat
    BY <1>1 DEF IInv, TypeOK, Edit
  <1> QED
    BY <1>1, <1>2, TableKeeps DEF Edit

\* The next run time of a job comes.
LEMMA TimeComesKeeps ==
    ASSUME IInv, NEW j \in Job, TimeComes(j)
    PROVE  IInv'
  <1> DEFINE Rows == [row : {"new", "there", "gone"}, on : BOOLEAN, due : BOOLEAN]
             new == [job[j] EXCEPT !.due = TRUE]
  <1>1. new \in Rows
    <2>1. job[j] \in Rows
      BY DEF IInv, TypeOK
    <2> QED
      BY <2>1
  <1>2. /\ job' = [job EXCEPT ![j] = new]
        /\ came' = [came EXCEPT ![j] = @ + 1]
        /\ edits' \in Nat /\ faults' \in Nat
        /\ UNCHANGED <<loop, runs>>
    BY DEF TimeComes, IInv, TypeOK
  <1> HIDE DEF new
  <1> QED
    BY <1>1, <1>2, TableKeeps

\* _ensure_heartbeat_job never makes the heartbeat due.
LEMMA EnsureHeartbeatKeeps ==
    ASSUME IInv, EnsureHeartbeat
    PROVE  IInv'
  <1> DEFINE Rows == [row : {"new", "there", "gone"}, on : BOOLEAN, due : BOOLEAN]
  <1>1. PICK new \in Rows : job' = [job EXCEPT ![Heartbeat] = new]
                            /\ (new.due => job[Heartbeat].due)
    <2>1. CASE job' = [job EXCEPT ![Heartbeat] = [row |-> "there", on |-> TRUE, due |-> FALSE]]
      <3>1. [row |-> "there", on |-> TRUE, due |-> FALSE] \in Rows
        OBVIOUS
      <3> QED
        BY <2>1, <3>1
    <2>2. CASE job' = [job EXCEPT ![Heartbeat].due = FALSE]
      <3> DEFINE new == [job[Heartbeat] EXCEPT !.due = FALSE]
      <3>1. new \in Rows /\ ~new.due
        BY JobAssumption DEF IInv, TypeOK
      <3> QED
        BY <2>2, <3>1
    <2>3. CASE UNCHANGED job
      <3>1. job[Heartbeat] \in Rows /\ job' = [job EXCEPT ![Heartbeat] = job[Heartbeat]]
        BY <2>3, JobAssumption DEF IInv, TypeOK
      <3> QED
        BY <3>1
    <2> QED
      BY <2>1, <2>2, <2>3 DEF EnsureHeartbeat
  <1>2. TypeOK' /\ OncePerDue' /\ DueInv'
    BY <1>1, JobAssumption
    DEF IInv, TypeOK, OncePerDue, DueInv, EnsureHeartbeat, runs
  <1>3. FreshInv' /\ NoticeInv' /\ ToldIsRecorded'
    BY DEF IInv, FreshInv, NoticeInv, ToldIsRecorded, EnsureHeartbeat, runs
  <1> QED
    BY <1>2, <1>3 DEF IInv

\* A run that was never begun is spawned.
LEMMA SpawnKeeps ==
    ASSUME IInv, NEW r, Spawn(r), r \in Run => run[r].at = "none",
           UNCHANGED <<exec, told, shown>>
    PROVE  /\ run' \in [Run -> [at : Place, round : Round]]
           /\ NoticeInv' /\ ToldIsRecorded'
  <1>1. run' \in [Run -> [at : Place, round : Round]]
    BY DEF IInv, TypeOK, Spawn, Place
  <1>2. NoticeInv' /\ ToldIsRecorded'
    BY DEF IInv, TypeOK, Spawn, NoticeInv, ToldIsRecorded
  <1> QED
    BY <1>1, <1>2

\* mark_job_executed uses up a due time, and spawns the run that belongs to it.
LEMMA MarkKeeps ==
    ASSUME IInv, NEW j \in Job, Mark(j)
    PROVE  IInv'
  <1> DEFINE r == <<j, fired[j] + 1>>
  <1>1. r \in Run => run[r].at = "none"
    BY DEF IInv, TypeOK, FreshInv, Run
  <1>2. run' \in [Run -> [at : Place, round : Round]] /\ NoticeInv' /\ ToldIsRecorded'
    BY <1>1, SpawnKeeps DEF Mark
  <1>3. TypeOK'
    <2>1. job' \in [Job -> [row : {"new", "there", "gone"}, on : BOOLEAN, due : BOOLEAN]]
      BY DEF IInv, TypeOK, Mark
    <2>2. fired' \in [Job -> Nat] /\ todo' \subseteq Job
      BY DEF IInv, TypeOK, Mark
    <2> QED
      BY <1>2, <2>1, <2>2 DEF IInv, TypeOK, Mark
  <1>4. OncePerDue' /\ DueInv'
    BY DEF IInv, TypeOK, OncePerDue, DueInv, Mark
  <1>5. FreshInv'
    <2> SUFFICES ASSUME NEW i \in Job, NEW n \in 1 .. MaxDue, n > fired'[i]
                 PROVE  run'[<<i, n>>].at = "none"
      BY DEF FreshInv
    <2>1. <<i, n>> \in Run /\ <<i, n>> # r /\ n > fired[i]
      BY DEF IInv, TypeOK, Mark, Run
    <2>2. run'[<<i, n>>] = run[<<i, n>>]
      BY <2>1 DEF IInv, TypeOK, Mark, Spawn
    <2> QED
      BY <2>1, <2>2 DEF IInv, FreshInv
  <1> QED
    BY <1>2, <1>3, <1>4, <1>5 DEF IInv

\* A trigger spawns the run <<j, 0>>.
LEMMA TriggerKeeps ==
    ASSUME IInv, NEW j \in Job, Trigger(j)
    PROVE  IInv'
  <1> DEFINE r == <<j, 0>>
  <1>1. run' \in [Run -> [at : Place, round : Round]] /\ NoticeInv' /\ ToldIsRecorded'
    BY SpawnKeeps DEF Trigger
  <1>2. TypeOK'
    BY <1>1 DEF IInv, TypeOK, Trigger, table, loop
  <1>3. OncePerDue' /\ DueInv'
    BY DEF IInv, OncePerDue, DueInv, Trigger, table, loop
  <1>4. FreshInv'
    <2> SUFFICES ASSUME NEW i \in Job, NEW n \in 1 .. MaxDue, n > fired'[i]
                 PROVE  run'[<<i, n>>].at = "none"
      BY DEF FreshInv
    <2>1. <<i, n>> \in Run /\ <<i, n>> # r
      BY CronBoundAssumption DEF Run
    <2>2. run'[<<i, n>>] = run[<<i, n>>]
      BY <2>1 DEF IInv, TypeOK, Trigger, Spawn
    <2> QED
      BY <2>2 DEF IInv, FreshInv, Trigger, loop
  <1> QED
    BY <1>1, <1>2, <1>3, <1>4 DEF IInv

\* The loop looks, or gives a check up.
LEMMA LookKeeps ==
    ASSUME IInv, Check \/ Abandon
    PROVE  IInv'
  <1>1. TypeOK'
    BY DEF IInv, TypeOK, Check, Abandon, Fault, table, runs
  <1>2. OncePerDue' /\ DueInv'
    BY DEF IInv, OncePerDue, DueInv, Check, Abandon, Due, table
  <1>3. FreshInv' /\ NoticeInv' /\ ToldIsRecorded'
    BY DEF IInv, FreshInv, NoticeInv, ToldIsRecorded, Check, Abandon, runs
  <1> QED
    BY <1>1, <1>2, <1>3 DEF IInv

\* A step of a run that has begun leaves the jobs and the other runs alone.
LEMMA RunKeeps ==
    ASSUME IInv, UNCHANGED <<table, loop>>, faults' \in Nat,
           NEW r \in Run, run[r].at # "none",
           NEW w \in [at : Place, round : Round], run' = [run EXCEPT ![r] = w]
    PROVE  /\ run' \in [Run -> [at : Place, round : Round]]
           /\ OncePerDue' /\ DueInv' /\ FreshInv'
  <1>1. OncePerDue' /\ DueInv'
    BY DEF IInv, OncePerDue, DueInv, table, loop
  <1>2. FreshInv'
    <2> SUFFICES ASSUME NEW i \in Job, NEW n \in 1 .. MaxDue, n > fired'[i]
                 PROVE  run'[<<i, n>>].at = "none"
      BY DEF FreshInv
    <2>1. <<i, n>> \in Run /\ run[<<i, n>>].at = "none"
      BY DEF IInv, FreshInv, Run, loop
    <2> QED
      BY <2>1 DEF IInv, TypeOK
  <1> QED
    BY <1>1, <1>2 DEF IInv, TypeOK

\* What Step does to a run.
LEMMA StepKeeps ==
    ASSUME IInv, NEW r \in Run, NEW from \in Place \ {"none"}, NEW to \in Place,
           Step(r, from, to), faults' \in Nat
    PROVE  /\ run' \in [Run -> [at : Place, round : Round]]
           /\ OncePerDue' /\ DueInv' /\ FreshInv'
           /\ run[r].at = from /\ run'[r].at = to
           /\ \A q \in Run \ {r} : run'[q] = run[q]
           /\ UNCHANGED <<job, came, edits, fired, todo, beat, up>>
  <1> DEFINE w == [NoRun EXCEPT !.at = to]
  <1>1. w \in [at : Place, round : Round]
    BY CronBoundAssumption DEF NoRun, Round
  <1>2. run' = [run EXCEPT ![r] = w] /\ run[r].at = from /\ UNCHANGED <<table, loop>>
    BY DEF Step
  <1>3. w.at = to
    BY DEF NoRun
  <1> QED
    BY <1>1, <1>2, <1>3, RunKeeps DEF IInv, TypeOK, table, loop

\* The steps before the execution has ended: nobody was told yet.
LEMMA WorkKeeps ==
    ASSUME IInv, NEW r \in Run,
           \/ CreateExecution(r) \/ NotRecorded(r) \/ Answer(r) \/ Fail(r)
           \/ Finish(r) \/ FinishFails(r)
    PROVE  IInv'
  <1>1. PICK from \in {"spawned", "asking", "finishing"},
             to \in {"asking", "finishing", "over", "refused", "notifying"} :
             /\ Step(r, from, to)
             /\ to = "notifying" => exec'[r] \in {"done", "failed"}
    BY DEF IInv, TypeOK, CreateExecution, NotRecorded, Answer, Fail, Finish, FinishFails,
           Handle
  <1>2. /\ UNCHANGED <<told, shown>> /\ faults' \in Nat
        /\ exec' \in [Run -> {"none", "running", "done", "failed"}]
        /\ \A q \in Run \ {r} : exec'[q] = exec[q]
    <2>1. CASE CreateExecution(r) \/ Finish(r)
      BY <2>1 DEF IInv, TypeOK, CreateExecution, Finish
    <2>2. CASE NotRecorded(r) \/ FinishFails(r)
      BY <2>2 DEF IInv, TypeOK, NotRecorded, FinishFails, Handle, Step, Fault
    <2>3. CASE Answer(r)
      BY <2>3 DEF IInv, TypeOK, Answer
    <2>4. CASE Fail(r)
      BY <2>4 DEF IInv, TypeOK, Fail, Handle, Step, Fault
    <2> QED
      BY <2>1, <2>2, <2>3, <2>4
  <1>3. /\ run' \in [Run -> [at : Place, round : Round]]
        /\ OncePerDue' /\ DueInv' /\ FreshInv'
        /\ run[r].at = from /\ run'[r].at = to
        /\ \A q \in Run \ {r} : run'[q] = run[q]
        /\ UNCHANGED <<job, came, edits, fired, todo, beat, up>>
    BY <1>1, <1>2, StepKeeps DEF Place
  <1>4. r \notin told \cup shown
    BY <1>3 DEF IInv, NoticeInv
  <1>5. NoticeInv' /\ ToldIsRecorded'
    BY <1>1, <1>2, <1>3, <1>4 DEF IInv, TypeOK, NoticeInv, ToldIsRecorded
  <1> QED
    BY <1>2, <1>3, <1>5 DEF IInv, TypeOK

\* A round of tools.
LEMMA UseToolsKeeps ==
    ASSUME IInv, NEW r \in Run, UseTools(r)
    PROVE  IInv'
  <1> DEFINE w == IF run[r].round + 1 < MaxRounds
                  THEN [at |-> "asking", round |-> run[r].round + 1]
                  ELSE [at |-> "finishing", round |-> 0]
  <1>1. w \in [at : Place, round : Round] /\ w.at \in {"asking", "finishing"}
    BY CronBoundAssumption DEF IInv, TypeOK, UseTools, NoRun, Round, Place
  <1>2. run' = [run EXCEPT ![r] = w] /\ run[r].at = "asking" /\ UNCHANGED <<table, loop, faults>>
    BY DEF UseTools, IInv, TypeOK
  <1>3. run' \in [Run -> [at : Place, round : Round]] /\ OncePerDue' /\ DueInv' /\ FreshInv'
    BY <1>1, <1>2, RunKeeps DEF IInv, TypeOK
  <1>4. NoticeInv' /\ ToldIsRecorded'
    BY <1>1, <1>2 DEF IInv, TypeOK, NoticeInv, ToldIsRecorded, UseTools
  <1> QED
    BY <1>3, <1>4 DEF IInv, TypeOK, UseTools, table, loop

\* The notification of a run whose execution has ended.
LEMMA NoticeKeeps ==
    ASSUME IInv, NEW r \in Run,
           Notify(r) \/ NotifyFails(r) \/ Commit(r) \/ CommitFails(r)
    PROVE  IInv'
  <1>1. PICK from \in {"notifying", "committing"}, to \in {"committing", "over"} :
             Step(r, from, to)
    BY DEF Notify, NotifyFails, Commit, CommitFails
  <1>2. /\ faults' \in Nat
        /\ told' \in {told, told \cup {r}} /\ shown' \in {shown, shown \cup {r}}
        /\ exec' \in [Run -> {"none", "running", "done", "failed"}]
        /\ \A q \in Run \ {r} : exec'[q] = exec[q]
        /\ exec'[r] \in {exec[r], "done", "failed"}
    BY DEF IInv, TypeOK, Notify, NotifyFails, Commit, CommitFails, Fault
  <1>3. /\ run' \in [Run -> [at : Place, round : Round]]
        /\ OncePerDue' /\ DueInv' /\ FreshInv'
        /\ run[r].at = from /\ run'[r].at = to
        /\ \A q \in Run \ {r} : run'[q] = run[q]
        /\ UNCHANGED <<job, came, edits, fired, todo, beat, up>>
    BY <1>1, <1>2, StepKeeps DEF Place
  <1>4. exec'[r] \in {"done", "failed"}
    BY <1>2, <1>3 DEF IInv, NoticeInv
  <1>5. NoticeInv' /\ ToldIsRecorded'
    BY <1>2, <1>3, <1>4 DEF IInv, TypeOK, NoticeInv, ToldIsRecorded
  <1> QED
    BY <1>2, <1>3, <1>5 DEF IInv, TypeOK

\* The process ends, and starts again.
LEMMA CrashKeeps ==
    ASSUME IInv, Crash \/ Restart
    PROVE  IInv'
  <1>0. \A r \in Run : \/ run'[r] = run[r]
                       \/ run[r].at \in Active /\ run'[r] = [at |-> "cut", round |-> run[r].round]
    BY DEF IInv, TypeOK, Crash, Restart, runs
  <1>1. TypeOK'
    <2>1. run' = [r \in Run |-> run'[r]]
      BY DEF IInv, TypeOK, Crash, Restart, runs
    <2>2. run' \in [Run -> [at : Place, round : Round]]
      BY <1>0, <2>1 DEF IInv, TypeOK, Place
    <2>3. faults' \in Nat
      BY DEF IInv, TypeOK, Crash, Restart, Fault
    <2> QED
      BY <2>2, <2>3 DEF IInv, TypeOK, Crash, Restart, table, runs
  <1>2. OncePerDue' /\ DueInv'
    BY DEF IInv, OncePerDue, DueInv, Crash, Restart, table
  <1>3. FreshInv'
    <2> SUFFICES ASSUME NEW i \in Job, NEW n \in 1 .. MaxDue, n > fired'[i]
                 PROVE  run'[<<i, n>>].at = "none"
      BY DEF FreshInv
    <2>1. <<i, n>> \in Run /\ run[<<i, n>>].at = "none"
      BY DEF IInv, FreshInv, Run, Crash, Restart
    <2> QED
      BY <1>0, <2>1 DEF Active
  <1>4. NoticeInv' /\ ToldIsRecorded'
    BY <1>0 DEF IInv, TypeOK, NoticeInv, ToldIsRecorded, Crash, Restart, Active, runs
  <1> QED
    BY <1>1, <1>2, <1>3, <1>4 DEF IInv

\* The inductive invariant: a due time is used once, a run is begun once, and
\* whoever was told of a run finds its execution ended.
THEOREM InductiveInvariant == Spec => []IInv
  <1>1. IInv /\ UNCHANGED vars => IInv'
    BY DEF IInv, TypeOK, OncePerDue, DueInv, FreshInv, NoticeInv, ToldIsRecorded,
           vars, table, loop, runs
  <1>2. IInv /\ Next => IInv'
    BY EditKeeps, TriggerKeeps, TimeComesKeeps, MarkKeeps, LookKeeps, WorkKeeps,
       UseToolsKeeps, NoticeKeeps, CrashKeeps, EnsureHeartbeatKeeps
    DEF Next, User, Loop, GoOn
  <1> QED
    BY InitKeeps, <1>1, <1>2, PTL DEF Spec

\* The loop runs no job more often than it was due (_check_and_run), for any
\* edits, failed writes and crashes.
THEOREM JobsRunOncePerDue == Spec => []OncePerDue
  <1>1. IInv => OncePerDue
    BY DEF IInv
  <1> QED
    BY InductiveInvariant, <1>1, PTL

\* Nothing is announced that is not recorded as ended (_execute_job).
THEOREM NoticesAreRecorded == Spec => []ToldIsRecorded
  <1>1. IInv => ToldIsRecorded
    BY DEF IInv
  <1> QED
    BY InductiveInvariant, <1>1, PTL
=============================================================================
