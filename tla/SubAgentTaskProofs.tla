-------------------------- MODULE SubAgentTaskProofs --------------------------
(***************************************************************************)
(* Proofs about SubAgentTask, for any set of tasks and any number of       *)
(* retries: a result is delivered once at most, and with its row written.  *)
(* And about SubAgentRun, for any number of rounds and attempts: it is a   *)
(* SubAgentTask, and nothing in it works for a run that has ended.         *)
(***************************************************************************)
EXTENDS SubAgentRun, TLAPS

-----------------------------------------------------------------------------
(* Types *)

\* Writing a row keeps the type of the table.
LEMMA WriteType ==
    ASSUME TypeOK, NEW t \in Task, NEW s \in Status, Write(t, s)
    PROVE  record' \in [Task -> Status] /\ unwritten' \subseteq Task
  BY DEF TypeOK, Write

\* A run that returns keeps the types of what it changes.
LEMMA ReturnType ==
    ASSUME TypeOK, NEW t \in Task, NEW s \in Status, NEW r \in Reply, Return(t, s, r)
    PROVE  /\ record' \in [Task -> Status] /\ unwritten' \subseteq Task
           /\ agent' \in [Task -> {"none", "queued", "working", "answering", "answered", "gone"}]
           /\ reply' \in [Task -> Reply]
           /\ UNCHANGED <<caller, mail, memory, cancel>>
  BY WriteType DEF TypeOK, Return, Reply

\* The steps of a run keep the types.
LEMMA RunType ==
    ASSUME TypeOK, NEW t \in Task, RunStep(t)
    PROVE  TypeOK'
  <1>1. CASE Start(t)
    BY <1>1, WriteType DEF TypeOK, Start, Status
  <1>2. CASE LoadFails(t)
    BY <1>2 DEF TypeOK, LoadFails, Reply
  <1>3. CASE Succeed(t)
    <2>1. Return(t, "done", "result") /\ UNCHANGED <<retry, tries>>
      BY <1>3 DEF Succeed
    <2> QED
      BY <2>1, ReturnType DEF TypeOK, Status, Reply
  <1>4. CASE FailForGood(t)
    <2>1. Return(t, "failed", "empty") /\ UNCHANGED <<retry, tries>>
      BY <1>4 DEF FailForGood
    <2> QED
      BY <2>1, ReturnType DEF TypeOK, Status, Reply
  <1>5. CASE FailForNow(t)
    <2>1. Return(t, "pending", "empty")
      BY <1>5 DEF FailForNow
    <2>2. tries' \in [Task -> 0 .. MaxRetries]
      BY <1>5, RetryAssumption DEF TypeOK, FailForNow
    <2>3. retry' \in [Task -> {"none", "waiting", "working", "succeeded", "failed"}]
      BY <1>5 DEF TypeOK, FailForNow
    <2> QED
      BY <2>1, <2>2, <2>3, ReturnType DEF TypeOK, Status, Reply
  <1>6. CASE Answer(t)
    BY <1>6 DEF TypeOK, Answer
  <1>7. CASE Tell(t)
    BY <1>7 DEF TypeOK, Tell, Caller
  <1>8. CASE SucceedEmpty(t)
    <2>1. Return(t, "done", "empty") /\ UNCHANGED <<retry, tries>>
      BY <1>8 DEF SucceedEmpty
    <2> QED
      BY <2>1, ReturnType DEF TypeOK, Status, Reply
  <1>9. CASE StoreHere(t)
    <2>1. record' \in [Task -> Status] /\ unwritten' \subseteq Task
      BY <1>9, WriteType DEF TypeOK, StoreHere, Status
    <2>2. memory' \in [Task -> Nat]
      BY <1>9 DEF TypeOK, StoreHere
    <2> QED
      BY <1>9, <2>1, <2>2 DEF TypeOK, StoreHere
  <1>10. CASE FinishQuietly(t)
    BY <1>10 DEF TypeOK, FinishQuietly
  <1> QED
    BY <1>1, <1>2, <1>3, <1>4, <1>5, <1>6, <1>7, <1>8, <1>9, <1>10 DEF RunStep

\* The other steps of a task keep the types.
LEMMA OtherType ==
    ASSUME TypeOK, NEW t \in Task,
           \/ \E c \in Dispatched : Dispatch(t, c)
           \/ RetryStep(t) \/ Deliver(t)
           \/ TimeOut(t) \/ CheckCancel(t) \/ Cancel(t) \/ WorkerLost(t)
    PROVE  TypeOK'
  <1>1. CASE \E c \in Dispatched : Dispatch(t, c)
    BY <1>1 DEF TypeOK, Dispatch, Status, Caller
  <1>2. CASE RetryStarts(t) \/ RetryEnds(t)
    BY <1>2 DEF TypeOK, RetryStarts, RetryEnds
  <1>3. CASE RetryAgain(t)
    BY <1>3, RetryAssumption DEF TypeOK, RetryAgain
  <1>4. CASE Deliver(t)
    BY <1>4 DEF TypeOK, Deliver, run, Reply
  <1>5. CASE TimeOut(t) \/ WorkerLost(t)
    BY <1>5 DEF TypeOK, TimeOut, WorkerLost, Caller
  <1>6. CASE CheckCancel(t) \/ Cancel(t)
    BY <1>6 DEF TypeOK, CheckCancel, Cancel, Status, run
  <1> QED
    BY <1>1, <1>2, <1>3, <1>4, <1>5, <1>6 DEF RetryStep

\* A restart keeps the types.
LEMMA RestartType ==
    ASSUME TypeOK, Restart
    PROVE  TypeOK'
  BY DEF TypeOK, Restart, Caller, Dispatched, Reply, Status

\* Every step keeps the types.
LEMMA NextType ==
    ASSUME TypeOK, [Next]_vars
    PROVE  TypeOK'
  <1>1. CASE UNCHANGED vars
    BY <1>1 DEF TypeOK, vars
  <1> QED
    BY <1>1, RunType, OtherType, RestartType DEF Next

-----------------------------------------------------------------------------
(* One answer, one delivery *)

\* A row that exists does not vanish, and only Dispatch starts a run without one.
LEMMA NextDispatch ==
    ASSUME TypeOK, DispatchInv, [Next]_vars
    PROVE  DispatchInv'
  <1>1. CASE UNCHANGED vars
    BY <1>1 DEF DispatchInv, vars
  <1>2. ASSUME NEW t \in Task, \E c \in Dispatched : Dispatch(t, c)
        PROVE  DispatchInv'
    BY <1>2 DEF TypeOK, DispatchInv, Dispatch
  <1>3. ASSUME NEW t \in Task, RunStep(t)
        PROVE  DispatchInv'
    <2>1. agent[t] # "none" /\ UNCHANGED cancel
      BY <1>3 DEF RunStep, Start, LoadFails, Succeed, SucceedEmpty, FailForGood,
         FailForNow, Answer, Tell, StoreHere, FinishQuietly, Return
    <2>2. /\ \A u \in Task :
                u # t => /\ record'[u] = record[u] /\ caller'[u] = caller[u]
                         /\ agent'[u] = agent[u] /\ retry'[u] = retry[u]
          /\ record[t] # "none" => record'[t] # "none"
      BY <1>3 DEF TypeOK, RunStep, Start, LoadFails, Succeed, SucceedEmpty,
         FailForGood, FailForNow, Answer, Tell, StoreHere, FinishQuietly, Return,
         Write
    <2> QED
      BY <2>1, <2>2 DEF DispatchInv
  <1>4. ASSUME NEW t \in Task, RetryStep(t) \/ Deliver(t)
        PROVE  DispatchInv'
    BY <1>4 DEF TypeOK, DispatchInv, RetryStep, RetryStarts, RetryEnds,
       RetryAgain, Deliver, run
  <1>5. ASSUME NEW t \in Task, CheckCancel(t) \/ Cancel(t)
        PROVE  DispatchInv'
    BY <1>5 DEF TypeOK, DispatchInv, CheckCancel, Cancel, run
  <1>6. ASSUME NEW t \in Task, WorkerLost(t)
        PROVE  DispatchInv'
    BY <1>6 DEF TypeOK, DispatchInv, WorkerLost
  <1>7. ASSUME NEW t \in Task, TimeOut(t)
        PROVE  DispatchInv'
    BY <1>7 DEF TypeOK, DispatchInv, TimeOut
  <1>8. CASE Restart
    BY <1>8 DEF TypeOK, DispatchInv, Restart
  <1> QED
    BY <1>1, <1>2, <1>3, <1>4, <1>5, <1>6, <1>7, <1>8 DEF Next

\* The answer of a task is the only one: every action keeps AnswerInv.
LEMMA NextAnswer ==
    ASSUME TypeOK, DispatchInv, AnswerInv, [Next]_vars
    PROVE  AnswerInv'
  <1>1. CASE UNCHANGED vars
    BY <1>1 DEF AnswerInv, vars
  <1>2. ASSUME NEW t \in Task, RunStep(t)
        PROVE  AnswerInv'
    <2>1. CASE Answer(t)
      BY <2>1 DEF TypeOK, AnswerInv, Answer
    <2>2. CASE StoreHere(t)
      BY <2>2 DEF TypeOK, AnswerInv, StoreHere
    <2>3. CASE ~Answer(t) /\ ~StoreHere(t)
      <3>1. UNCHANGED <<mail, memory>>
        BY <1>2, <2>3 DEF RunStep, Start, LoadFails, Succeed, SucceedEmpty,
           FailForGood, FailForNow, Tell, FinishQuietly, Return
      <3>2. \A u \in Task :
              /\ agent'[u] # agent[u] => u = t
              /\ agent[t] \in {"queued", "working", "answering"}
        BY <1>2, <2>3 DEF TypeOK, RunStep, Start, LoadFails, Succeed,
           SucceedEmpty, FailForGood, FailForNow, Tell, FinishQuietly, Return
      <3> QED
        BY <3>1, <3>2 DEF AnswerInv
    <2> QED
      BY <2>1, <2>2, <2>3
  <1>3. ASSUME NEW t \in Task, Deliver(t)
        PROVE  AnswerInv'
    BY <1>3 DEF TypeOK, AnswerInv, Deliver, run
  <1>4. ASSUME NEW t \in Task, NEW c \in Dispatched, Dispatch(t, c)
        PROVE  AnswerInv'
    BY <1>4 DEF TypeOK, AnswerInv, DispatchInv, Dispatch
  <1>5. ASSUME NEW t \in Task, TimeOut(t) \/ WorkerLost(t)
        PROVE  AnswerInv'
    BY <1>5 DEF TypeOK, AnswerInv, TimeOut, WorkerLost
  <1>6. ASSUME NEW t \in Task, RetryStep(t) \/ CheckCancel(t) \/ Cancel(t)
        PROVE  AnswerInv'
    BY <1>6 DEF AnswerInv, RetryStep, RetryStarts, RetryEnds, RetryAgain,
       CheckCancel, Cancel, run
  <1>7. CASE Restart
    BY <1>7 DEF TypeOK, AnswerInv, Restart
  <1> QED
    BY <1>1, <1>2, <1>3, <1>4, <1>5, <1>6, <1>7 DEF Next

-----------------------------------------------------------------------------
(* A delivered result has its row written *)

\* Every action keeps ResultInv.
LEMMA NextResult ==
    ASSUME TypeOK, DispatchInv, AnswerInv, ResultInv, [Next]_vars
    PROVE  ResultInv'
  <1>1. CASE UNCHANGED vars
    BY <1>1 DEF ResultInv, vars
  <1>2. ASSUME NEW t \in Task,
               Start(t) \/ LoadFails(t) \/ Tell(t) \/ FinishQuietly(t)
        PROVE  ResultInv'
    BY <1>2 DEF TypeOK, AnswerInv, ResultInv, Start, LoadFails, Tell,
       FinishQuietly, Write
  <1>3. ASSUME NEW t \in Task, NEW s \in Status, NEW r \in Reply, Return(t, s, r),
               r = "result" => s = "done"
        PROVE  ResultInv'
    <2>1. /\ mail[t] = "none" /\ memory[t] = 0
          /\ reply'[t] = "result" => record'[t] = "done" \/ t \in unwritten'
      BY <1>3 DEF TypeOK, AnswerInv, Return, Write
    <2>2. /\ UNCHANGED <<mail, memory>> /\ agent' = [agent EXCEPT ![t] = "answering"]
          /\ unwritten \subseteq unwritten'
          /\ \A u \in Task : u # t => record'[u] = record[u] /\ reply'[u] = reply[u]
      BY <1>3 DEF TypeOK, Return, Write
    <2> QED
      BY <2>1, <2>2 DEF TypeOK, ResultInv
  <1>4. ASSUME NEW t \in Task,
               Succeed(t) \/ SucceedEmpty(t) \/ FailForGood(t) \/ FailForNow(t)
        PROVE  ResultInv'
    BY <1>3, <1>4 DEF Succeed, SucceedEmpty, FailForGood, FailForNow, Status, Reply
  <1>5. ASSUME NEW t \in Task, Answer(t)
        PROVE  ResultInv'
    BY <1>5 DEF TypeOK, ResultInv, Answer
  <1>6. ASSUME NEW t \in Task, Deliver(t)
        PROVE  ResultInv'
    BY <1>6 DEF TypeOK, AnswerInv, ResultInv, Deliver, run
  <1>7. ASSUME NEW t \in Task, NEW c \in Dispatched, Dispatch(t, c)
        PROVE  ResultInv'
    BY <1>7 DEF TypeOK, AnswerInv, DispatchInv, ResultInv, Dispatch
  <1>8. ASSUME NEW t \in Task, TimeOut(t) \/ WorkerLost(t)
        PROVE  ResultInv'
    BY <1>8 DEF TypeOK, ResultInv, TimeOut, WorkerLost
  <1>9. ASSUME NEW t \in Task, RetryStep(t) \/ CheckCancel(t) \/ Cancel(t)
        PROVE  ResultInv'
    BY <1>9 DEF TypeOK, ResultInv, RetryStep, RetryStarts, RetryEnds, RetryAgain,
       CheckCancel, Cancel, run
  <1>10. ASSUME NEW t \in Task, StoreHere(t)
         PROVE  ResultInv'
    <2>1. \A u \in Task : u # t => /\ record'[u] = record[u] /\ agent'[u] = agent[u]
                                   /\ memory'[u] = memory[u]
      BY <1>10 DEF TypeOK, StoreHere, Write
    <2>2. /\ agent'[t] = "answered" /\ UNCHANGED <<mail, reply>>
          /\ mail[t] = "none" /\ memory[t] = 0 /\ unwritten \subseteq unwritten'
          /\ memory'[t] > 0 => reply[t] = "result" /\ UNCHANGED record
      BY <1>10 DEF TypeOK, AnswerInv, StoreHere, Write
    <2>3. agent[t] = "answering"
      BY <1>10 DEF StoreHere
    <2> QED
      BY <2>1, <2>2, <2>3 DEF ResultInv
  <1>11. CASE Restart
    BY <1>11 DEF TypeOK, ResultInv, Restart
  <1> QED
    BY <1>1, <1>2, <1>4, <1>5, <1>6, <1>7, <1>8, <1>9, <1>10, <1>11
       DEF Next, RunStep

-----------------------------------------------------------------------------
(* The theorems *)

\* There is no task in the beginning.
LEMMA InitHolds == Init => IInv
  <1> SUFFICES ASSUME Init
               PROVE  IInv
    OBVIOUS
  <1>1. TypeOK
    BY RetryAssumption DEF Init, TypeOK, Status, Reply, Caller
  <1>2. DispatchInv /\ AnswerInv /\ ResultInv
    BY DEF Init, DispatchInv, AnswerInv, ResultInv
  <1> QED
    BY <1>1, <1>2 DEF IInv

\* The variables keep their types, a task has one answer, in its place, and a
\* result on its way has its row written.
THEOREM InductiveInvariant == Spec => []IInv
  <1>1. IInv /\ [Next]_vars => IInv'
    BY NextType, NextDispatch, NextAnswer, NextResult DEF IInv
  <1> QED
    BY InitHolds, <1>1, PTL DEF Spec

\* Whatever fails, the parent session is given a result once at most
\* (sub_daemon.py, response_sent; broker.py, _deliver_sub_result).
THEOREM ResultDeliveredOnce == Spec => []DeliveredOnce
  <1>1. IInv => DeliveredOnce
    BY DEF IInv, AnswerInv, DeliveredOnce
  <1> QED
    BY InductiveInvariant, <1>1, PTL

\* A result in the parent session has its row DONE, or cancelled since, or the
\* database lost it (sub_agent.py, _update_status before the return of run).
THEOREM DeliveredResultIsDone == Spec => []DeliveredIsDone
  <1>1. IInv => DeliveredIsDone
    BY DEF IInv, TypeOK, ResultInv, DeliveredIsDone
  <1> QED
    BY InductiveInvariant, <1>1, PTL

-----------------------------------------------------------------------------
(* A row that has ended                                                    *)

\* The first run has not returned while its row has not ended: nothing but its
\* own return and the start of the server ends the row of a task.
EarlyInv ==
    \A t \in Task : agent[t] \in {"queued", "working"}
                        => record[t] \notin {"done", "failed"}

\* Only the task itself changes when it starts, returns or stores its result.
LEMMA WriteOne ==
    ASSUME TypeOK, NEW t \in Task, NEW s \in Status, Write(t, s)
    PROVE  /\ record'[t] \in {record[t], s}
           /\ \A u \in Task \ {t} : record'[u] = record[u]
  BY DEF Write, TypeOK

LEMMA EarlyKept ==
    ASSUME IInv, EarlyInv, [Next]_vars
    PROVE  EarlyInv'
  <1> SUFFICES ASSUME NEW t \in Task, agent'[t] \in {"queued", "working"}
               PROVE  record'[t] \notin {"done", "failed"}
    BY DEF EarlyInv
  <1> USE DEF IInv, TypeOK, EarlyInv
  <1>1. CASE UNCHANGED vars
    BY <1>1 DEF vars, run
  <1>2. CASE Restart
    BY <1>2 DEF Restart
  <1>3. ASSUME NEW u \in Task, NEW c \in Dispatched, Dispatch(u, c)
        PROVE  record'[t] \notin {"done", "failed"}
    BY <1>3 DEF Dispatch
  <1>4. ASSUME NEW u \in Task, Start(u)
        PROVE  record'[t] \notin {"done", "failed"}
    <2>1. record'[u] \in {record[u], "running"}
          /\ \A v \in Task \ {u} : record'[v] = record[v]
      BY <1>4, WriteOne DEF Start, Status
    <2> QED
      BY <1>4, <2>1 DEF Start
  <1>5. ASSUME NEW u \in Task, NEW s \in Status, NEW r, Return(u, s, r)
        PROVE  record'[t] \notin {"done", "failed"}
    <2>1. \A v \in Task \ {u} : record'[v] = record[v]
      BY <1>5, WriteOne DEF Return
    <2>2. t # u /\ agent'[t] = agent[t]
      BY <1>5 DEF Return
    <2> QED
      BY <2>1, <2>2
  <1>6. ASSUME NEW u \in Task, StoreHere(u)
        PROVE  record'[t] \notin {"done", "failed"}
    <2>1. \A v \in Task \ {u} : record'[v] = record[v]
      BY <1>6, WriteOne DEF StoreHere, Status
    <2>2. t # u /\ agent'[t] = agent[t]
      BY <1>6 DEF StoreHere
    <2> QED
      BY <2>1, <2>2
  <1>7. ASSUME NEW u \in Task,
               LoadFails(u) \/ Answer(u) \/ Tell(u) \/ FinishQuietly(u)
               \/ TimeOut(u) \/ WorkerLost(u)
        PROVE  record'[t] \notin {"done", "failed"}
    BY <1>7 DEF LoadFails, Answer, Tell, FinishQuietly, TimeOut, WorkerLost
  <1>8. ASSUME NEW u \in Task,
               RetryStep(u) \/ Deliver(u) \/ CheckCancel(u)
        PROVE  record'[t] \notin {"done", "failed"}
    BY <1>8 DEF RetryStep, RetryStarts, RetryEnds, RetryAgain, Deliver,
                CheckCancel, run
  <1>9. ASSUME NEW u \in Task, Cancel(u)
        PROVE  record'[t] \notin {"done", "failed"}
    BY <1>9 DEF Cancel, run
  <1> QED
    BY <1>1, <1>2, <1>3, <1>4, <1>5, <1>6, <1>7, <1>8, <1>9
       DEF Next, RunStep, Succeed, SucceedEmpty, FailForGood, FailForNow, Status

LEMMA EndedKept ==
    ASSUME IInv, EarlyInv, [Next]_vars, NEW t \in Task,
           record[t] \in {"done", "failed"}
    PROVE  \/ record'[t] \in {record[t], "cancelled"}
           \/ record'[t] = "failed" /\ caller[t] = "here" /\ memory[t] = 0
  <1> DEFINE Goal == \/ record'[t] \in {record[t], "cancelled"}
                     \/ /\ record'[t] = "failed" /\ caller[t] = "here"
                        /\ memory[t] = 0
  <1> USE DEF IInv, TypeOK, EarlyInv
  <1>1. CASE UNCHANGED vars
    BY <1>1 DEF vars
  <1>2. CASE Restart
    BY <1>2 DEF Restart
  <1>3. ASSUME NEW u \in Task, NEW c \in Dispatched, Dispatch(u, c)
        PROVE  Goal
    BY <1>3 DEF Dispatch
  <1>4. ASSUME NEW u \in Task, Start(u) PROVE Goal
    <2>1. t # u
      BY <1>4 DEF Start
    <2> QED
      BY <1>4, <2>1, WriteOne DEF Start, Status
  <1>5. ASSUME NEW u \in Task, NEW s \in Status, NEW r, Return(u, s, r)
        PROVE  Goal
    <2>1. t # u
      BY <1>5 DEF Return
    <2> QED
      BY <1>5, <2>1, WriteOne DEF Return
  <1>6. ASSUME NEW u \in Task, StoreHere(u) PROVE Goal
    <2>1. memory[u] = 0 /\ caller[u] = "here"
      BY <1>6 DEF StoreHere, AnswerInv
    <2>2. UNCHANGED record \/ Write(u, "failed")
      BY <1>6 DEF StoreHere
    <2>3. CASE UNCHANGED record
      BY <2>3
    <2>4. CASE Write(u, "failed")
      <3>1. /\ record'[u] \in {record[u], "failed"}
            /\ \A v \in Task \ {u} : record'[v] = record[v]
        BY <2>4, WriteOne DEF Status
      <3> QED
        BY <2>1, <3>1
    <2> QED
      BY <2>2, <2>3, <2>4
  <1>7. ASSUME NEW u \in Task,
               LoadFails(u) \/ Answer(u) \/ Tell(u) \/ FinishQuietly(u)
               \/ TimeOut(u) \/ WorkerLost(u) \/ RetryStep(u) \/ Deliver(u)
               \/ CheckCancel(u)
        PROVE  Goal
    BY <1>7 DEF LoadFails, Answer, Tell, FinishQuietly, TimeOut, WorkerLost,
                RetryStep, RetryStarts, RetryEnds, RetryAgain, Deliver,
                CheckCancel
  <1>8. ASSUME NEW u \in Task, Cancel(u) PROVE Goal
    BY <1>8 DEF Cancel
  <1> QED
    BY <1>1, <1>2, <1>3, <1>4, <1>5, <1>6, <1>7, <1>8
       DEF Next, RunStep, Succeed, SucceedEmpty, FailForGood, FailForNow, Status

\* A row that says DONE or FAILED is overwritten by a cancellation only, or by
\* the process that ran the task itself and could not hand its result on
\* (tasks.py, cancel_task; builtin_agent.py, run_in_background).
THEOREM EndedRowsStayEnded == Spec => EndedStaysEnded
  <1> DEFINE Step == \A t \in Task :
        record[t] \in {"done", "failed"} =>
            \/ record'[t] \in {record[t], "cancelled"}
            \/ record'[t] = "failed" /\ caller[t] = "here" /\ memory[t] = 0
  <1>1. Init => EarlyInv
    BY DEF Init, EarlyInv
  <1>2. IInv /\ EarlyInv /\ [Next]_vars => EarlyInv'
    BY EarlyKept
  <1>3. IInv /\ EarlyInv /\ [Next]_vars => Step
    BY EndedKept
  <1>4. IInv /\ EarlyInv /\ [Next]_vars => [Step]_vars
    BY <1>3
  <1> QED
    BY <1>1, <1>2, <1>4, InductiveInvariant, PTL DEF EndedStaysEnded, Spec

-----------------------------------------------------------------------------
(* The inside of a run: SubAgentRun                                        *)

\* A step of the rounds changes nothing of the task; every other step of
\* SubAgentRun is a step of the task with the same name or purpose.
LEMMA RunStepIsTaskStep == [RunNext]_RunVars => [Next]_vars
  <1> SUFFICES ASSUME [RunNext]_RunVars PROVE [Next]_vars
    OBVIOUS
  <1>1. CASE UNCHANGED RunVars
    BY <1>1 DEF RunVars
  <1>2. CASE LoseAll
    BY <1>2 DEF LoseAll, Next
  <1>3. ASSUME NEW t \in Task, WorkStep(t) PROVE [Next]_vars
    <2>1. UNCHANGED vars
      BY <1>3 DEF WorkStep, ModelAnswers, ModelFails, MemoryFails, RunTools, SumUp
    <2> QED
      BY <2>1
  <1>4. ASSUME NEW t \in Task, RunStepOf(t) PROVE [Next]_vars
    <2>1. RunStep(t)
      BY <1>4 DEF RunStepOf, RunStep, BeginRun, EndRun
    <2> QED
      BY <2>1 DEF Next
  <1>5. ASSUME NEW t \in Task, BeginRetry(t) \/ EndRetry(t) PROVE [Next]_vars
    <2>1. RetryStep(t)
      BY <1>5 DEF RetryStep, BeginRetry, EndRetry
    <2> QED
      BY <2>1 DEF Next
  <1>6. ASSUME NEW t \in Task, CutOff(t) \/ Lose(t) PROVE [Next]_vars
    <2>1. TimeOut(t) \/ WorkerLost(t)
      BY <1>6 DEF CutOff, Lose
    <2> QED
      BY <2>1 DEF Next
  <1>7. ASSUME NEW t \in Task,
               \/ \E c \in Dispatched : Dispatch(t, c)
               \/ Deliver(t) \/ CheckCancel(t) \/ Cancel(t)
        PROVE  [Next]_vars
    BY <1>7 DEF Next
  <1> QED
    BY <1>1, <1>2, <1>3, <1>4, <1>5, <1>6, <1>7 DEF RunNext

\* Whatever the model answers and however its calls fail, a run taken apart into
\* its rounds behaves as the run of SubAgentTask does (sub_agent.py, reply as
\* called by run); that it also ends is ImplementsTask.
THEOREM RunImplementsTask == RunSpec => Spec
  <1>1. RunInit => Init
    BY DEF RunInit
  <1> QED
    BY <1>1, RunStepIsTaskStep, PTL DEF RunSpec, Spec

\* So what is proved of the tasks holds with their rounds: one delivery, of a
\* result whose row is written, and no row opened again.
THEOREM TaskPropertiesOfRuns ==
    RunSpec => []DeliveredOnce /\ []DeliveredIsDone /\ EndedStaysEnded
  <1> QED
    BY RunImplementsTask, ResultDeliveredOnce, DeliveredResultIsDone,
       EndedRowsStayEnded, PTL

\* What the steps below use of the types of a task.
LEMMA TaskFunctions ==
    ASSUME IInv
    PROVE  /\ agent \in [Task -> {"none", "queued", "working", "answering",
                                  "answered", "gone"}]
           /\ retry \in [Task -> {"none", "waiting", "working", "succeeded",
                                  "failed"}]
           /\ tries \in [Task -> 0 .. MaxRetries]
  BY DEF IInv, TypeOK

\* The run of a task is at work before a step and after it.
StaysAtWork(t) ==
    \E w \in Works : /\ work' = [work EXCEPT ![t] = w]
                     /\ w.at # "off" /\ work[t].at # "off"

\* The rounds and attempts stay within their bounds, and while they go on the
\* run is at work.
LEMMA WorkStepKeeps ==
    ASSUME RunInv, NEW t \in Task, WorkStep(t)
    PROVE  RunInv'
  <1>1. UNCHANGED vars
    BY DEF WorkStep, ModelAnswers, ModelFails, MemoryFails, RunTools, SumUp
  <1>2. work[t] \in Works
    BY DEF RunInv
  <1>3. StaysAtWork(t)
    <2>1. ASSUME NEW how \in {"tools", "summing", "text", "notext", "transient",
                              "permanent"},
                 Ends(t, how), work[t].at # "off"
          PROVE  StaysAtWork(t)
      <3> DEFINE w == [work[t] EXCEPT !.at = how]
      <3>1. w \in Works /\ w.at = how
        BY <1>2 DEF Works
      <3>2. w.at # "off"
        BY <3>1
      <3>3. work' = [work EXCEPT ![t] = w]
        BY <2>1 DEF Ends, Goes
      <3> HIDE DEF w
      <3> QED
        BY <2>1, <3>1, <3>2, <3>3 DEF StaysAtWork
    <2>2. ASSUME NEW last \in {"text", "summing"}, NextRound(t, last),
                 work[t].at # "off"
          PROVE  StaysAtWork(t)
      <3>1. CASE work[t].round = MaxRounds
        BY <2>1, <2>2, <3>1 DEF NextRound
      <3>2. CASE work[t].round # MaxRounds
        <4> DEFINE w == [at |-> "asking", round |-> work[t].round + 1,
                         attempt |-> 1]
        <4>1. work[t].round + 1 \in 0 .. MaxRounds /\ 1 \in 0 .. MaxAttempts
          BY <1>2, <3>2, RoundsAssumption DEF Works
        <4>2. w \in Works /\ w.at # "off"
          BY <4>1 DEF Works
        <4>3. work' = [work EXCEPT ![t] = w]
          BY <2>2, <3>2 DEF NextRound, Goes
        <4> HIDE DEF w
        <4> QED
          BY <4>2, <4>3, <2>2 DEF StaysAtWork
      <3> QED
        BY <3>1, <3>2
    <2>3. CASE ModelAnswers(t)
      BY <2>1, <2>2, <2>3 DEF ModelAnswers
    <2>4. CASE ModelFails(t)
      <3>1. CASE \E how \in {"permanent", "transient"} : Ends(t, how)
        BY <2>1, <2>4, <3>1 DEF ModelFails
      <3>2. CASE /\ work[t].attempt < MaxAttempts
                 /\ Goes(t, [work[t] EXCEPT !.attempt = @ + 1])
        <4> DEFINE w == [work[t] EXCEPT !.attempt = @ + 1]
        <4>1. work[t].attempt + 1 \in 0 .. MaxAttempts
          BY <1>2, <3>2, RoundsAssumption DEF Works
        <4>2. w \in Works /\ w.at = work[t].at
          BY <1>2, <4>1 DEF Works
        <4>3. work' = [work EXCEPT ![t] = w]
          BY <3>2 DEF Goes
        <4>4. work[t].at = "asking"
          BY <2>4 DEF ModelFails
        <4> HIDE DEF w
        <4> QED
          BY <4>2, <4>3, <4>4 DEF StaysAtWork
      <3> QED
        BY <2>4, <3>1, <3>2 DEF ModelFails
    <2>5. CASE MemoryFails(t)
      BY <2>1, <2>5 DEF MemoryFails
    <2>6. CASE RunTools(t)
      BY <2>2, <2>6 DEF RunTools
    <2>7. CASE SumUp(t)
      BY <2>1, <2>7 DEF SumUp
    <2> QED
      BY <2>3, <2>4, <2>5, <2>6, <2>7 DEF WorkStep
  <1>4. PICK w \in Works : /\ work' = [work EXCEPT ![t] = w]
                           /\ w.at # "off" /\ work[t].at # "off"
    BY <1>3 DEF StaysAtWork
  <1> QED
    BY <1>1, <1>4 DEF RunInv, RetriesFollowTheRun, WorksForARun, vars

\* A run or a retry that begins finds nobody at work; one that ends, is cut off
\* or lost leaves nothing.
LEMMA BeginsAndEndsKeep ==
    ASSUME IInv, IInv', RunInv, NEW t \in Task,
           BeginRun(t) \/ EndRun(t) \/ BeginRetry(t) \/ EndRetry(t)
           \/ CutOff(t) \/ Lose(t)
    PROVE  RunInv'
  <1>1. /\ work \in [Task -> Works] /\ RetriesFollowTheRun /\ WorksForARun
    BY DEF RunInv
  <1>2. NoWork \in Works /\ NoWork.at = "off"
    BY RoundsAssumption DEF NoWork, Works
  <1>3. FirstWork \in Works /\ FirstWork.at # "off"
    <2>1. 1 \in 0 .. MaxRounds /\ 1 \in 0 .. MaxAttempts
      BY RoundsAssumption
    <2> QED
      BY <2>1 DEF FirstWork, Works
  <1> USE TaskFunctions DEF RetriesFollowTheRun, WorksForARun
  <1>4. CASE BeginRun(t)
    <2>1. /\ agent[t] = "queued" /\ agent' = [agent EXCEPT ![t] = "working"]
          /\ UNCHANGED retry /\ work' = [work EXCEPT ![t] = FirstWork]
      BY <1>4 DEF BeginRun, Start, Goes
    <2>2. retry[t] = "none"
      BY <1>1, <2>1
    <2> QED
      BY <1>1, <1>3, <2>1, <2>2 DEF RunInv
  <1>5. CASE EndRun(t)
    <2>1. /\ agent[t] = "working" /\ agent' = [agent EXCEPT ![t] = "answering"]
          /\ \/ UNCHANGED retry
             \/ retry' = [retry EXCEPT ![t] = "waiting"]
          /\ work' = [work EXCEPT ![t] = NoWork]
      BY <1>5 DEF EndRun, Succeed, SucceedEmpty, FailForGood, FailForNow,
                  Return, Off, Goes
    <2>2. retry[t] = "none"
      BY <1>1, <2>1
    <2> QED
      BY <1>1, <1>2, <2>1, <2>2 DEF RunInv
  <1>6. CASE BeginRetry(t)
    <2>1. /\ agent[t] \in {"answered", "gone"} /\ UNCHANGED agent
          /\ retry[t] = "waiting" /\ retry' = [retry EXCEPT ![t] = "working"]
          /\ work' = [work EXCEPT ![t] = FirstWork]
      BY <1>6 DEF BeginRetry, RetryStarts, Goes
    <2> QED
      BY <1>1, <1>3, <2>1 DEF RunInv
  <1>7. CASE EndRetry(t)
    <2>1. /\ retry[t] = "working" /\ UNCHANGED agent
          /\ \E r \in {"succeeded", "failed", "waiting"} :
                retry' = [retry EXCEPT ![t] = r]
          /\ work' = [work EXCEPT ![t] = NoWork]
      BY <1>7 DEF EndRetry, RetryEnds, RetryAgain, Off, Goes
    <2>2. agent[t] # "working"
      BY <1>1, <2>1
    <2> QED
      BY <1>1, <1>2, <2>1, <2>2 DEF RunInv
  <1>8. CASE CutOff(t)
    <2>1. /\ agent' = [agent EXCEPT ![t] = "gone"] /\ UNCHANGED retry
          /\ IF agent[t] = "working" THEN work' = [work EXCEPT ![t] = NoWork]
                                     ELSE UNCHANGED work
      BY <1>8 DEF CutOff, TimeOut, Off, Goes
    <2>2. CASE agent[t] = "working"
      <3>1. retry[t] = "none"
        BY <1>1, <2>2
      <3> QED
        BY <1>1, <1>2, <2>1, <2>2, <3>1 DEF RunInv
    <2>3. CASE agent[t] # "working"
      BY <1>1, <2>1, <2>3 DEF RunInv
    <2> QED
      BY <2>2, <2>3
  <1>9. CASE Lose(t)
    <2>1. /\ agent' = [agent EXCEPT ![t] = "gone"]
          /\ retry' = [retry EXCEPT ![t] = "none"]
          /\ work' = [work EXCEPT ![t] = NoWork]
      BY <1>9 DEF Lose, WorkerLost, Off, Goes
    <2> QED
      BY <1>1, <1>2, <2>1 DEF RunInv
  <1> QED
    BY <1>4, <1>5, <1>6, <1>7, <1>8, <1>9

\* What goes on around the run does not begin or end it.
LEMMA AroundKeeps ==
    ASSUME IInv, RunInv, NEW t \in Task, UNCHANGED work,
           \/ LoadFails(t) \/ Answer(t) \/ Tell(t) \/ StoreHere(t)
           \/ FinishQuietly(t) \/ Deliver(t) \/ CheckCancel(t) \/ Cancel(t)
           \/ \E c \in Dispatched : Dispatch(t, c)
    PROVE  RunInv'
  <1>1. UNCHANGED retry
    BY DEF LoadFails, Answer, Tell, StoreHere, FinishQuietly, Deliver,
           CheckCancel, Cancel, Dispatch, run
  <1>2. \/ UNCHANGED agent
        \/ \E to \in {"answering", "answered", "gone"} :
              /\ agent' = [agent EXCEPT ![t] = to]
              /\ agent[t] \in {"queued", "answering"}
        \/ /\ agent' = [agent EXCEPT ![t] = "queued"]
           /\ agent[t] = "none" /\ retry[t] = "none"
    BY DEF LoadFails, Answer, Tell, StoreHere, FinishQuietly, Deliver,
           CheckCancel, Cancel, Dispatch, run, IInv, DispatchInv
  <1> QED
    BY <1>1, <1>2, TaskFunctions DEF RunInv, RetriesFollowTheRun, WorksForARun

LEMMA RunNextKeeps ==
    ASSUME IInv, IInv', RunInv, [RunNext]_RunVars
    PROVE  RunInv'
  <1>1. CASE UNCHANGED RunVars
    BY <1>1 DEF RunVars, vars, RunInv, RetriesFollowTheRun, WorksForARun
  <1>2. CASE LoseAll
    <2>1. /\ work' = [u \in Task |-> NoWork]
          /\ retry' = [u \in Task |-> "none"]
          /\ agent' = [u \in Task |-> IF agent[u] = "none" THEN "none" ELSE "gone"]
      BY <1>2 DEF LoseAll, Restart
    <2>2. NoWork \in Works /\ NoWork.at = "off"
      BY RoundsAssumption DEF NoWork, Works
    <2> QED
      BY <2>1, <2>2 DEF RunInv, RetriesFollowTheRun, WorksForARun
  <1>3. ASSUME NEW t \in Task, WorkStep(t) PROVE RunInv'
    BY <1>3, WorkStepKeeps
  <1>4. ASSUME NEW t \in Task,
               BeginRun(t) \/ EndRun(t) \/ BeginRetry(t) \/ EndRetry(t)
               \/ CutOff(t) \/ Lose(t)
        PROVE  RunInv'
    BY <1>4, BeginsAndEndsKeep
  <1>5. ASSUME NEW t \in Task, UNCHANGED work,
               \/ LoadFails(t) \/ Answer(t) \/ Tell(t) \/ StoreHere(t)
               \/ FinishQuietly(t) \/ Deliver(t) \/ CheckCancel(t) \/ Cancel(t)
               \/ \E c \in Dispatched : Dispatch(t, c)
        PROVE  RunInv'
    BY <1>5, AroundKeeps
  <1> QED
    BY <1>1, <1>2, <1>3, <1>4, <1>5 DEF RunNext, RunStepOf

\* The questions and tools of a run are there exactly while the run or a retry
\* of it is, whoever cuts it off (sub_agent.py, run and _retry;
\* builtin_agent.py, wait_for).
THEOREM WorkIsForARun == RunSpec => []WorksForARun
  <1>1. RunInit => RunInv
    BY RoundsAssumption
       DEF RunInit, Init, RunInv, RetriesFollowTheRun, WorksForARun, NoWork, Works
  <1>2. IInv /\ IInv' /\ RunInv /\ [RunNext]_RunVars => RunInv'
    BY RunNextKeeps
  <1>3. RunInv => WorksForARun
    BY DEF RunInv
  <1>4. RunSpec => []IInv
    BY RunImplementsTask, InductiveInvariant, PTL
  <1> QED
    BY <1>1, <1>2, <1>3, <1>4, PTL DEF RunSpec
=============================================================================
