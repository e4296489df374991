----------------------------- MODULE SubAgentTask -----------------------------
(***************************************************************************)
(* The life of the tasks given to sub agents: the row of sub_agent_tasks,  *)
(* the run in the sub agent's worker (zmq_bus/sub_daemon.py) or, for a     *)
(* blocking call and without a scheduler, in the caller's process          *)
(* (tools/builtin_agent.py, agents/personal_assistant.py), the retries     *)
(* SubAgent.run leaves behind, the cancel endpoint, the delivery of the    *)
(* result to the parent session by the broker or by the caller's process,  *)
(* and the sweep of unfinished rows when the server starts.                *)
(*                                                                         *)
(* A run writes its row through the session that was opened for it.  The   *)
(* session is closed when the first run returns, so a retry has nothing    *)
(* left to write to: its row is detached.  The first backoff lasts at least *)
(* two seconds, which outlasts the answer.                                 *)
(***************************************************************************)
EXTENDS Naturals

CONSTANTS
    Task,        \* task ids
    MaxRetries,  \* SubAgentTask.max_retries
    Faults       \* what may go wrong, a subset of FaultKind

FaultKind == {
    "worker",   \* the dispatch never reaches the worker, its process dies, or
                \* the server is restarted
    "commit",   \* a write of the row fails; _update_status swallows the error
    "deliver"}  \* the answer is lost, or the broker cannot store the result

ASSUME RetryAssumption == MaxRetries \in Nat
ASSUME TaskFaultAssumption == Faults \subseteq FaultKind

VARIABLES
    record,  \* the status in the row of each task
    unwritten, \* the tasks a write of whose row was lost
    caller,  \* who dispatched it, and what a blocking caller was told
    agent,   \* the first run
    retry,   \* the background retries
    tries,   \* retry_count, in the memory of the agent
    reply,   \* what the first run returned, as the daemon will report it
    mail,    \* the AGENT_RESPONSE that waits for the broker
    memory,  \* how many results the parent session was given
    cancel   \* the cancel endpoint, between its check and its write

vars == <<record, unwritten, caller, agent, retry, tries, reply, mail, memory, cancel>>
run == <<agent, retry, tries, reply>>

Status == {"none", "pending", "running", "done", "failed", "cancelled"}
Reply == {"none", "result", "empty", "failed"}

\* How a task is dispatched: to a worker; by a blocking tool call; into the
\* background of the process, by the tool or by the API.  A blocking caller is
\* told how it ended, or not any more.
Dispatched == {"async", "waiting", "here", "quiet"}
Caller == Dispatched \cup {"none", "done", "failed", "timeout"}

TypeOK ==
    /\ record \in [Task -> Status]
    /\ unwritten \subseteq Task
    /\ caller \in [Task -> Caller]
    /\ agent \in [Task -> {"none", "queued", "working", "answering", "answered", "gone"}]
    /\ retry \in [Task -> {"none", "waiting", "working", "succeeded", "failed"}]
    /\ tries \in [Task -> 0 .. MaxRetries]
    /\ reply \in [Task -> Reply]
    /\ mail \in [Task -> Reply]
    /\ memory \in [Task -> Nat]
    /\ cancel \in [Task -> {"none", "checked"}]

Init ==
    /\ record = [t \in Task |-> "none"]
    /\ unwritten = {}
    /\ caller = [t \in Task |-> "none"]
    /\ agent = [t \in Task |-> "none"]
    /\ retry = [t \in Task |-> "none"]
    /\ tries = [t \in Task |-> 0]
    /\ reply = [t \in Task |-> "none"]
    /\ mail = [t \in Task |-> "none"]
    /\ memory = [t \in Task |-> 0]
    /\ cancel = [t \in Task |-> "none"]

\* _update_status: what somebody else has written meanwhile is overwritten.
Write(t, s) ==
    \/ /\ record' = [record EXCEPT ![t] = s]
       /\ UNCHANGED unwritten
    \/ /\ "commit" \in Faults
       /\ unwritten' = unwritten \cup {t}
       /\ UNCHANGED record

-----------------------------------------------------------------------------
(* Dispatching *)

Dispatch(t, c) ==
    /\ record[t] = "none"
    /\ record' = [record EXCEPT ![t] = "pending"]
    /\ caller' = [caller EXCEPT ![t] = c]
    /\ agent' = [agent EXCEPT ![t] = "queued"]
    /\ UNCHANGED <<unwritten, retry, tries, reply, mail, memory, cancel>>

-----------------------------------------------------------------------------
(* The first run: SubAgent.run under _run_task or InternalSubAgentRuntime *)

\* The status that is loaded is not looked at.
Start(t) ==
    /\ agent[t] = "queued"
    /\ agent' = [agent EXCEPT ![t] = "working"]
    /\ Write(t, "running")
    /\ UNCHANGED <<caller, retry, tries, reply, mail, memory, cancel>>

\* The first run returns, with the row set to s.  The commit after it may
\* raise, and then the daemon reports a failure.
Return(t, s, r) ==
    /\ agent[t] = "working"
    /\ agent' = [agent EXCEPT ![t] = "answering"]
    /\ Write(t, s)
    /\ \/ reply' = [reply EXCEPT ![t] = r]
       \/ "commit" \in Faults /\ reply' = [reply EXCEPT ![t] = "failed"]
    /\ UNCHANGED <<caller, mail, memory, cancel>>

\* Mutant: the result is reported before the row is written.
SucceedUnwritten(t) ==
    /\ Return(t, "running", "result")
    /\ UNCHANGED <<retry, tries>>

Succeed(t) ==
    /\ Return(t, "done", "result")
    /\ UNCHANGED <<retry, tries>>

\* The model had no text to give: the row says DONE, there is no result.
SucceedEmpty(t) ==
    /\ Return(t, "done", "empty")
    /\ UNCHANGED <<retry, tries>>

\* run swallows the error and returns the empty string.
FailForGood(t) ==
    /\ Return(t, "failed", "empty")
    /\ UNCHANGED <<retry, tries>>

FailForNow(t) ==
    /\ tries[t] < MaxRetries
    /\ Return(t, "pending", "empty")
    /\ tries' = [tries EXCEPT ![t] = @ + 1]
    /\ retry' = [retry EXCEPT ![t] = "waiting"]

\* The row cannot be loaded.  The daemon says so; in the background of the
\* caller's process nobody notices.
LoadFails(t) ==
    /\ "commit" \in Faults
    /\ agent[t] = "queued"
    /\ agent' = [agent EXCEPT ![t] =
                    IF caller[t] \in {"here", "quiet"} THEN "gone" ELSE "answering"]
    /\ reply' = [reply EXCEPT ![t] = "failed"]
    /\ UNCHANGED <<record, unwritten, caller, retry, tries, mail, memory, cancel>>

\* Mutant: the fallback of the finally block does not ask whether the answer
\* was sent.
AnswerTwice(t) ==
    /\ agent[t] \in {"answering", "answered"}
    /\ caller[t] = "async"
    /\ mail[t] = "none"
    /\ agent' = [agent EXCEPT ![t] = IF @ = "answering" THEN "answered" ELSE "gone"]
    /\ mail' = [mail EXCEPT ![t] = reply[t]]
    /\ UNCHANGED <<record, unwritten, caller, retry, tries, reply, memory, cancel>>

\* The daemon sends AGENT_RESPONSE, from the try, the except or the finally.
Answer(t) ==
    /\ agent[t] = "answering"
    /\ caller[t] = "async"
    /\ agent' = [agent EXCEPT ![t] = "answered"]
    /\ mail' = [mail EXCEPT ![t] = reply[t]]
    /\ UNCHANGED <<record, unwritten, caller, retry, tries, reply, memory, cancel>>

\* A blocking caller reads the row again before it tells.
Tell(t) ==
    /\ agent[t] = "answering"
    /\ caller[t] = "waiting"
    /\ agent' = [agent EXCEPT ![t] = "answered"]
    /\ caller' = [caller EXCEPT ![t] =
                    IF reply[t] # "failed" /\ record[t] = "done" THEN "done"
                                                                 ELSE "failed"]
    /\ UNCHANGED <<record, unwritten, retry, tries, reply, mail, memory, cancel>>

\* run_in_background stores the result itself; when it cannot, or the run could
\* not be committed, the row becomes FAILED.
StoreHere(t) ==
    /\ agent[t] = "answering"
    /\ caller[t] = "here"
    /\ agent' = [agent EXCEPT ![t] = "answered"]
    /\ \/ /\ reply[t] = "result"
          /\ memory' = [memory EXCEPT ![t] = @ + 1]
          /\ UNCHANGED <<record, unwritten>>
       \/ /\ \/ reply[t] = "failed"
             \/ reply[t] = "result" /\ "deliver" \in Faults
          /\ Write(t, "failed")
          /\ UNCHANGED memory
       \/ reply[t] = "empty" /\ UNCHANGED <<record, unwritten, memory>>
    /\ UNCHANGED <<caller, retry, tries, reply, mail, cancel>>

\* A task the API runs in the background: the result stays in its row.
FinishQuietly(t) ==
    /\ agent[t] = "answering"
    /\ caller[t] = "quiet"
    /\ agent' = [agent EXCEPT ![t] = "answered"]
    /\ UNCHANGED <<record, unwritten, caller, retry, tries, reply, mail, memory, cancel>>

\* wait_for cancels the run; CancelledError passes SubAgent.run by.  A retry
\* is a task of its own and goes on.
TimeOut(t) ==
    /\ caller[t] = "waiting"
    /\ caller' = [caller EXCEPT ![t] = "timeout"]
    /\ agent' = [agent EXCEPT ![t] = "gone"]
    /\ UNCHANGED <<record, unwritten, retry, tries, reply, mail, memory, cancel>>

-----------------------------------------------------------------------------
(* Retries: _retry, once the session of the first run is closed *)

RetryStarts(t) ==
    /\ retry[t] = "waiting"
    /\ agent[t] \in {"answered", "gone"}
    /\ retry' = [retry EXCEPT ![t] = "working"]
    /\ UNCHANGED <<record, unwritten, caller, agent, tries, reply, mail, memory, cancel>>

RetryEnds(t) ==
    /\ retry[t] = "working"
    /\ \E r \in {"succeeded", "failed"} : retry' = [retry EXCEPT ![t] = r]
    /\ UNCHANGED <<record, unwritten, caller, agent, tries, reply, mail, memory, cancel>>

\* Mutant: the retries are not counted.
RetryAgainUncounted(t) ==
    /\ retry[t] = "working"
    /\ tries[t] < MaxRetries
    /\ retry' = [retry EXCEPT ![t] = "waiting"]
    /\ UNCHANGED <<record, unwritten, caller, agent, tries, reply, mail, memory, cancel>>

RetryAgain(t) ==
    /\ retry[t] = "working"
    /\ tries[t] < MaxRetries
    /\ tries' = [tries EXCEPT ![t] = @ + 1]
    /\ retry' = [retry EXCEPT ![t] = "waiting"]
    /\ UNCHANGED <<record, unwritten, caller, agent, reply, mail, memory, cancel>>

-----------------------------------------------------------------------------
(* Delivery: SchedulerBroker._deliver_sub_result *)

\* Only an answer that carries a result is stored.
Deliver(t) ==
    /\ mail[t] # "none"
    /\ mail' = [mail EXCEPT ![t] = "none"]
    /\ \/ memory' = [memory EXCEPT ![t] = @ + (IF mail[t] = "result" THEN 1 ELSE 0)]
       \/ "deliver" \in Faults /\ UNCHANGED memory
    /\ UNCHANGED <<record, unwritten, caller, run, cancel>>

-----------------------------------------------------------------------------
(* Cancelling: POST /tasks/{id}/cancel *)

CheckCancel(t) ==
    /\ cancel[t] = "none"
    /\ record[t] \in {"pending", "running"}
    /\ cancel' = [cancel EXCEPT ![t] = "checked"]
    /\ UNCHANGED <<record, unwritten, caller, run, mail, memory>>

\* Mutant: the row is put back to PENDING, as the input endpoint does.
CancelAndReset(t) ==
    /\ cancel[t] = "checked"
    /\ cancel' = [cancel EXCEPT ![t] = "none"]
    /\ record' = [record EXCEPT ![t] = "pending"]
    /\ UNCHANGED <<unwritten, caller, run, mail, memory>>

Cancel(t) ==
    /\ cancel[t] = "checked"
    /\ cancel' = [cancel EXCEPT ![t] = "none"]
    /\ record' = [record EXCEPT ![t] = "cancelled"]
    /\ UNCHANGED <<unwritten, caller, run, mail, memory>>

-----------------------------------------------------------------------------
(* Faults *)

\* The process of the agent ends, and takes the retries with it.
WorkerLost(t) ==
    /\ "worker" \in Faults
    /\ caller[t] \in {"async", "here", "quiet"}
    /\ agent[t] \in {"queued", "working", "answering", "answered"}
    /\ agent' = [agent EXCEPT ![t] = "gone"]
    /\ retry' = [retry EXCEPT ![t] = "none"]
    /\ UNCHANGED <<record, unwritten, caller, tries, reply, mail, memory, cancel>>

\* The server stops with all its processes; when it starts, every row that has
\* not ended becomes FAILED.
Restart ==
    /\ "worker" \in Faults
    /\ agent' = [t \in Task |-> IF agent[t] = "none" THEN "none" ELSE "gone"]
    /\ caller' = [t \in Task |-> IF caller[t] = "waiting" THEN "timeout" ELSE caller[t]]
    /\ retry' = [t \in Task |-> "none"]
    /\ mail' = [t \in Task |-> "none"]
    /\ cancel' = [t \in Task |-> "none"]
    /\ record' = [t \in Task |-> IF record[t] \in {"pending", "running"}
                                 THEN "failed" ELSE record[t]]
    /\ UNCHANGED <<unwritten, tries, reply, memory>>

-----------------------------------------------------------------------------

RunStep(t) ==
    \/ Start(t) \/ LoadFails(t)
    \/ Succeed(t) \/ SucceedEmpty(t) \/ FailForGood(t) \/ FailForNow(t)
    \/ Answer(t) \/ Tell(t) \/ StoreHere(t) \/ FinishQuietly(t)

RetryStep(t) == RetryStarts(t) \/ RetryEnds(t) \/ RetryAgain(t)

Next ==
    \/ Restart
    \/ \E t \in Task :
        \/ \E c \in Dispatched : Dispatch(t, c)
        \/ RunStep(t) \/ RetryStep(t) \/ Deliver(t)
        \/ TimeOut(t) \/ CheckCancel(t) \/ Cancel(t) \/ WorkerLost(t)

Spec == Init /\ [][Next]_vars

\* A run and a retry come to an end, for the model's calls have a timeout and
\* the rounds are bounded; the broker handles every answer.
Fairness ==
    \A t \in Task : WF_vars(RunStep(t)) /\ WF_vars(RetryStep(t)) /\ WF_vars(Deliver(t))

FairSpec == Spec /\ Fairness

-----------------------------------------------------------------------------
(* Properties *)

\* The parent session gets the result of a task once at most, whatever the
\* order of answers, retries, cancellation and the end of the worker.
DeliveredOnce == \A t \in Task : memory[t] <= 1

\* A result the parent was given belongs to a row that says DONE, or that was
\* cancelled: no run, retry or late write leaves it RUNNING or PENDING, unless
\* the database lost a write.
DeliveredIsDone ==
    \A t \in Task :
        memory[t] > 0 => record[t] \in {"done", "cancelled"} \/ t \in unwritten

\* A row that says DONE or FAILED is never reopened; only a cancellation that
\* was checked before overwrites it, and a result its own process could not
\* hand on makes DONE a FAILED.
EndedStaysEnded ==
    [][\A t \in Task :
        record[t] \in {"done", "failed"} =>
            \/ record'[t] \in {record[t], "cancelled"}
            \/ record'[t] = "failed" /\ caller[t] = "here" /\ memory[t] = 0]_vars

\* A dispatched task is answered or told, unless its worker is lost, and its
\* retries end: nothing of it runs for ever.
WorkEnds ==
    \A t \in Task :
        agent[t] = "queued" ~>
            agent[t] \in {"answered", "gone"} /\ retry[t] \notin {"waiting", "working"}

-----------------------------------------------------------------------------
(* The inductive invariant behind DeliveredOnce and DeliveredIsDone *)

\* Before the answer there is nothing to deliver; after it, one thing at most.
AnswerInv ==
    \A t \in Task :
        /\ agent[t] \in {"none", "queued", "working", "answering"} =>
              mail[t] = "none" /\ memory[t] = 0
        /\ mail[t] # "none" => memory[t] = 0
        /\ memory[t] <= 1

\* A run, a retry or a cancellation exists for tasks that were dispatched.
DispatchInv ==
    \A t \in Task :
        record[t] = "none" =>
            /\ caller[t] = "none" /\ agent[t] = "none"
            /\ retry[t] = "none" /\ cancel[t] = "none"

\* A result in any stage of its delivery has its row written, or lost.
ResultInv ==
    \A t \in Task :
        \/ agent[t] = "answering" /\ reply[t] = "result"
        \/ mail[t] = "result"
        \/ memory[t] > 0
        => record[t] \in {"done", "cancelled"} \/ t \in unwritten

IInv == TypeOK /\ AnswerInv /\ DispatchInv /\ ResultInv
=============================================================================
