----------------------------- MODULE SubAgentRun ------------------------------
(***************************************************************************)
(* The inside of a run of SubAgentTask: SubAgent.reply (agents/            *)
(* sub_agent.py), which asks the model round by round, through the retries *)
(* of RetryChatModel (providers/retry_model.py), runs the tools it asks    *)
(* for and has it sum up when the rounds are used up.                      *)
(*                                                                         *)
(* Every action is an action of SubAgentTask together with what happens to *)
(* the work, or a step of the work that SubAgentTask does not see.  That   *)
(* the fairness SubAgentTask assumes of a run follows from the bounds of   *)
(* its rounds and attempts is the property ImplementsTask.                 *)
(***************************************************************************)
EXTENDS SubAgentTask

CONSTANTS
    MaxRounds,    \* max_tool_rounds of the agent's definition
    MaxAttempts   \* LLM_MAX_RETRIES + 1

ASSUME RoundsAssumption == MaxRounds \in Nat \ {0} /\ MaxAttempts \in Nat \ {0}

VARIABLE work  \* [Task -> the run or retry that works on it]

NoWork == [at |-> "off", round |-> 0, attempt |-> 0]
Works == [at : {"off", "asking", "tools", "summing", "text", "notext",
                "transient", "permanent"},
          round : 0 .. MaxRounds, attempt : 0 .. MaxAttempts]

\* reply begins: the first question.
FirstWork == [at |-> "asking", round |-> 1, attempt |-> 1]

RunVars == <<vars, work>>

RunInit == Init /\ work = [t \in Task |-> NoWork]

Goes(t, w) == work' = [work EXCEPT ![t] = w]
Ends(t, how) == Goes(t, [work[t] EXCEPT !.at = how])

-----------------------------------------------------------------------------
(* The rounds                                                              *)

\* The next round, if there is one.  The loop ends without a word of its own
\* when the last answer only imagined a tool: that answer has text.
NextRound(t, last) ==
    IF work[t].round = MaxRounds
    THEN Ends(t, last)
    ELSE Goes(t, [at |-> "asking", round |-> work[t].round + 1, attempt |-> 1])

\* The model answers with tool calls, with text, with text and a tool call it
\* only imagined, or with nothing, which _validate_llm_response raises as a
\* transient error.
ModelAnswers(t) ==
    /\ work[t].at = "asking"
    /\ \/ Ends(t, "tools")
       \/ Ends(t, "text")
       \/ NextRound(t, "text")
       \/ Ends(t, "transient")
    /\ UNCHANGED vars

\* RetryChatModel retries the errors it knows to be transient, until the
\* attempts are used up; what it raises _is_retryable_error sorts, which takes
\* an error it does not know for transient.
ModelFails(t) ==
    /\ work[t].at = "asking"
    /\ \/ \E how \in {"permanent", "transient"} : Ends(t, how)
       \/ /\ work[t].attempt < MaxAttempts
          /\ Goes(t, [work[t] EXCEPT !.attempt = @ + 1])
    /\ UNCHANGED vars

\* The conversation cannot be written down: an error like any other.
MemoryFails(t) ==
    /\ "commit" \in Faults
    /\ work[t].at \in {"asking", "text", "notext"}
    /\ Ends(t, "transient")
    /\ UNCHANGED vars

\* Mutant: the last round asks again instead of summing up.
RunToolsOnAndOn(t) ==
    /\ work[t].at = "tools"
    /\ Goes(t, [work[t] EXCEPT !.at = "asking", !.attempt = 1])
    /\ UNCHANGED vars

\* The tools are called, each error becomes the text of its answer; after the
\* last round the model has to sum up.
RunTools(t) ==
    /\ work[t].at = "tools"
    /\ NextRound(t, "summing")
    /\ UNCHANGED vars

\* The forced summary, without tools.  Its errors are swallowed, and what the
\* last answer says counts, which may be nothing.
SumUp(t) ==
    /\ work[t].at = "summing"
    /\ \E how \in {"text", "notext"} : Ends(t, how)
    /\ UNCHANGED vars

-----------------------------------------------------------------------------
(* The run around it                                                       *)

Off(t) == Goes(t, NoWork)

\* SubAgent.run enters reply.
BeginRun(t) == Start(t) /\ Goes(t, FirstWork)
BeginRetry(t) == RetryStarts(t) /\ Goes(t, FirstWork)

\* How the first run ends is how reply ended.
EndRun(t) ==
    /\ \/ work[t].at = "text" /\ Succeed(t)
       \/ work[t].at = "notext" /\ SucceedEmpty(t)
       \/ work[t].at = "permanent" /\ FailForGood(t)
       \/ work[t].at = "transient" /\ tries[t] = MaxRetries /\ FailForGood(t)
       \/ work[t].at = "transient" /\ FailForNow(t)
    /\ Off(t)

\* The same for a retry.
EndRetry(t) ==
    /\ \/ work[t].at \in {"text", "notext"} /\ RetryEnds(t)
          /\ retry'[t] = "succeeded"
       \/ work[t].at = "permanent" /\ RetryEnds(t) /\ retry'[t] = "failed"
       \/ work[t].at = "transient" /\ tries[t] = MaxRetries
          /\ RetryEnds(t) /\ retry'[t] = "failed"
       \/ work[t].at = "transient" /\ RetryAgain(t)
    /\ Off(t)

\* Mutant: the run goes on after the caller has given up.
CutOffInVain(t) == TimeOut(t) /\ UNCHANGED work

\* The caller's time-out cancels the run, not a retry of it.
CutOff(t) ==
    /\ TimeOut(t)
    /\ IF agent[t] = "working" THEN Off(t) ELSE UNCHANGED work

Lose(t) == WorkerLost(t) /\ Off(t)

LoseAll == Restart /\ work' = [t \in Task |-> NoWork]

WorkStep(t) ==
    \/ ModelAnswers(t) \/ ModelFails(t) \/ MemoryFails(t)
    \/ RunTools(t) \/ SumUp(t)

RunStepOf(t) ==
    \/ BeginRun(t) \/ EndRun(t)
    \/ /\ LoadFails(t) \/ Answer(t) \/ Tell(t) \/ StoreHere(t) \/ FinishQuietly(t)
       /\ UNCHANGED work

RunNext ==
    \/ LoseAll
    \/ \E t \in Task :
        \/ WorkStep(t) \/ RunStepOf(t) \/ BeginRetry(t) \/ EndRetry(t)
        \/ CutOff(t) \/ Lose(t)
        \/ /\ \/ \E c \in Dispatched : Dispatch(t, c)
              \/ Deliver(t) \/ CheckCancel(t) \/ Cancel(t)
           /\ UNCHANGED work

\* A call of the model has a timeout and a tool returns; the process goes on
\* with what it has begun; the broker handles every answer.
RunFairness ==
    \A t \in Task :
        /\ WF_RunVars(WorkStep(t))
        /\ WF_RunVars(RunStepOf(t))
        /\ WF_RunVars(BeginRetry(t) \/ EndRetry(t))
        /\ WF_RunVars(Deliver(t) /\ UNCHANGED work)

RunSpec == RunInit /\ [][RunNext]_RunVars /\ RunFairness

-----------------------------------------------------------------------------
(* Properties *)

\* A run is a run of SubAgentTask, and comes to an end as that module assumes,
\* whatever the model answers: rounds, attempts and the forced summary are
\* bounded (SubAgent.reply, RetryChatModel).
ImplementsTask == FairSpec

\* Nothing works on a task that nobody runs: a run that was cut off, lost or
\* ended takes its questions and tools with it, and a run and a retry never
\* work side by side.
WorksForARun ==
    \A t \in Task :
        /\ work[t] \in Works
        /\ work[t].at # "off" <=> agent[t] = "working" \/ retry[t] = "working"
        /\ ~ (agent[t] = "working" /\ retry[t] = "working")

-----------------------------------------------------------------------------
(* The inductive invariant behind WorksForARun                             *)

\* Retries exist only once the first run has returned.
RetriesFollowTheRun ==
    \A t \in Task :
        retry[t] # "none" => agent[t] \in {"answering", "answered", "gone"}

RunInv == work \in [Task -> Works] /\ RetriesFollowTheRun /\ WorksForARun
=============================================================================
