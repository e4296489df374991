------------------------------- MODULE PlanMode -------------------------------
(***************************************************************************)
(* The plan mode of one session: the mode kept in the sessions table, the  *)
(* plan files of plans/store.py, and the handlers of                       *)
(* agents/personal_assistant.py that change them.                          *)
(*                                                                         *)
(* The personal assistant of a session handles one request at a time, so   *)
(* `pa' says which handler runs and what it has still to do: a step here   *)
(* is what the handler does up to and including its next durable write, or *)
(* up to the model's answer.  A crash of the process loses `pa' and keeps  *)
(* what was written.  The steps of a plan run elsewhere, as sub agent      *)
(* tasks; `flight' counts those whose PLAN_STEP_DONE is still to come.     *)
(***************************************************************************)
EXTENDS Naturals

CONSTANTS
    Plan,       \* plan ids; each one is used for at most one plan
    None,       \* no plan
    MaxSteps,   \* bound: the steps of a plan
    MaxFlight,  \* bound: the unfinished tasks of one step
    Faults      \* what may go wrong, a subset of FaultKind

FaultKind == {
    "crash",     \* the assistant's process is killed or dies
    "llm",       \* the model call raises
    "dispatch",  \* the task row or the dispatch of a step fails
    "task",      \* a step's task fails, or its PLAN_STEP_DONE is lost
    "write",     \* _set_agent_mode swallows a database error
    "read"}      \* _load_agent_mode takes a database error for mode NORMAL

ASSUME PlanAssumption == None \notin Plan
ASSUME PlanBoundAssumption == MaxSteps \in Nat \ {0} /\ MaxFlight \in Nat \ {0}
ASSUME FaultAssumption == Faults \subseteq FaultKind

VARIABLES
    mode,    \* sessions.agent_mode
    status,  \* the status in each plan's file, "none" before there is a file
    steps,   \* the statuses of the steps in each plan's file
    flight,  \* how many tasks of each step have not been reported yet
    pa,      \* the handler of the assistant: what it does next, and for what
    \* History variables, which no action reads:
    approved,  \* the plans the user has approved as they are now
    slips      \* what has gone wrong so far, a subset of SlipKind

vars == <<mode, status, steps, flight, pa, approved, slips>>
files == <<status, steps>>

Mode == {"normal", "planning", "confirming", "executing"}
PlanStatus == {"none", "confirming", "executing", "completed", "cancelled"}
StepStatus == {"pending", "running", "completed"}
Step == 1 .. MaxSteps
Handler == {"idle", "planning", "planned", "approved", "dispatching", "marked",
            "revising", "revised", "cancelled", "stepped", "completed"}

SlipKind == {
    "report",  \* the report of a step was applied to a cancelled plan
    "write",   \* a write of the mode was lost
    "read"}    \* a plan was begun because the mode could not be read

\* The steps of a plan, in order.
StepLists == UNION {[1 .. n -> StepStatus] : n \in 0 .. MaxSteps}

Continuation == [at : Handler, plan : Plan \cup {None}, step : 1 .. MaxSteps + 1]

Idle == [at |-> "idle", plan |-> None, step |-> 1]
At(h, p, s) == [at |-> h, plan |-> p, step |-> s]

TypeOK ==
    /\ mode \in Mode
    /\ status \in [Plan -> PlanStatus]
    /\ steps \in [Plan -> StepLists]
    /\ flight \in [Plan -> [Step -> 0 .. MaxFlight]]
    /\ pa \in Continuation
    /\ approved \subseteq Plan
    /\ slips \subseteq SlipKind

Init ==
    /\ mode = "normal"
    /\ status = [p \in Plan |-> "none"]
    /\ steps = [p \in Plan |-> <<>>]
    /\ flight = [p \in Plan |-> [s \in Step |-> 0]]
    /\ pa = Idle
    /\ approved = {}
    /\ slips = {}

-----------------------------------------------------------------------------
(* Plans and their steps *)

HasSteps(p) == DOMAIN steps[p] # {}

\* Plan.all_done
AllDone(p) == \A s \in DOMAIN steps[p] : steps[p][s] = "completed"

PendingSteps(p) == {s \in DOMAIN steps[p] : steps[p][s] = "pending"}

\* Mutant: the last pending step comes next.
LastPending(p) == CHOOSE s \in PendingSteps(p) : \A r \in PendingSteps(p) : r <= s

\* Plan.next_pending_step
NextPending(p) == CHOOSE s \in PendingSteps(p) : \A r \in PendingSteps(p) : s <= r

\* The plans PlanStore.get_active may return: the first in directory order.
Active == {p \in Plan : status[p] \in {"confirming", "executing"}}

InFlight(p) == \E s \in Step : flight[p][s] > 0

\* A plan as _parse_plan_from_text makes it, with any number of steps.
WritePlan(p, n) ==
    /\ status' = [status EXCEPT ![p] = "confirming"]
    /\ steps' = [steps EXCEPT ![p] = [s \in 1 .. n |-> "pending"]]

\* _set_agent_mode: a failed write goes unnoticed.
SetMode(m) ==
    \/ mode' = m /\ UNCHANGED slips
    \/ /\ "write" \in Faults
       /\ mode # m
       /\ slips' = slips \cup {"write"}
       /\ UNCHANGED mode

\* The handler that is at h ends.
Ends(h) ==
    /\ pa.at = h
    /\ pa' = Idle

-----------------------------------------------------------------------------
(* Generating a plan: _handle_plan_trigger *)

\* Mutant: every mode generates a plan.
TriggerAlways(p) ==
    /\ pa = Idle
    /\ status[p] = "none"
    /\ SetMode("planning")
    /\ pa' = At("planning", p, 1)
    /\ UNCHANGED <<files, flight, approved>>

Trigger(p) ==
    /\ pa = Idle
    /\ mode = "normal"
    /\ status[p] = "none"
    /\ SetMode("planning")
    /\ pa' = At("planning", p, 1)
    /\ UNCHANGED <<files, flight, approved>>

\* The same when the mode is there but cannot be read.
MisreadTrigger(p) ==
    /\ "read" \in Faults
    /\ mode # "normal"
    /\ pa = Idle
    /\ status[p] = "none"
    /\ mode' = "planning" \/ ("write" \in Faults /\ mode' = mode)
    /\ slips' = slips \cup {"read"}
    /\ pa' = At("planning", p, 1)
    /\ UNCHANGED <<files, flight, approved>>

Generated(n) ==
    /\ pa.at = "planning"
    /\ WritePlan(pa.plan, n)
    /\ pa' = [pa EXCEPT !.at = "planned"]
    /\ UNCHANGED <<mode, flight, approved, slips>>

GenerationUnparsable ==
    /\ Ends("planning")
    /\ SetMode("normal")
    /\ UNCHANGED <<files, flight, approved>>

\* The exception of the model call ends the handler: nobody resets the mode.
ModelFails ==
    /\ "llm" \in Faults
    /\ Ends("planning") \/ Ends("revising")
    /\ UNCHANGED <<mode, files, flight, approved, slips>>

Planned ==
    /\ Ends("planned")
    /\ SetMode("confirming")
    /\ UNCHANGED <<files, flight, approved>>

-----------------------------------------------------------------------------
(* Confirming: _handle_confirming, _start_plan_execution, _revise_plan *)

ConfirmNothing ==
    /\ pa = Idle
    /\ mode = "confirming"
    /\ Active = {}
    /\ SetMode("normal")
    /\ UNCHANGED <<files, flight, pa, approved>>

Approve(p) ==
    /\ pa = Idle
    /\ mode = "confirming"
    /\ p \in Active
    /\ status' = [status EXCEPT ![p] = "executing"]
    /\ pa' = At("approved", p, 1)
    /\ approved' = approved \cup {p}
    /\ UNCHANGED <<mode, steps, flight, slips>>

Approved ==
    /\ pa.at = "approved"
    /\ SetMode("executing")
    /\ pa' = IF HasSteps(pa.plan) THEN At("dispatching", pa.plan, 1) ELSE Idle
    /\ UNCHANGED <<files, flight, approved>>

\* Mutant: a plan may be modified while it executes.
ModifyAnytime(p) ==
    /\ pa = Idle
    /\ mode \in {"confirming", "executing"}
    /\ p \in Active
    /\ SetMode("planning")
    /\ pa' = At("revising", p, 1)
    /\ UNCHANGED <<files, flight, approved>>

Modify(p) ==
    /\ pa = Idle
    /\ mode = "confirming"
    /\ p \in Active
    /\ SetMode("planning")
    /\ pa' = At("revising", p, 1)
    /\ UNCHANGED <<files, flight, approved>>

\* The revised plan keeps the id of the plan and overwrites its file.
Revised(n) ==
    /\ pa.at = "revising"
    /\ WritePlan(pa.plan, n)
    /\ pa' = [pa EXCEPT !.at = "revised"]
    /\ approved' = approved \ {pa.plan}
    /\ UNCHANGED <<mode, flight, slips>>

RevisionUnparsable ==
    /\ Ends("revising")
    /\ SetMode("confirming")
    /\ UNCHANGED <<files, flight, approved>>

RevisionShown ==
    /\ Ends("revised")
    /\ SetMode("confirming")
    /\ UNCHANGED <<files, flight, approved>>

-----------------------------------------------------------------------------
(* Cancelling: _handle_exit_plan, _handle_confirming, and plan_cli *)

\* Mutant: the mode is reset and the plan is not saved as CANCELLED.
WriteCancelledLast(p) ==
    /\ SetMode("normal")
    /\ pa' = [pa EXCEPT !.at = "cancelled"]
    /\ UNCHANGED <<files, flight, approved>>

\* Nobody looks whether a step of the plan runs.
WriteCancelled(p) ==
    /\ status' = [status EXCEPT ![p] = "cancelled"]
    /\ pa' = [pa EXCEPT !.at = "cancelled"]
    /\ UNCHANGED <<mode, steps, flight, approved, slips>>

Exit ==
    /\ pa = Idle
    /\ mode # "normal"
    /\ \/ \E p \in Active : WriteCancelled(p)
       \/ /\ Active = {}
          /\ SetMode("normal")
          /\ UNCHANGED <<files, flight, pa, approved>>

\* "Cancel", said to a plan that waits for its confirmation.
Reject(p) ==
    /\ pa = Idle
    /\ mode = "confirming"
    /\ p \in Active
    /\ WriteCancelled(p)

\* The model may cancel any plan that has not ended, in any mode: when it
\* chats, or among the tools it uses to make another plan.
CliCancel(p) ==
    /\ pa.at \in {"idle", "planning"}
    /\ p \in Active
    /\ WriteCancelled(p)

Cancelled ==
    /\ pa.at = "cancelled"
    /\ SetMode("normal")
    /\ pa' = IF pa.plan = None THEN Idle ELSE [pa EXCEPT !.at = "planning"]
    /\ UNCHANGED <<files, flight, approved>>

-----------------------------------------------------------------------------
(* Executing: _dispatch_plan_step, handle_plan_step_done *)

DispatchFails ==
    /\ "dispatch" \in Faults
    /\ Ends("dispatching") \/ Ends("marked")
    /\ UNCHANGED <<mode, files, flight, approved, slips>>

\* mark_step_running, saved before the dispatch
MarkStepRunning ==
    /\ pa.at = "dispatching"
    /\ steps' = [steps EXCEPT ![pa.plan][pa.step] = "running"]
    /\ pa' = [pa EXCEPT !.at = "marked"]
    /\ UNCHANGED <<mode, status, flight, approved, slips>>

\* Mutant: the handler dispatches the next step without waiting for this one.
DispatchAll ==
    /\ pa.at = "marked"
    /\ flight[pa.plan][pa.step] < MaxFlight
    /\ flight' = [flight EXCEPT ![pa.plan][pa.step] = @ + 1]
    /\ pa' = IF pa.step + 1 \in DOMAIN steps[pa.plan]
             THEN At("dispatching", pa.plan, pa.step + 1) ELSE Idle
    /\ UNCHANGED <<mode, files, approved, slips>>

Dispatch ==
    /\ Ends("marked")
    /\ flight[pa.plan][pa.step] < MaxFlight
    /\ flight' = [flight EXCEPT ![pa.plan][pa.step] = @ + 1]
    /\ UNCHANGED <<mode, files, approved, slips>>

\* The broker reports a task that ended with a result; the plan it belongs to
\* is loaded and driven on whatever its status, a cancelled one too, and an index
\* out of range is ignored.  (The branch for a step that failed has no caller:
\* TaskFails.)
StepDone(p, s) ==
    /\ pa = Idle
    /\ flight[p][s] > 0
    /\ flight' = [flight EXCEPT ![p][s] = @ - 1]
    /\ steps' = IF s \in DOMAIN steps[p] THEN [steps EXCEPT ![p][s] = "completed"]
                                         ELSE steps
    /\ pa' = At("stepped", p, s)
    /\ slips' = IF status[p] = "cancelled" THEN slips \cup {"report"} ELSE slips
    /\ UNCHANGED <<mode, status, approved>>

\* Mutant: the plan completes when its last step is still to come.
CompleteTooSoon ==
    /\ pa.at = "stepped"
    /\ \A s \in PendingSteps(pa.plan) : s + 1 \notin DOMAIN steps[pa.plan]
    /\ status' = [status EXCEPT ![pa.plan] = "completed"]
    /\ pa' = [pa EXCEPT !.at = "completed"]
    /\ UNCHANGED <<mode, steps, flight, approved, slips>>

Complete ==
    /\ pa.at = "stepped"
    /\ AllDone(pa.plan)
    /\ status' = [status EXCEPT ![pa.plan] = "completed"]
    /\ pa' = [pa EXCEPT !.at = "completed"]
    /\ UNCHANGED <<mode, steps, flight, approved, slips>>

Completed ==
    /\ Ends("completed")
    /\ SetMode("normal")
    /\ UNCHANGED <<files, flight, approved>>

\* Mutant: the handler leaves the next step to the user.
ProceedByHand ==
    /\ pa.at = "stepped"
    /\ ~AllDone(pa.plan)
    /\ pa' = Idle
    /\ UNCHANGED <<mode, files, flight, approved, slips>>

\* auto_proceed is always set.
Proceed ==
    /\ pa.at = "stepped"
    /\ ~AllDone(pa.plan)
    /\ pa' = IF PendingSteps(pa.plan) = {} THEN Idle
             ELSE At("dispatching", pa.plan, NextPending(pa.plan))
    /\ UNCHANGED <<mode, files, flight, approved, slips>>

-----------------------------------------------------------------------------
(* Faults *)

\* A task ends without a result, or PLAN_STEP_DONE finds no assistant.  The
\* broker returns early, before it looks for the plan of the task.
TaskFails(p, s) ==
    /\ "task" \in Faults
    /\ flight[p][s] > 0
    /\ flight' = [flight EXCEPT ![p][s] = @ - 1]
    /\ UNCHANGED <<mode, files, pa, approved, slips>>

\* The process ends, or any other error ends the handler.
Crash ==
    /\ "crash" \in Faults
    /\ pa # Idle
    /\ pa' = Idle
    /\ UNCHANGED <<mode, files, flight, approved, slips>>

-----------------------------------------------------------------------------

UserStep ==
    \/ ConfirmNothing \/ Exit
    \/ \E p \in Plan :
        \/ Trigger(p) \/ MisreadTrigger(p) \/ Approve(p) \/ Modify(p)
        \/ Reject(p) \/ CliCancel(p)

HandlerStep ==
    \/ \E n \in 0 .. MaxSteps : Generated(n) \/ Revised(n)
    \/ GenerationUnparsable \/ ModelFails \/ Planned
    \/ Approved \/ RevisionUnparsable \/ RevisionShown
    \/ Cancelled
    \/ MarkStepRunning \/ Dispatch \/ DispatchFails
    \/ Complete \/ Completed \/ Proceed

TaskStep == \E p \in Plan, s \in Step : StepDone(p, s) \/ TaskFails(p, s)

Next == UserStep \/ HandlerStep \/ TaskStep \/ Crash

Spec == Init /\ [][Next]_vars

\* A handler that runs goes on.  A task that was dispatched ends, and its
\* report is handled in its turn, for the assistant's queue is first in first
\* out.  The user promises nothing.
Fairness ==
    /\ WF_vars(HandlerStep)
    /\ \A p \in Plan, s \in Step : SF_vars(StepDone(p, s) \/ TaskFails(p, s))

FairSpec == Spec /\ Fairness

-----------------------------------------------------------------------------
(* Properties *)

\* Cancellations at any time, crashes, failed dispatches and failed tasks do not
\* disturb a session.  Three things do, and each of them alone can give it two
\* active plans: a late report that drives a cancelled plan on, a lost write of
\* the mode, and a mode that cannot be read.
Undisturbed == slips = {}

\* An undisturbed session has at most one plan that is waiting or executing,
\* whatever crashes leave behind: PlanStore.get_active returns an arbitrary one.
OneActivePlan == Undisturbed => \A p, q \in Active : p = q

\* In an undisturbed session a plan has one step in execution: StepDone
\* dispatches the next step only after the last one, and no crash makes the first
\* step start twice.
OneStepAtATime ==
    Undisturbed =>
        \A p \in Plan, r, s \in Step :
            flight[p][r] > 0 /\ flight[p][s] > 0 => r = s /\ flight[p][s] = 1

\* In an undisturbed session a step, of a plan that was cancelled meanwhile too,
\* runs when all the steps before it have completed.
StepsInOrder ==
    Undisturbed =>
        \A p \in Plan, s \in Step :
            flight[p][s] > 0 =>
                /\ s \in DOMAIN steps[p]
                /\ \A r \in 1 .. s - 1 : steps[p][r] = "completed"

\* In an undisturbed session no crash between the write of the plan and the write
\* of the mode hides an active plan behind mode NORMAL, where it can be neither
\* approved nor left (reply_stream tests the mode before it looks for a plan).
ActiveIsVisible ==
    Undisturbed => (pa = Idle /\ Active # {} => mode # "normal")

\* In an undisturbed session the steps that run are steps of a plan the user has
\* approved as it is: no revision overwrites a plan that has begun
\* (_handle_confirming revises whatever plan is active).
StepsAreApproved ==
    Undisturbed => \A p \in Plan : InFlight(p) => p \in approved

\* A plan is COMPLETED only when all its steps are, and for good: neither a
\* late report nor an approval nor a revision changes it.
CompletedIsFinal ==
    [][\A p \in Plan :
        status[p] = "completed" =>
            AllDone(p) /\ status'[p] = "completed" /\ steps'[p] = steps[p]]_vars

\* When nothing fails, an approved plan that has steps does not stay EXECUTING
\* for ever, whatever the user does meanwhile.
PlanEnds ==
    \A p \in Plan :
        status[p] = "executing" /\ HasSteps(p) ~> status[p] # "executing"

-----------------------------------------------------------------------------
(* The inductive invariant behind the safety properties *)

\* What the handler that runs knows of its plan.
HandlerInv ==
    LET p == pa.plan IN
    /\ pa.at \notin {"idle", "cancelled"} => p \in Plan
    /\ pa.at = "idle" => pa = Idle
    /\ pa.at = "cancelled" => p = None
    /\ pa.at = "planning" => mode = "planning" /\ Active = {} /\ status[p] = "none"
    /\ pa.at \in {"planned", "revised"} =>
        mode = "planning" /\ status[p] = "confirming"
    /\ pa.at = "revising" => mode = "planning" /\ p \in Active
    /\ pa.at = "approved" => mode = "confirming" /\ status[p] = "executing"
    /\ pa.at \in {"dispatching", "marked"} =>
        /\ mode = "executing"
        /\ status[p] = "executing"
        /\ ~InFlight(p)
        /\ pa.step \in DOMAIN steps[p]
        /\ \A r \in DOMAIN steps[p] :
            /\ r < pa.step => steps[p][r] = "completed"
            /\ r > pa.step => steps[p][r] = "pending"
    /\ pa.at = "stepped" =>
        /\ mode = "executing"
        /\ status[p] = "executing"
        /\ ~InFlight(p)
        /\ \A r \in DOMAIN steps[p] :
            steps[p][r] = IF r <= pa.step THEN "completed" ELSE "pending"
    /\ pa.at \in {"cancelled", "completed"} => Active = {}

\* A step in flight belongs to the plan that executes, or to one that was
\* cancelled when it ran, and is the next one.
FlightInv ==
    \A p \in Plan, s \in Step :
        flight[p][s] > 0 =>
            /\ \/ status[p] = "cancelled"
               \/ mode = "executing" /\ status[p] = "executing"
            /\ s \in DOMAIN steps[p]
            /\ flight[p][s] = 1
            /\ \A r \in Step : flight[p][r] > 0 => r = s
            /\ \A r \in DOMAIN steps[p] :
                /\ r < s => steps[p][r] = "completed"
                /\ r > s => steps[p][r] = "pending"

\* A plan that no step of which was dispatched can be approved again.
FreshInv ==
    \A p \in Active :
        mode # "executing" => \A s \in DOMAIN steps[p] : steps[p][s] = "pending"

CompletedInv ==
    \A p \in Plan : status[p] = "completed" => AllDone(p)

\* A plan that executes, or whose step runs, was approved as it is.
ApprovedInv ==
    \A p \in Plan : status[p] = "executing" \/ InFlight(p) => p \in approved

SafeInv ==
    /\ TypeOK
    /\ OneActivePlan
    /\ mode = "normal" => Active = {}
    /\ HandlerInv
    /\ FlightInv
    /\ FreshInv
    /\ CompletedInv
    /\ ApprovedInv

IInv == Undisturbed => SafeInv

-----------------------------------------------------------------------------
(* The inductive invariant behind CompletedIsFinal, whatever goes wrong *)

FinalInv ==
    /\ status \in [Plan -> PlanStatus]
    /\ steps \in [Plan -> StepLists]
    /\ pa = At(pa.at, pa.plan, pa.step)
    /\ pa.at \notin {"idle", "cancelled"} => pa.plan \in Plan
    /\ pa.at = "idle" => pa = Idle
    /\ pa.at = "cancelled" /\ pa.plan # None => pa.plan \in Plan
    /\ pa.at \in {"planning", "cancelled"} /\ pa.plan # None =>
        status[pa.plan] = "none"
    /\ pa.at \in {"planned", "revising", "revised", "approved"} => pa.plan \in Active
    /\ pa.at \in {"dispatching", "marked"} => status[pa.plan] # "completed"
    /\ CompletedInv

=============================================================================
