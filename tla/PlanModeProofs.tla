---------------------------- MODULE PlanModeProofs ----------------------------
(***************************************************************************)
(* Proofs about PlanMode, for any set of plans and any number of steps: an *)
(* undisturbed session executes its plans one at a time, step by step, and *)
(* finds them again after a crash, whatever is cancelled and whenever.     *)
(* That a completed plan is final holds for every session.                 *)
(***************************************************************************)
EXTENDS PlanMode, TLAPS

-----------------------------------------------------------------------------
(* Types *)

\* The steps of a plan are numbered from 1.
LEMMA ListShape ==
    ASSUME NEW l \in StepLists
    PROVE  \E n \in 0 .. MaxSteps : l \in [1 .. n -> StepStatus]
  BY DEF StepLists

\* A new plan is a list of steps.
LEMMA NewList ==
    ASSUME NEW n \in 0 .. MaxSteps
    PROVE  [s \in 1 .. n |-> "pending"] \in StepLists
  <1>1. [s \in 1 .. n |-> "pending"] \in [1 .. n -> StepStatus]
    BY DEF StepStatus
  <1> QED
    BY <1>1 DEF StepLists

\* Changing the status of one step keeps the list.
LEMMA ListUpdate ==
    ASSUME NEW l \in StepLists, NEW s \in DOMAIN l, NEW v \in StepStatus
    PROVE  [l EXCEPT ![s] = v] \in StepLists
  <1>1. PICK n \in 0 .. MaxSteps : l \in [1 .. n -> StepStatus]
    BY ListShape
  <1>2. [l EXCEPT ![s] = v] \in [1 .. n -> StepStatus]
    BY <1>1
  <1> QED
    BY <1>2 DEF StepLists

\* Every step of a list has a number up to MaxSteps, and a status.
LEMMA ListDomain ==
    ASSUME TypeOK, NEW p \in Plan
    PROVE  /\ DOMAIN steps[p] \subseteq Step
           /\ \A s \in DOMAIN steps[p] : 
                 steps[p][s] \in StepStatus /\ 1 .. s \subseteq DOMAIN steps[p]
  <1>1. PICK n \in 0 .. MaxSteps : steps[p] \in [1 .. n -> StepStatus]
    BY ListShape DEF TypeOK
  <1>2. MaxSteps \in Nat
    BY PlanBoundAssumption
  <1> QED
    BY <1>1, <1>2 DEF Step

\* The handlers that run, and the one that does not, are continuations.
LEMMA HandlerType ==
    /\ Idle \in Continuation
    /\ \A h \in Handler, p \in Plan, s \in Step : At(h, p, s) \in Continuation
  BY PlanBoundAssumption DEF Idle, At, Continuation, Handler, Step

\* A task that is reported is in flight no more.
LEMMA FlightFalls ==
    ASSUME TypeOK, NEW p \in Plan, NEW s \in Step, flight[p][s] > 0
    PROVE  [flight EXCEPT ![p][s] = @ - 1] \in [Plan -> [Step -> 0 .. MaxFlight]]
  <1>1. flight[p] \in [Step -> 0 .. MaxFlight] /\ flight[p][s] - 1 \in 0 .. MaxFlight
    BY PlanBoundAssumption DEF TypeOK
  <1>2. [flight[p] EXCEPT ![s] = @ - 1] \in [Step -> 0 .. MaxFlight]
    BY <1>1
  <1> QED
    BY <1>2 DEF TypeOK

\* A task that is dispatched is one more in flight.
LEMMA FlightRises ==
    ASSUME TypeOK, NEW p \in Plan, NEW s \in Step, flight[p][s] < MaxFlight
    PROVE  [flight EXCEPT ![p][s] = @ + 1] \in [Plan -> [Step -> 0 .. MaxFlight]]
  <1>1. flight[p] \in [Step -> 0 .. MaxFlight] /\ flight[p][s] + 1 \in 0 .. MaxFlight
    BY PlanBoundAssumption DEF TypeOK
  <1>2. [flight[p] EXCEPT ![s] = @ + 1] \in [Step -> 0 .. MaxFlight]
    BY <1>1
  <1> QED
    BY <1>2 DEF TypeOK

-----------------------------------------------------------------------------
(* Helpers *)

\* A mode that is written is the mode.
LEMMA SetModeWrites ==
    ASSUME Undisturbed', NEW m, SetMode(m)
    PROVE  mode' = m
  BY DEF Undisturbed, SetMode

\* An undisturbed session has a type of its own.
LEMMA NoSlips ==
    ASSUME Undisturbed'
    PROVE  slips' \subseteq SlipKind
  BY DEF Undisturbed

\* After a step has completed, the next pending one is the next one.
LEMMA NextInOrder ==
    ASSUME SafeInv, pa.at = "stepped", PendingSteps(pa.plan) # {}
    PROVE  /\ NextPending(pa.plan) = pa.step + 1
           /\ pa.step + 1 \in DOMAIN steps[pa.plan]
  <1> DEFINE p == pa.plan
             P == PendingSteps(p)
  <1>1. p \in Plan /\ pa.step \in Nat
    BY DEF SafeInv, TypeOK, Continuation, HandlerInv
  <1>2. /\ DOMAIN steps[p] \subseteq Nat
        /\ \A s \in DOMAIN steps[p] : 1 .. s \subseteq DOMAIN steps[p]
    BY <1>1, ListDomain, PlanBoundAssumption DEF SafeInv, Step
  <1>3. \A r \in DOMAIN steps[p] : (r \in P) <=> (r > pa.step)
    BY <1>1, <1>2 DEF SafeInv, HandlerInv, PendingSteps
  <1>4. PICK r \in P : TRUE
    OBVIOUS
  <1>5. pa.step + 1 \in P
    BY <1>1, <1>2, <1>3, <1>4 DEF PendingSteps
  <1>6. \A s \in P : pa.step + 1 <= s
    BY <1>1, <1>2, <1>3 DEF PendingSteps
  <1>7. P \subseteq Nat
    BY <1>2 DEF PendingSteps
  <1>8. NextPending(p) \in P /\ \A s \in P : NextPending(p) <= s
    BY <1>5, <1>6 DEF NextPending
  <1> QED
    BY <1>1, <1>5, <1>6, <1>7, <1>8 DEF PendingSteps

-----------------------------------------------------------------------------
(* Every action keeps the invariant *)

\* A plan may be asked for only in normal mode, where none is active.
LEMMA TriggerKeeps ==
    ASSUME SafeInv, Undisturbed, Undisturbed', NEW p \in Plan, Trigger(p)
    PROVE  SafeInv'
  <1>1. TypeOK'
    BY NoSlips, SetModeWrites, HandlerType, PlanBoundAssumption
    DEF SafeInv, TypeOK, Trigger, files, Mode, PlanStatus, Handler, Step,
        Active
  <1>2. OneActivePlan'
    BY DEF SafeInv, Trigger, At, files, OneActivePlan, Active
  <1>3. (mode = "normal" => Active = {})'
    BY DEF SafeInv, Trigger, At, files, Active, HandlerInv
  <1>4. HandlerInv'
    BY SetModeWrites, PlanAssumption
    DEF SafeInv, Trigger, At, files, HandlerInv, Active, InFlight, Idle
  <1>5. FlightInv'
    BY DEF SafeInv, Trigger, At, files, FlightInv, HandlerInv, Active
  <1>6. FreshInv'
    BY DEF SafeInv, Trigger, At, files, FreshInv, HandlerInv, Active
  <1>7. CompletedInv'
    BY DEF SafeInv, Trigger, At, files, CompletedInv, AllDone
  <1>8. ApprovedInv'
    BY DEF SafeInv, Trigger, At, files, ApprovedInv, HandlerInv, Active,
        InFlight
  <1> QED
    BY <1>1, <1>2, <1>3, <1>4, <1>5, <1>6, <1>7, <1>8 DEF SafeInv

\* The plan that is written is new, and no other is active.
LEMMA GeneratedKeeps ==
    ASSUME SafeInv, Undisturbed, Undisturbed', NEW n \in 0 .. MaxSteps, Generated(n)
    PROVE  SafeInv'
  <1>1. TypeOK'
    BY NoSlips, NewList
    DEF SafeInv, TypeOK, Generated, WritePlan, PlanStatus, HandlerInv,
        Continuation, Handler
  <1>2. OneActivePlan'
    BY DEF SafeInv, TypeOK, Generated, WritePlan, OneActivePlan, Active, HandlerInv
  <1>3. (mode = "normal" => Active = {})'
    BY DEF SafeInv, Generated, WritePlan, files, Active, HandlerInv
  <1>4. HandlerInv'
    BY DEF SafeInv, TypeOK, Continuation, Generated, WritePlan, HandlerInv
  <1>5. FlightInv'
    BY DEF SafeInv, TypeOK, Generated, WritePlan, FlightInv, HandlerInv
  <1>6. FreshInv'
    <2>1. pa.plan \in Plan /\ Active' \subseteq {pa.plan}
      BY DEF SafeInv, TypeOK, OneActivePlan, Generated, WritePlan, HandlerInv,
          Active
    <2>2. steps'[pa.plan] = [s \in 1 .. n |-> "pending"]
      BY <2>1 DEF SafeInv, TypeOK, Generated, WritePlan
    <2> QED
      BY <2>1, <2>2 DEF FreshInv
  <1>7. CompletedInv'
    BY DEF SafeInv, TypeOK, Generated, WritePlan, CompletedInv, AllDone, HandlerInv
  <1>8. ApprovedInv'
    BY DEF SafeInv, TypeOK, Generated, WritePlan, HandlerInv, ApprovedInv, InFlight
  <1> QED
    BY <1>1, <1>2, <1>3, <1>4, <1>5, <1>6, <1>7, <1>8 DEF SafeInv

\* An answer that is no plan leads back to normal mode.
LEMMA GenerationUnparsableKeeps ==
    ASSUME SafeInv, Undisturbed, Undisturbed', GenerationUnparsable
    PROVE  SafeInv'
  <1>1. TypeOK'
    BY NoSlips, SetModeWrites, HandlerType
    DEF SafeInv, TypeOK, GenerationUnparsable, Ends, files, Mode
  <1>2. OneActivePlan'
    BY DEF SafeInv, GenerationUnparsable, Ends, files, OneActivePlan, Active
  <1>3. (mode = "normal" => Active = {})'
    BY DEF SafeInv, GenerationUnparsable, Ends, files, Active, HandlerInv
  <1>4. HandlerInv'
    BY PlanAssumption
    DEF SafeInv, GenerationUnparsable, Ends, files, HandlerInv, Active,
        InFlight, Idle
  <1>5. FlightInv'
    BY DEF SafeInv, GenerationUnparsable, Ends, files, FlightInv, HandlerInv,
        Active
  <1>6. FreshInv'
    BY DEF SafeInv, GenerationUnparsable, Ends, files, FreshInv, HandlerInv, Active
  <1>7. CompletedInv'
    BY DEF SafeInv, GenerationUnparsable, Ends, files, CompletedInv, AllDone
  <1>8. ApprovedInv'
    BY DEF SafeInv, GenerationUnparsable, Ends, files, ApprovedInv, HandlerInv,
        Active, InFlight
  <1> QED
    BY <1>1, <1>2, <1>3, <1>4, <1>5, <1>6, <1>7, <1>8 DEF SafeInv

\* A failed model call leaves everything but the handler as it is.
LEMMA ModelFailsKeeps ==
    ASSUME SafeInv, Undisturbed, Undisturbed', ModelFails
    PROVE  SafeInv'
  <1>1. TypeOK'
    BY NoSlips, HandlerType DEF SafeInv, TypeOK, ModelFails, Ends, files, Mode
  <1>2. OneActivePlan'
    BY DEF SafeInv, ModelFails, Ends, files, OneActivePlan, Active
  <1>3. (mode = "normal" => Active = {})'
    BY DEF SafeInv, ModelFails, Ends, files, Active, HandlerInv
  <1>4. HandlerInv'
    BY PlanAssumption
    DEF SafeInv, ModelFails, Ends, files, HandlerInv, Active, InFlight, Idle
  <1>5. FlightInv'
    BY DEF SafeInv, ModelFails, Ends, files, FlightInv, HandlerInv, Active
  <1>6. FreshInv'
    BY DEF SafeInv, ModelFails, Ends, files, FreshInv, HandlerInv, Active
  <1>7. CompletedInv'
    BY DEF SafeInv, ModelFails, Ends, files, CompletedInv, AllDone
  <1>8. ApprovedInv'
    BY DEF SafeInv, ModelFails, Ends, files, ApprovedInv, HandlerInv, Active,
        InFlight
  <1> QED
    BY <1>1, <1>2, <1>3, <1>4, <1>5, <1>6, <1>7, <1>8 DEF SafeInv

\* The confirming mode is entered with the new plan in it.
LEMMA PlannedKeeps ==
    ASSUME SafeInv, Undisturbed, Undisturbed', Planned
    PROVE  SafeInv'
  <1>1. TypeOK'
    BY NoSlips, SetModeWrites, HandlerType
    DEF SafeInv, TypeOK, Planned, Ends, files, Mode, HandlerInv
  <1>2. OneActivePlan'
    BY DEF SafeInv, Planned, Ends, files, OneActivePlan, Active
  <1>3. (mode = "normal" => Active = {})'
    BY SetModeWrites DEF SafeInv, Planned, Ends, files, Active, HandlerInv
  <1>4. HandlerInv'
    BY PlanAssumption
    DEF SafeInv, Planned, Ends, files, HandlerInv, Active, InFlight, Idle
  <1>5. FlightInv'
    BY DEF SafeInv, Planned, Ends, files, FlightInv, HandlerInv, Active
  <1>6. FreshInv'
    BY DEF SafeInv, Planned, Ends, files, FreshInv, HandlerInv, Active
  <1>7. CompletedInv'
    BY DEF SafeInv, Planned, Ends, files, CompletedInv, AllDone
  <1>8. ApprovedInv'
    BY DEF SafeInv, Planned, Ends, files, ApprovedInv, HandlerInv, Active,
        InFlight
  <1> QED
    BY <1>1, <1>2, <1>3, <1>4, <1>5, <1>6, <1>7, <1>8 DEF SafeInv

\* Confirming nothing leads back to normal mode.
LEMMA ConfirmNothingKeeps ==
    ASSUME SafeInv, Undisturbed, Undisturbed', ConfirmNothing
    PROVE  SafeInv'
  <1>1. TypeOK'
    BY NoSlips, SetModeWrites, HandlerType
    DEF SafeInv, TypeOK, ConfirmNothing, Ends, files, Mode
  <1>2. OneActivePlan'
    BY DEF ConfirmNothing, files, OneActivePlan, Active
  <1>3. (mode = "normal" => Active = {})'
    BY DEF SafeInv, ConfirmNothing, files, Active, HandlerInv
  <1>4. HandlerInv'
    BY PlanAssumption
    DEF SafeInv, ConfirmNothing, files, HandlerInv, Active, InFlight, Idle
  <1>5. FlightInv'
    BY DEF SafeInv, ConfirmNothing, files, FlightInv, HandlerInv, Active
  <1>6. FreshInv'
    BY DEF SafeInv, ConfirmNothing, files, FreshInv, HandlerInv, Active
  <1>7. CompletedInv'
    BY DEF SafeInv, ConfirmNothing, files, CompletedInv, AllDone
  <1>8. ApprovedInv'
    BY DEF SafeInv, ConfirmNothing, files, ApprovedInv, HandlerInv, Active,
        InFlight
  <1> QED
    BY <1>1, <1>2, <1>3, <1>4, <1>5, <1>6, <1>7, <1>8 DEF SafeInv

\* An approval is noted by the handler only.
LEMMA ApproveKeeps ==
    ASSUME SafeInv, Undisturbed, Undisturbed', NEW p \in Plan, Approve(p)
    PROVE  SafeInv'
  <1>1. TypeOK'
    BY NoSlips, HandlerType, PlanBoundAssumption
    DEF SafeInv, TypeOK, Approve, files, Mode, PlanStatus, Handler, Step,
        Active
  <1>2. OneActivePlan'
    BY DEF SafeInv, Approve, At, files, OneActivePlan, Active
  <1>3. (mode = "normal" => Active = {})'
    BY DEF SafeInv, Approve, At, files, Active, HandlerInv
  <1>4. HandlerInv'
    BY DEF SafeInv, TypeOK, Approve, At, HandlerInv
  <1>5. FlightInv'
    BY DEF SafeInv, Approve, At, files, FlightInv, HandlerInv, Active
  <1>6. FreshInv'
    BY DEF SafeInv, Approve, At, files, FreshInv, HandlerInv, Active
  <1>7. CompletedInv'
    BY DEF SafeInv, Approve, At, files, CompletedInv, AllDone
  <1>8. ApprovedInv'
    BY DEF SafeInv, Approve, At, files, ApprovedInv, HandlerInv, Active,
        InFlight
  <1> QED
    BY <1>1, <1>2, <1>3, <1>4, <1>5, <1>6, <1>7, <1>8 DEF SafeInv

\* The approved plan starts with its first step.
LEMMA ApprovedKeeps ==
    ASSUME SafeInv, Undisturbed, Undisturbed', Approved
    PROVE  SafeInv'
  <1>1. TypeOK'
    BY NoSlips, SetModeWrites, HandlerType, PlanBoundAssumption
    DEF SafeInv, TypeOK, Approved, files, Mode, PlanStatus, Handler, Step,
        Active, HandlerInv
  <1>2. OneActivePlan'
    BY DEF SafeInv, Approved, At, files, OneActivePlan, Active
  <1>3. (mode = "normal" => Active = {})'
    BY SetModeWrites DEF SafeInv, Approved, At, files, Active, HandlerInv
  <1>4. HandlerInv'
    <2>1. pa.plan \in Active /\ mode = "confirming" /\ mode' = "executing"
      BY SetModeWrites DEF SafeInv, Approved, HandlerInv, Active
    <2>2. ~InFlight(pa.plan)
      BY <2>1 DEF SafeInv, FlightInv, InFlight, Active
    <2>3. \A r \in DOMAIN steps[pa.plan] : steps[pa.plan][r] = "pending"
      BY <2>1 DEF SafeInv, FreshInv
    <2>4. HasSteps(pa.plan) => 1 \in DOMAIN steps[pa.plan] /\ DOMAIN steps[pa.plan] \subseteq Step
      BY <2>1, ListDomain, PlanBoundAssumption DEF SafeInv, HasSteps, Active, Step
    <2>5. UNCHANGED <<status, steps, flight>>
      BY DEF Approved, files
    <2>6. CASE HasSteps(pa.plan)
      <3>1. pa' = At("dispatching", pa.plan, 1)
        BY <2>6 DEF Approved
      <3>2. pa'.at = "dispatching" /\ pa'.plan = pa.plan /\ pa'.step = 1
        BY <3>1 DEF At
      <3>3. status[pa.plan] = "executing"
        BY DEF SafeInv, HandlerInv, Approved
      <3>4. \A r \in DOMAIN steps[pa.plan] : ~(r < 1)
        BY <2>4, <2>6 DEF Step
      <3> QED
        BY <2>1, <2>2, <2>3, <2>4, <2>5, <2>6, <3>2, <3>3, <3>4
        DEF HandlerInv, InFlight, Active
    <2>7. CASE ~HasSteps(pa.plan)
      <3>1. pa' = Idle
        BY <2>7 DEF Approved
      <3> QED
        BY <3>1 DEF HandlerInv, Idle
    <2> QED
      BY <2>6, <2>7
  <1>5. FlightInv'
    BY DEF SafeInv, Approved, At, files, FlightInv, HandlerInv, Active
  <1>6. FreshInv'
    BY DEF SafeInv, Approved, At, files, FreshInv, HandlerInv, Active
  <1>7. CompletedInv'
    BY DEF SafeInv, Approved, At, files, CompletedInv, AllDone
  <1>8. ApprovedInv'
    BY DEF SafeInv, Approved, At, files, ApprovedInv, HandlerInv, Active,
        InFlight
  <1> QED
    BY <1>1, <1>2, <1>3, <1>4, <1>5, <1>6, <1>7, <1>8 DEF SafeInv

\* A modification is noted by the handler only.
LEMMA ModifyKeeps ==
    ASSUME SafeInv, Undisturbed, Undisturbed', NEW p \in Plan, Modify(p)
    PROVE  SafeInv'
  <1>1. TypeOK'
    BY NoSlips, SetModeWrites, HandlerType, PlanBoundAssumption
    DEF SafeInv, TypeOK, Modify, files, Mode, PlanStatus, Handler, Step,
        Active
  <1>2. OneActivePlan'
    BY DEF SafeInv, Modify, At, files, OneActivePlan, Active
  <1>3. (mode = "normal" => Active = {})'
    BY SetModeWrites DEF SafeInv, Modify, At, files, Active, HandlerInv
  <1>4. HandlerInv'
    BY SetModeWrites, PlanAssumption
    DEF SafeInv, Modify, At, files, HandlerInv, Active, InFlight, Idle
  <1>5. FlightInv'
    BY DEF SafeInv, Modify, At, files, FlightInv, HandlerInv, Active
  <1>6. FreshInv'
    BY DEF SafeInv, Modify, At, files, FreshInv, HandlerInv, Active
  <1>7. CompletedInv'
    BY DEF SafeInv, Modify, At, files, CompletedInv, AllDone
  <1>8. ApprovedInv'
    BY DEF SafeInv, Modify, At, files, ApprovedInv, HandlerInv, Active, InFlight
  <1> QED
    BY <1>1, <1>2, <1>3, <1>4, <1>5, <1>6, <1>7, <1>8 DEF SafeInv

\* The revised plan stays the active one.
LEMMA RevisedKeeps ==
    ASSUME SafeInv, Undisturbed, Undisturbed', NEW n \in 0 .. MaxSteps, Revised(n)
    PROVE  SafeInv'
  <1>1. TypeOK'
    BY NoSlips, NewList
    DEF SafeInv, TypeOK, Revised, WritePlan, PlanStatus, HandlerInv,
        Continuation, Handler
  <1>2. OneActivePlan'
    BY DEF SafeInv, TypeOK, Revised, WritePlan, OneActivePlan, Active, HandlerInv
  <1>3. (mode = "normal" => Active = {})'
    BY DEF SafeInv, Revised, WritePlan, files, Active, HandlerInv
  <1>4. HandlerInv'
    BY DEF SafeInv, TypeOK, Continuation, Revised, WritePlan, HandlerInv
  <1>5. FlightInv'
    <2>1. pa.plan \in Active /\ ~InFlight(pa.plan)
      BY DEF SafeInv, Revised, FlightInv, HandlerInv, InFlight, Active
    <2> QED
      BY <2>1 DEF SafeInv, TypeOK, Revised, WritePlan, FlightInv, InFlight
  <1>6. FreshInv'
    <2>1. pa.plan \in Plan /\ Active' \subseteq {pa.plan}
      BY DEF SafeInv, TypeOK, OneActivePlan, Revised, WritePlan, HandlerInv, Active
    <2>2. steps'[pa.plan] = [s \in 1 .. n |-> "pending"]
      BY <2>1 DEF SafeInv, TypeOK, Revised, WritePlan
    <2> QED
      BY <2>1, <2>2 DEF FreshInv
  <1>7. CompletedInv'
    BY DEF SafeInv, TypeOK, Revised, WritePlan, CompletedInv, AllDone, HandlerInv
  <1>8. ApprovedInv'
    BY DEF SafeInv, TypeOK, Revised, WritePlan, HandlerInv, FlightInv, ApprovedInv,
        InFlight, Active
  <1> QED
    BY <1>1, <1>2, <1>3, <1>4, <1>5, <1>6, <1>7, <1>8 DEF SafeInv

\* A revision that is no plan leaves the old one.
LEMMA RevisionUnparsableKeeps ==
    ASSUME SafeInv, Undisturbed, Undisturbed', RevisionUnparsable
    PROVE  SafeInv'
  <1>1. TypeOK'
    BY NoSlips, SetModeWrites, HandlerType
    DEF SafeInv, TypeOK, RevisionUnparsable, Ends, files, Mode
  <1>2. OneActivePlan'
    BY DEF SafeInv, RevisionUnparsable, Ends, files, OneActivePlan, Active
  <1>3. (mode = "normal" => Active = {})'
    BY SetModeWrites
    DEF SafeInv, RevisionUnparsable, Ends, files, Active, HandlerInv
  <1>4. HandlerInv'
    BY PlanAssumption
    DEF SafeInv, RevisionUnparsable, Ends, files, HandlerInv, Active,
        InFlight, Idle
  <1>5. FlightInv'
    BY DEF SafeInv, RevisionUnparsable, Ends, files, FlightInv, HandlerInv, Active
  <1>6. FreshInv'
    BY DEF SafeInv, RevisionUnparsable, Ends, files, FreshInv, HandlerInv, Active
  <1>7. CompletedInv'
    BY DEF SafeInv, RevisionUnparsable, Ends, files, CompletedInv, AllDone
  <1>8. ApprovedInv'
    BY DEF SafeInv, RevisionUnparsable, Ends, files, ApprovedInv, HandlerInv,
        Active, InFlight
  <1> QED
    BY <1>1, <1>2, <1>3, <1>4, <1>5, <1>6, <1>7, <1>8 DEF SafeInv

\* The confirming mode is entered again.
LEMMA RevisionShownKeeps ==
    ASSUME SafeInv, Undisturbed, Undisturbed', RevisionShown
    PROVE  SafeInv'
  <1>1. TypeOK'
    BY NoSlips, SetModeWrites, HandlerType
    DEF SafeInv, TypeOK, RevisionShown, Ends, files, Mode, HandlerInv
  <1>2. OneActivePlan'
    BY DEF SafeInv, RevisionShown, Ends, files, OneActivePlan, Active
  <1>3. (mode = "normal" => Active = {})'
    BY SetModeWrites DEF SafeInv, RevisionShown, Ends, files, Active, HandlerInv
  <1>4. HandlerInv'
    BY PlanAssumption
    DEF SafeInv, RevisionShown, Ends, files, HandlerInv, Active, InFlight,
        Idle
  <1>5. FlightInv'
    BY DEF SafeInv, RevisionShown, Ends, files, FlightInv, HandlerInv, Active
  <1>6. FreshInv'
    BY DEF SafeInv, RevisionShown, Ends, files, FreshInv, HandlerInv, Active
  <1>7. CompletedInv'
    BY DEF SafeInv, RevisionShown, Ends, files, CompletedInv, AllDone
  <1>8. ApprovedInv'
    BY DEF SafeInv, RevisionShown, Ends, files, ApprovedInv, HandlerInv, Active,
        InFlight
  <1> QED
    BY <1>1, <1>2, <1>3, <1>4, <1>5, <1>6, <1>7, <1>8 DEF SafeInv

\* A cancelled plan is the only one that was active.
LEMMA WriteCancelledKeeps ==
    ASSUME SafeInv, Undisturbed, Undisturbed', NEW p \in Active, pa = Idle,
           WriteCancelled(p)
    PROVE  SafeInv'
  <1>1. TypeOK'
    BY NoSlips
    DEF SafeInv, TypeOK, WriteCancelled, PlanStatus, Continuation, Handler, Active
  <1>2. OneActivePlan'
    BY DEF SafeInv, WriteCancelled, At, files, OneActivePlan, Active
  <1>3. (mode = "normal" => Active = {})'
    BY DEF SafeInv, WriteCancelled, At, files, Active, HandlerInv
  <1>4. HandlerInv'
    <2>1. pa'.at = "cancelled" /\ pa'.plan = None
      BY DEF WriteCancelled, Idle
    <2>2. Active' = {}
      BY DEF SafeInv, TypeOK, OneActivePlan, WriteCancelled, Active
    <2> QED
      BY <2>1, <2>2 DEF HandlerInv
  <1>5. FlightInv'
    BY DEF SafeInv, TypeOK, WriteCancelled, FlightInv, Active
  <1>6. FreshInv'
    BY DEF SafeInv, WriteCancelled, At, files, FreshInv, HandlerInv,
        Active
  <1>7. CompletedInv'
    BY DEF SafeInv, WriteCancelled, At, files, CompletedInv, AllDone
  <1>8. ApprovedInv'
    BY DEF SafeInv, WriteCancelled, At, files, ApprovedInv, HandlerInv, Active,
        InFlight
  <1> QED
    BY <1>1, <1>2, <1>3, <1>4, <1>5, <1>6, <1>7, <1>8 DEF SafeInv

\* The user leaves: with a plan it is cancelled.
LEMMA ExitKeeps ==
    ASSUME SafeInv, Undisturbed, Undisturbed', Exit
    PROVE  SafeInv'
  <1>1. CASE \E p \in Active : WriteCancelled(p)
    BY <1>1, WriteCancelledKeeps DEF Exit
  <1>2. CASE Active = {} /\ SetMode("normal") /\ UNCHANGED <<files, flight, pa, approved>>
    <2>1. mode' = "normal" /\ Active' = {}
      BY <1>2, SetModeWrites DEF Active, files
    <2>2. TypeOK'
      BY <1>2, <2>1, NoSlips DEF SafeInv, TypeOK, files, Mode
    <2>3. HandlerInv'
      BY <1>2, <2>1 DEF SafeInv, HandlerInv, Exit, Idle
    <2>4. FlightInv'
      BY <1>2, <2>1 DEF SafeInv, FlightInv, files, Active
    <2>5. CompletedInv'
      BY <1>2 DEF SafeInv, CompletedInv, AllDone, files
    <2>6. ApprovedInv'
      BY <1>2 DEF SafeInv, ApprovedInv, InFlight, files
    <2> QED
      BY <2>1, <2>2, <2>3, <2>4, <2>5, <2>6 DEF SafeInv, OneActivePlan, FreshInv
  <1> QED
    BY <1>1, <1>2 DEF Exit

\* So does the answer to the question for a confirmation.
LEMMA RejectKeeps ==
    ASSUME SafeInv, Undisturbed, Undisturbed', NEW p \in Plan, Reject(p)
    PROVE  SafeInv'
  BY WriteCancelledKeeps DEF Reject

\* The command line cancels like the chat does.
LEMMA CliCancelKeeps ==
    ASSUME SafeInv, Undisturbed, Undisturbed', NEW p \in Plan, CliCancel(p)
    PROVE  SafeInv'
  <1>1. pa = Idle
    BY DEF SafeInv, HandlerInv, CliCancel
  <1> QED
    BY <1>1, WriteCancelledKeeps DEF CliCancel

\* After the cancellation the mode is normal.
LEMMA CancelledKeeps ==
    ASSUME SafeInv, Undisturbed, Undisturbed', Cancelled
    PROVE  SafeInv'
  <1>0. pa' = Idle /\ mode' = "normal" /\ UNCHANGED <<status, steps, flight, approved>>
    BY SetModeWrites DEF SafeInv, HandlerInv, Cancelled, files
  <1>1. TypeOK'
    BY <1>0, NoSlips, HandlerType DEF SafeInv, TypeOK, Mode
  <1>2. OneActivePlan'
    BY <1>0 DEF SafeInv, Cancelled, OneActivePlan, Active
  <1>3. (mode = "normal" => Active = {})'
    BY <1>0 DEF SafeInv, Cancelled, Active, HandlerInv
  <1>4. HandlerInv'
    BY <1>0, PlanAssumption
    DEF SafeInv, Cancelled, HandlerInv, Active, InFlight, Idle
  <1>5. FlightInv'
    BY <1>0 DEF SafeInv, Cancelled, FlightInv, HandlerInv, Active
  <1>6. FreshInv'
    BY <1>0 DEF SafeInv, Cancelled, FreshInv, HandlerInv, Active
  <1>7. CompletedInv'
    BY <1>0 DEF SafeInv, Cancelled, CompletedInv, AllDone
  <1>8. ApprovedInv'
    BY <1>0 DEF SafeInv, Cancelled, ApprovedInv, HandlerInv, Active,
        InFlight
  <1> QED
    BY <1>1, <1>2, <1>3, <1>4, <1>5, <1>6, <1>7, <1>8 DEF SafeInv

\* A dispatch that fails leaves the step running.
LEMMA DispatchFailsKeeps ==
    ASSUME SafeInv, Undisturbed, Undisturbed', DispatchFails
    PROVE  SafeInv'
  <1>1. TypeOK'
    BY NoSlips, HandlerType DEF SafeInv, TypeOK, DispatchFails, Ends, files, Mode
  <1>2. OneActivePlan'
    BY DEF SafeInv, DispatchFails, Ends, files, OneActivePlan, Active
  <1>3. (mode = "normal" => Active = {})'
    BY DEF SafeInv, DispatchFails, Ends, files, Active, HandlerInv
  <1>4. HandlerInv'
    BY PlanAssumption
    DEF SafeInv, DispatchFails, Ends, files, HandlerInv, Active, InFlight,
        Idle
  <1>5. FlightInv'
    BY DEF SafeInv, DispatchFails, Ends, files, FlightInv, HandlerInv, Active
  <1>6. FreshInv'
    BY DEF SafeInv, DispatchFails, Ends, files, FreshInv, HandlerInv, Active
  <1>7. CompletedInv'
    BY DEF SafeInv, DispatchFails, Ends, files, CompletedInv, AllDone
  <1>8. ApprovedInv'
    BY DEF SafeInv, DispatchFails, Ends, files, ApprovedInv, HandlerInv, Active,
        InFlight
  <1> QED
    BY <1>1, <1>2, <1>3, <1>4, <1>5, <1>6, <1>7, <1>8 DEF SafeInv

\* The step that is marked is the only one that runs.
LEMMA MarkStepRunningKeeps ==
    ASSUME SafeInv, Undisturbed, Undisturbed', MarkStepRunning
    PROVE  SafeInv'
  <1>1. TypeOK'
    BY NoSlips, ListUpdate
    DEF SafeInv, TypeOK, MarkStepRunning, HandlerInv, Continuation, Handler,
        StepStatus
  <1>2. OneActivePlan'
    BY DEF SafeInv, MarkStepRunning, files, OneActivePlan, Active
  <1>3. (mode = "normal" => Active = {})'
    BY DEF SafeInv, MarkStepRunning, files, Active, HandlerInv
  <1>4. HandlerInv'
    BY PlanAssumption
    DEF SafeInv, MarkStepRunning, files, HandlerInv, Active, InFlight, Idle
  <1>5. FlightInv'
    <2>1. \A q \in Plan, s \in Step : flight[q][s] > 0 => q # pa.plan
      BY DEF SafeInv, MarkStepRunning, HandlerInv, InFlight
    <2> QED
      BY <2>1 DEF SafeInv, TypeOK, MarkStepRunning, FlightInv
  <1>6. FreshInv'
    BY DEF SafeInv, MarkStepRunning, files, FreshInv, HandlerInv, Active
  <1>7. CompletedInv'
    BY DEF SafeInv, TypeOK, MarkStepRunning, HandlerInv, CompletedInv, AllDone
  <1>8. ApprovedInv'
    BY DEF SafeInv, MarkStepRunning, files, ApprovedInv, HandlerInv, Active,
        InFlight
  <1> QED
    BY <1>1, <1>2, <1>3, <1>4, <1>5, <1>6, <1>7, <1>8 DEF SafeInv

\* The task that is dispatched is that of the running step.
LEMMA DispatchKeeps ==
    ASSUME SafeInv, Undisturbed, Undisturbed', Dispatch
    PROVE  SafeInv'
  <1>1. TypeOK'
    <2>1. pa.plan \in Plan /\ pa.step \in Step
      BY ListDomain DEF SafeInv, Dispatch, Ends, HandlerInv
    <2>2. flight' \in [Plan -> [Step -> 0 .. MaxFlight]]
      BY <2>1, FlightRises DEF SafeInv, Dispatch
    <2> QED
      BY <2>2, HandlerType DEF SafeInv, TypeOK, Dispatch, Ends, files
  <1>2. OneActivePlan'
    BY DEF SafeInv, Dispatch, Ends, files, OneActivePlan, Active
  <1>3. (mode = "normal" => Active = {})'
    BY DEF SafeInv, Dispatch, Ends, files, Active, HandlerInv
  <1>4. HandlerInv'
    BY PlanAssumption
    DEF SafeInv, Dispatch, Ends, files, HandlerInv, Active, InFlight, Idle
  <1>5. FlightInv'
    <2> DEFINE p == pa.plan
               s == pa.step
    <2>1. /\ p \in Plan /\ s \in DOMAIN steps[p] /\ DOMAIN steps[p] \subseteq Step
          /\ mode = "executing" /\ status[p] = "executing" /\ ~InFlight(p)
          /\ \A r \in DOMAIN steps[p] :
              /\ r < s => steps[p][r] = "completed"
              /\ r > s => steps[p][r] = "pending"
      BY ListDomain DEF SafeInv, Dispatch, Ends, HandlerInv
    <2>2. \A r \in Step : flight[p][r] = 0
      BY <2>1 DEF SafeInv, TypeOK, InFlight
    <2>3. \A r \in Step : flight'[p][r] = IF r = s THEN 1 ELSE 0
      BY <2>1, <2>2 DEF SafeInv, TypeOK, Dispatch
    <2>4. \A q \in Plan : q # p => flight'[q] = flight[q]
      BY <2>1 DEF TypeOK, Dispatch
    <2>5. UNCHANGED <<mode, status, steps>>
      BY DEF Dispatch, files
    <2> HIDE DEF p, s
    <2>6. \A t \in Step : flight'[p][t] > 0 => t = s
      BY <2>3
    <2> QED
      BY <2>1, <2>3, <2>4, <2>5, <2>6 DEF SafeInv, FlightInv
  <1>6. FreshInv'
    BY DEF SafeInv, Dispatch, Ends, files, FreshInv, HandlerInv, Active
  <1>7. CompletedInv'
    BY DEF SafeInv, Dispatch, Ends, files, CompletedInv, AllDone
  <1>8. ApprovedInv'
    BY DEF SafeInv, Dispatch, Ends, files, ApprovedInv, HandlerInv, Active,
        InFlight
  <1> QED
    BY <1>1, <1>2, <1>3, <1>4, <1>5, <1>6, <1>7, <1>8 DEF SafeInv

\* A step that is reported was running, and runs no more.
LEMMA StepDoneKeeps ==
    ASSUME SafeInv, Undisturbed, Undisturbed', NEW p \in Plan, NEW s \in Step, StepDone(p, s)
    PROVE  SafeInv'
  <1>0. mode = "executing" /\ status[p] = "executing"
    BY DEF SafeInv, FlightInv, StepDone, Undisturbed
  <1>1. TypeOK'
    <2>1. At("stepped", p, s) \in Continuation
      BY HandlerType DEF Handler
    <2>2. steps' \in [Plan -> StepLists]
      BY ListUpdate DEF SafeInv, TypeOK, StepDone, StepStatus
    <2>3. flight' \in [Plan -> [Step -> 0 .. MaxFlight]]
      BY FlightFalls DEF SafeInv, StepDone
    <2> QED
      BY <2>1, <2>2, <2>3, NoSlips DEF SafeInv, TypeOK, StepDone
  <1>2. OneActivePlan'
    BY DEF SafeInv, StepDone, At, files, OneActivePlan, Active
  <1>3. (mode = "normal" => Active = {})'
    BY DEF SafeInv, StepDone, At, files, Active, HandlerInv
  <1>4. HandlerInv'
    <2>1. /\ mode = "executing" /\ status[p] = "executing"
          /\ s \in DOMAIN steps[p] /\ flight[p][s] = 1
          /\ \A r \in Step : flight[p][r] > 0 => r = s
          /\ \A r \in DOMAIN steps[p] :
              /\ r < s => steps[p][r] = "completed"
              /\ r > s => steps[p][r] = "pending"
      BY <1>0 DEF SafeInv, FlightInv, StepDone
    <2>2. \A r \in Step : ~(flight'[p][r] > 0)
      BY <2>1 DEF SafeInv, TypeOK, StepDone
    <2>3. /\ DOMAIN steps'[p] = DOMAIN steps[p]
          /\ \A r \in DOMAIN steps[p] :
                steps'[p][r] = IF r = s THEN "completed" ELSE steps[p][r]
      BY <2>1 DEF SafeInv, TypeOK, StepDone
    <2>4. DOMAIN steps[p] \subseteq Nat /\ s \in Nat
      BY ListDomain DEF SafeInv, Step
    <2>5. \A r \in DOMAIN steps[p] :
            steps'[p][r] = IF r <= s THEN "completed" ELSE "pending"
      BY <2>1, <2>3, <2>4
    <2>6. pa' = At("stepped", p, s) /\ UNCHANGED <<mode, status>>
      BY DEF StepDone
    <2> QED
      BY <2>1, <2>2, <2>3, <2>5, <2>6 DEF HandlerInv, InFlight, At
  <1>5. FlightInv'
    BY <1>0 DEF SafeInv, TypeOK, StepDone, FlightInv
  <1>6. FreshInv'
    <2>1. mode' = "executing"
      BY <1>0 DEF StepDone
    <2> QED
      BY <2>1 DEF FreshInv
  <1>7. CompletedInv'
    BY DEF SafeInv, StepDone, At, files, CompletedInv, AllDone
  <1>8. ApprovedInv'
    BY DEF SafeInv, TypeOK, StepDone, ApprovedInv, InFlight
  <1> QED
    BY <1>1, <1>2, <1>3, <1>4, <1>5, <1>6, <1>7, <1>8 DEF SafeInv

\* A plan is completed when no step is pending or running.
LEMMA CompleteKeeps ==
    ASSUME SafeInv, Undisturbed, Undisturbed', Complete
    PROVE  SafeInv'
  <1>1. TypeOK'
    BY NoSlips DEF SafeInv, TypeOK, Complete, HandlerInv, Continuation, Handler, PlanStatus
  <1>2. OneActivePlan'
    BY DEF SafeInv, Complete, files, OneActivePlan, Active
  <1>3. (mode = "normal" => Active = {})'
    BY DEF SafeInv, Complete, files, Active, HandlerInv
  <1>4. HandlerInv'
    BY DEF SafeInv, TypeOK, OneActivePlan, Complete, HandlerInv, Active
  <1>5. FlightInv'
    <2>1. \A q \in Plan, s \in Step :
              flight[q][s] > 0 => q # pa.plan /\ status[q] = "cancelled"
      BY DEF SafeInv, OneActivePlan, Complete, HandlerInv, FlightInv, Active,
          InFlight
    <2> QED
      BY <2>1 DEF SafeInv, FlightInv, Complete
  <1>6. FreshInv'
    BY DEF SafeInv, Complete, files, FreshInv, HandlerInv, Active
  <1>7. CompletedInv'
    BY DEF SafeInv, Complete, files, CompletedInv, AllDone
  <1>8. ApprovedInv'
    BY DEF SafeInv, Complete, files, ApprovedInv, HandlerInv, Active, InFlight
  <1> QED
    BY <1>1, <1>2, <1>3, <1>4, <1>5, <1>6, <1>7, <1>8 DEF SafeInv

\* After the last step the mode is normal.
LEMMA CompletedKeeps ==
    ASSUME SafeInv, Undisturbed, Undisturbed', Completed
    PROVE  SafeInv'
  <1>1. TypeOK'
    BY NoSlips, SetModeWrites, HandlerType DEF SafeInv, TypeOK, Completed, Ends, files, Mode
  <1>2. OneActivePlan'
    BY DEF SafeInv, Completed, Ends, files, OneActivePlan, Active
  <1>3. (mode = "normal" => Active = {})'
    BY DEF SafeInv, Completed, Ends, files, Active, HandlerInv
  <1>4. HandlerInv'
    BY PlanAssumption
    DEF SafeInv, Completed, Ends, files, HandlerInv, Active, InFlight, Idle
  <1>5. FlightInv'
    BY DEF SafeInv, Completed, Ends, files, FlightInv, HandlerInv, Active
  <1>6. FreshInv'
    BY DEF SafeInv, Completed, Ends, files, FreshInv, HandlerInv, Active
  <1>7. CompletedInv'
    BY DEF SafeInv, Completed, Ends, files, CompletedInv, AllDone
  <1>8. ApprovedInv'
    BY DEF SafeInv, Completed, Ends, files, ApprovedInv, HandlerInv, Active,
        InFlight
  <1> QED
    BY <1>1, <1>2, <1>3, <1>4, <1>5, <1>6, <1>7, <1>8 DEF SafeInv

\* The next pending step is the next one in order.
LEMMA ProceedKeeps ==
    ASSUME SafeInv, Undisturbed, Undisturbed', Proceed
    PROVE  SafeInv'
  <1>1. TypeOK'
    BY NoSlips, HandlerType, NextInOrder, ListDomain
    DEF SafeInv, TypeOK, Proceed, files, HandlerInv, Handler
  <1>2. OneActivePlan'
    BY DEF SafeInv, Proceed, At, files, OneActivePlan, Active
  <1>3. (mode = "normal" => Active = {})'
    BY DEF SafeInv, Proceed, At, files, Active, HandlerInv
  <1>4. HandlerInv'
    <2> DEFINE p == pa.plan
    <2>1. CASE PendingSteps(p) = {}
      BY <2>1 DEF Proceed, HandlerInv, Idle
    <2>2. CASE PendingSteps(p) # {}
      <3>1. /\ pa' = At("dispatching", p, pa.step + 1)
            /\ pa.step + 1 \in DOMAIN steps[p]
        BY <2>2, NextInOrder DEF Proceed
      <3>2. /\ p \in Plan /\ mode = "executing" /\ status[p] = "executing"
            /\ ~InFlight(p)
            /\ \A r \in DOMAIN steps[p] :
                  steps[p][r] = IF r <= pa.step THEN "completed" ELSE "pending"
        BY DEF SafeInv, Proceed, HandlerInv
      <3>3. DOMAIN steps[p] \subseteq Nat /\ pa.step \in Nat
        BY <3>2, ListDomain DEF SafeInv, TypeOK, Continuation, Step
      <3>4. UNCHANGED <<mode, status, steps, flight>>
        BY DEF Proceed, files
      <3> QED
        BY <3>1, <3>2, <3>3, <3>4 DEF HandlerInv, At, InFlight
    <2> QED
      BY <2>1, <2>2
  <1>5. FlightInv'
    BY DEF SafeInv, Proceed, At, files, FlightInv, HandlerInv, Active
  <1>6. FreshInv'
    BY DEF SafeInv, Proceed, At, files, FreshInv, HandlerInv, Active
  <1>7. CompletedInv'
    BY DEF SafeInv, Proceed, At, files, CompletedInv, AllDone
  <1>8. ApprovedInv'
    BY DEF SafeInv, Proceed, At, files, ApprovedInv, HandlerInv, Active,
        InFlight
  <1> QED
    BY <1>1, <1>2, <1>3, <1>4, <1>5, <1>6, <1>7, <1>8 DEF SafeInv

\* A task that fails is not reported to the plan.
LEMMA TaskFailsKeeps ==
    ASSUME SafeInv, Undisturbed, Undisturbed', NEW p \in Plan, NEW s \in Step, TaskFails(p, s)
    PROVE  SafeInv'
  <1>1. TypeOK'
    <2>1. flight' \in [Plan -> [Step -> 0 .. MaxFlight]]
      BY FlightFalls DEF SafeInv, TaskFails
    <2> QED
      BY <2>1 DEF SafeInv, TypeOK, TaskFails, files
  <1>2. OneActivePlan'
    BY DEF SafeInv, TaskFails, files, OneActivePlan, Active
  <1>3. (mode = "normal" => Active = {})'
    BY DEF SafeInv, TaskFails, files, Active, HandlerInv
  <1>4. HandlerInv'
    BY DEF SafeInv, TypeOK, TaskFails, files, HandlerInv, Active, InFlight, Step
  <1>5. FlightInv'
    BY DEF SafeInv, TypeOK, TaskFails, files, FlightInv, Step
  <1>6. FreshInv'
    BY DEF SafeInv, TaskFails, files, FreshInv, HandlerInv, Active
  <1>7. CompletedInv'
    BY DEF SafeInv, TaskFails, files, CompletedInv, AllDone
  <1>8. ApprovedInv'
    BY DEF SafeInv, TaskFails, files, ApprovedInv, HandlerInv, Active, InFlight
  <1> QED
    BY <1>1, <1>2, <1>3, <1>4, <1>5, <1>6, <1>7, <1>8 DEF SafeInv

\* A worker that restarts has no handler.
LEMMA CrashKeeps ==
    ASSUME SafeInv, Undisturbed, Undisturbed', Crash
    PROVE  SafeInv'
  <1>1. TypeOK'
    BY NoSlips, HandlerType DEF SafeInv, TypeOK, Crash, files
  <1>2. OneActivePlan'
    BY DEF SafeInv, Crash, files, OneActivePlan, Active
  <1>3. (mode = "normal" => Active = {})'
    BY DEF SafeInv, Crash, files, Active, HandlerInv
  <1>4. HandlerInv'
    BY PlanAssumption DEF SafeInv, Crash, files, HandlerInv, Active, InFlight, Idle
  <1>5. FlightInv'
    BY DEF SafeInv, Crash, files, FlightInv, HandlerInv, Active
  <1>6. FreshInv'
    BY DEF SafeInv, Crash, files, FreshInv, HandlerInv, Active
  <1>7. CompletedInv'
    BY DEF SafeInv, Crash, files, CompletedInv, AllDone
  <1>8. ApprovedInv'
    BY DEF SafeInv, Crash, files, ApprovedInv, HandlerInv, Active, InFlight
  <1> QED
    BY <1>1, <1>2, <1>3, <1>4, <1>5, <1>6, <1>7, <1>8 DEF SafeInv

-----------------------------------------------------------------------------
(* Every step keeps the invariant *)

\* There is no plan in the beginning.
LEMMA InitInv == Init => SafeInv
  <1> SUFFICES ASSUME Init
               PROVE  SafeInv
    OBVIOUS
  <1>1. [s \in 1 .. 0 |-> "pending"] = <<>>
    OBVIOUS
  <1>2. <<>> \in StepLists
    <2>1. 0 \in 0 .. MaxSteps
      BY PlanBoundAssumption
    <2>2. [s \in 1 .. 0 |-> "pending"] \in StepLists
      BY <2>1, NewList
    <2> QED
      BY <1>1, <2>2
  <1>3. TypeOK
    BY <1>2, HandlerType, PlanBoundAssumption
    DEF Init, TypeOK, Mode, PlanStatus, Step
  <1>4. Active = {}
    BY DEF Init, Active
  <1>5. HandlerInv
    BY DEF Init, Idle, HandlerInv
  <1>6. FlightInv /\ CompletedInv /\ ApprovedInv
    BY DEF Init, FlightInv, CompletedInv, ApprovedInv, InFlight
  <1> QED
    BY <1>3, <1>4, <1>5, <1>6 DEF SafeInv, OneActivePlan, FreshInv

\* A stuttering step keeps the invariant.
LEMMA StutterKeeps ==
    ASSUME SafeInv, UNCHANGED vars
    PROVE  SafeInv'
  <1>1. TypeOK'
    BY NoSlips DEF SafeInv, TypeOK, vars
  <1>2. Active' = Active /\ OneActivePlan'
    BY DEF SafeInv, Active, OneActivePlan, Undisturbed, vars
  <1>3. HandlerInv'
    BY <1>2 DEF SafeInv, HandlerInv, InFlight, vars
  <1>4. FlightInv' /\ FreshInv' /\ CompletedInv' /\ ApprovedInv'
    BY <1>2
    DEF SafeInv, FlightInv, FreshInv, CompletedInv, ApprovedInv, AllDone,
        InFlight, vars
  <1> QED
    BY <1>1, <1>2, <1>3, <1>4 DEF SafeInv, vars

\* What has gone wrong has gone wrong.
LEMMA SlipsStay ==
    ASSUME [Next]_vars, Undisturbed'
    PROVE  Undisturbed
  <1> SUFFICES slips \subseteq slips'
    BY DEF Undisturbed
  <1>1. CASE UserStep
    BY <1>1
    DEF UserStep, ConfirmNothing, Exit, Trigger, MisreadTrigger, Approve, Modify,
        Reject, CliCancel, WriteCancelled, SetMode
  <1>2. CASE HandlerStep
    BY <1>2
    DEF HandlerStep, Generated, Revised, GenerationUnparsable, ModelFails, Planned,
        Approved, RevisionUnparsable, RevisionShown, Cancelled, MarkStepRunning,
        Dispatch, DispatchFails, Complete, Completed, Proceed, SetMode
  <1>3. CASE TaskStep \/ Crash
    BY <1>3 DEF TaskStep, StepDone, TaskFails, Crash
  <1>4. CASE UNCHANGED vars
    BY <1>4 DEF vars
  <1> QED
    BY <1>1, <1>2, <1>3, <1>4 DEF Next

\* A mode that is misread is a slip.
LEMMA NoMisread ==
    ASSUME NEW p \in Plan, MisreadTrigger(p), Undisturbed'
    PROVE  FALSE
  BY DEF MisreadTrigger, Undisturbed

\* Every step keeps the invariant.
LEMMA NextKeeps ==
    ASSUME SafeInv, Undisturbed, Undisturbed', [Next]_vars
    PROVE  SafeInv'
  <1>1. CASE UserStep
    BY <1>1, ConfirmNothingKeeps, ExitKeeps, TriggerKeeps, NoMisread, ApproveKeeps,
       ModifyKeeps, RejectKeeps, CliCancelKeeps
    DEF UserStep
  <1>2. CASE HandlerStep
    BY <1>2, GeneratedKeeps, RevisedKeeps, GenerationUnparsableKeeps,
       ModelFailsKeeps, PlannedKeeps, ApprovedKeeps, RevisionUnparsableKeeps,
       RevisionShownKeeps, CancelledKeeps, MarkStepRunningKeeps, DispatchKeeps,
       DispatchFailsKeeps, CompleteKeeps, CompletedKeeps, ProceedKeeps
    DEF HandlerStep
  <1>3. CASE TaskStep
    BY <1>3, StepDoneKeeps, TaskFailsKeeps DEF TaskStep
  <1>4. CASE Crash
    BY <1>4, CrashKeeps
  <1>5. CASE UNCHANGED vars
    BY <1>5, StutterKeeps
  <1> QED
    BY <1>1, <1>2, <1>3, <1>4, <1>5 DEF Next

-----------------------------------------------------------------------------
(* The theorems *)

\* The invariant is inductive (personal_assistant.py, plan handlers): until the
\* first slip, mode, files, handler and tasks fit together.
THEOREM InductiveInvariant == Spec => []IInv
  <1>1. Init => IInv
    BY InitInv DEF IInv
  <1>2. IInv /\ [Next]_vars => IInv'
    BY NextKeeps, SlipsStay DEF IInv
  <1> QED
    BY <1>1, <1>2, PTL DEF Spec

\* PlanStore.get_active has one plan to choose from at most.
THEOREM AtMostOneActivePlan == Spec => []OneActivePlan
  <1>1. IInv => OneActivePlan
    BY DEF IInv, SafeInv, OneActivePlan
  <1> QED
    BY InductiveInvariant, <1>1, PTL

\* No step runs twice and no two steps run at once (_dispatch_plan_step).
THEOREM StepsRunOneAtATime == Spec => []OneStepAtATime
  <1>1. IInv => OneStepAtATime
    BY DEF IInv, SafeInv, FlightInv, OneStepAtATime
  <1> QED
    BY InductiveInvariant, <1>1, PTL

\* The steps run in the order of the plan (handle_plan_step_done).
THEOREM StepsRunInOrder == Spec => []StepsInOrder
  <1>1. IInv => StepsInOrder
    <2> SUFFICES ASSUME SafeInv, NEW p \in Plan, NEW s \in Step, flight[p][s] > 0
                 PROVE  /\ s \in DOMAIN steps[p]
                        /\ \A r \in 1 .. s - 1 : steps[p][r] = "completed"
      BY DEF IInv, StepsInOrder
    <2>1. s \in DOMAIN steps[p]
      BY DEF SafeInv, FlightInv
    <2>2. \A r \in 1 .. s - 1 : r \in DOMAIN steps[p] /\ r < s
      BY <2>1, ListDomain DEF SafeInv, Step
    <2> QED
      BY <2>1, <2>2 DEF SafeInv, FlightInv
  <1> QED
    BY InductiveInvariant, <1>1, PTL

\* A plan that waits or executes is found again after any crash.
THEOREM ActivePlanIsFound == Spec => []ActiveIsVisible
  <1>1. IInv => ActiveIsVisible
    BY DEF IInv, SafeInv, ActiveIsVisible
  <1> QED
    BY InductiveInvariant, <1>1, PTL

\* No plan is revised once it has begun (_handle_confirming, _revise_plan).
THEOREM ApprovedStepsOnly == Spec => []StepsAreApproved
  <1>1. IInv => StepsAreApproved
    BY DEF IInv, SafeInv, ApprovedInv, StepsAreApproved
  <1> QED
    BY InductiveInvariant, <1>1, PTL

-----------------------------------------------------------------------------
(* Completed plans, disturbed or not *)

\* What becomes of the list of a plan when one of its steps gets a status.
LEMMA StepSet ==
    ASSUME NEW l \in StepLists, NEW s, NEW v \in StepStatus
    PROVE  /\ [l EXCEPT ![s] = v] \in StepLists
           /\ s \in DOMAIN l /\ l[s] = v => [l EXCEPT ![s] = v] = l
  <1>1. PICK n \in 0 .. MaxSteps : l \in [1 .. n -> StepStatus]
    BY ListShape
  <1>2. [l EXCEPT ![s] = v] \in [1 .. n -> StepStatus]
    BY <1>1
  <1>3. ASSUME l[s] = v PROVE [l EXCEPT ![s] = v] = l
    BY <1>1, <1>3
  <1> QED
    BY <1>2, <1>3 DEF StepLists

\* A handler that ends, or goes on with a plan it may go on with, and writes no
\* file.
LEMMA HandlerFinal ==
    ASSUME FinalInv, UNCHANGED files,
           \/ UNCHANGED pa
           \/ pa' = Idle
           \/ \E s : \E h \in Handler, p \in Plan :
                 /\ pa' = At(h, p, s)
                 /\ h \notin {"idle", "cancelled"}
                 /\ h = "planning" => status[p] = "none"
                 /\ h \in {"planned", "revising", "revised", "approved"} => p \in Active
                 /\ h \in {"dispatching", "marked"} => status[p] # "completed"
    PROVE  FinalInv'
  <1>1. CompletedInv'
    BY DEF FinalInv, CompletedInv, AllDone, files
  <1>2. CASE UNCHANGED pa
    BY <1>1, <1>2 DEF FinalInv, Active, files
  <1>3. CASE pa' = Idle
    <2>1. pa'.at = "idle" /\ pa' = At(pa'.at, pa'.plan, pa'.step)
      BY <1>3 DEF Idle, At
    <2> QED
      BY <1>1, <1>3, <2>1 DEF FinalInv, files
  <1>4. ASSUME NEW h \in Handler, NEW p \in Plan, NEW s, pa' = At(h, p, s),
               h \notin {"idle", "cancelled"},
               h = "planning" => status[p] = "none",
               h \in {"planned", "revising", "revised", "approved"} => p \in Active,
               h \in {"dispatching", "marked"} => status[p] # "completed"
        PROVE  FinalInv'
    <2>1. pa'.at = h /\ pa'.plan = p /\ pa' = At(pa'.at, pa'.plan, pa'.step)
      BY <1>4 DEF At
    <2> QED
      BY <1>1, <1>4, <2>1 DEF FinalInv, Active, files
  <1> QED
    BY <1>2, <1>3, <1>4

\* A handler that writes files: those of the plan it works on, which is not
\* completed or is still all done.
LEMMA WriterFinal ==
    ASSUME FinalInv, NEW p \in Plan, NEW t \in PlanStatus, NEW l \in StepLists,
           NEW h \in Handler, NEW s,
           status' = [status EXCEPT ![p] = t], steps' = [steps EXCEPT ![p] = l],
           pa' = At(h, p, s),
           h \notin {"idle", "cancelled", "planning"},
           h \in {"planned", "revising", "revised", "approved"}
             => t \in {"confirming", "executing"},
           h \in {"dispatching", "marked"} => t # "completed",
           t = "completed" => \A r \in DOMAIN l : l[r] = "completed"
    PROVE  FinalInv'
  <1>1. pa'.at = h /\ pa'.plan = p /\ pa' = At(pa'.at, pa'.plan, pa'.step)
    BY DEF At
  <1>2. /\ status' \in [Plan -> PlanStatus] /\ status'[p] = t
        /\ steps' \in [Plan -> StepLists] /\ steps'[p] = l
        /\ \A q \in Plan \ {p} : status'[q] = status[q] /\ steps'[q] = steps[q]
    BY DEF FinalInv
  <1>3. CompletedInv'
    BY <1>2 DEF FinalInv, CompletedInv, AllDone
  <1> QED
    BY <1>1, <1>2, <1>3 DEF FinalInv, Active

\* Completed plans stay as they are.
Stays ==
    \A p \in Plan : status[p] = "completed" =>
        status'[p] = "completed" /\ steps'[p] = steps[p]

\* Every step keeps the invariant, and leaves completed plans as they are.
LEMMA CompletedStays ==
    ASSUME FinalInv, [Next]_vars
    PROVE  FinalInv' /\ Stays
  <1> DEFINE r == pa.plan
  <1>1. /\ status \in [Plan -> PlanStatus] /\ steps \in [Plan -> StepLists]
        /\ UNCHANGED files => Stays
        /\ \A q \in Active : q \in Plan /\ status[q] \in {"confirming", "executing"}
    BY DEF FinalInv, files, Active, Stays
  <1>2. ASSUME NEW h \in Handler PROVE [pa EXCEPT !.at = h] = At(h, r, pa.step)
    BY DEF FinalInv, At
  <1>3. ASSUME NEW q \in Plan, NEW l, steps' = [steps EXCEPT ![q] = l] \/ steps' = steps,
               \E t : status' = [status EXCEPT ![q] = t] \/ status' = status,
               status[q] # "completed"
        PROVE  Stays
    BY <1>1, <1>3 DEF Stays
  <1>4. CASE UNCHANGED vars
    BY <1>1, <1>4, HandlerFinal DEF vars, files
  <1>5. CASE \/ GenerationUnparsable \/ ModelFails \/ Planned \/ RevisionUnparsable
             \/ RevisionShown \/ DispatchFails \/ Dispatch \/ Completed
             \/ Crash
    <2>1. pa' = Idle /\ UNCHANGED files
      BY <1>5 DEF GenerationUnparsable, ModelFails, Planned, RevisionUnparsable,
                  RevisionShown, DispatchFails, Dispatch, Completed,
                  Crash, Ends, files
    <2> QED
      BY <1>1, <2>1, HandlerFinal
  <1>6. CASE ConfirmNothing \/ \E p \in Plan, s \in Step : TaskFails(p, s)
    <2>1. UNCHANGED <<pa, files>>
      BY <1>6 DEF ConfirmNothing, TaskFails, files
    <2> QED
      BY <1>1, <2>1, HandlerFinal
  <1>7. ASSUME NEW p \in Plan, Trigger(p) \/ MisreadTrigger(p) \/ Modify(p)
        PROVE  FinalInv' /\ Stays
    <2>1. /\ UNCHANGED files
          /\ \/ pa' = At("planning", p, 1) /\ status[p] = "none"
             \/ pa' = At("revising", p, 1) /\ p \in Active
      BY <1>7 DEF Trigger, MisreadTrigger, Modify, files
    <2> QED
      BY <1>1, <2>1, HandlerFinal DEF Handler
  <1>8. ASSUME NEW p \in Plan, Approve(p) PROVE FinalInv' /\ Stays
    <2>1. /\ status' = [status EXCEPT ![p] = "executing"] /\ p \in Active
          /\ steps' = [steps EXCEPT ![p] = steps[p]] /\ pa' = At("approved", p, 1)
      BY <1>1, <1>8 DEF Approve
    <2>2. status[p] # "completed" /\ steps[p] \in StepLists
          /\ "executing" \in PlanStatus /\ "approved" \in Handler
      BY <1>1, <2>1 DEF PlanStatus, Handler
    <2> QED
      BY <1>3, <2>1, <2>2, WriterFinal
  <1>9. ASSUME NEW p \in Active, WriteCancelled(p), pa.at \in {"idle", "planning"}
        PROVE  FinalInv' /\ Stays
    <2>1. /\ status' = [status EXCEPT ![p] = "cancelled"]
          /\ steps' = steps /\ pa' = [pa EXCEPT !.at = "cancelled"]
      BY <1>9 DEF WriteCancelled
    <2>2. /\ p \in Plan /\ status[p] \in {"confirming", "executing"}
          /\ "cancelled" \in PlanStatus /\ "cancelled" \in Handler
      BY <1>1 DEF PlanStatus, Handler
    <2>3. /\ pa' = At("cancelled", r, pa.step)
          /\ r # None => r \in Plan /\ status[r] = "none"
      BY <1>2, <1>9, <2>1, <2>2, PlanAssumption DEF FinalInv, Idle
    <2>4. pa'.at = "cancelled" /\ pa'.plan = r /\ pa' = At(pa'.at, pa'.plan, pa'.step)
      BY <2>3 DEF At
    <2>5. status' \in [Plan -> PlanStatus] /\ CompletedInv'
      BY <1>1, <2>1, <2>2 DEF FinalInv, CompletedInv, AllDone
    <2>6. r # None => r \in Plan /\ status'[r] = "none"
      BY <1>1, <2>1, <2>2, <2>3
    <2>7. FinalInv'
      BY <2>1, <2>4, <2>5, <2>6 DEF FinalInv
    <2> QED
      BY <1>3, <2>1, <2>2, <2>7
  <1>10. CASE Exit
    <2>1. CASE \E p \in Active : WriteCancelled(p)
      BY <1>9, <1>10, <2>1 DEF Exit, Idle
    <2>2. CASE UNCHANGED <<files, pa>>
      BY <1>1, <2>2, HandlerFinal DEF files
    <2> QED
      BY <1>10, <2>1, <2>2 DEF Exit
  <1>11. ASSUME NEW n \in 0 .. MaxSteps, Generated(n) \/ Revised(n)
         PROVE  FinalInv' /\ Stays
    <2> DEFINE l == [s \in 1 .. n |-> "pending"]
    <2>1. /\ r \in Plan /\ status[r] # "completed"
          /\ status' = [status EXCEPT ![r] = "confirming"]
          /\ steps' = [steps EXCEPT ![r] = l]
      BY <1>1, <1>11, PlanAssumption DEF FinalInv, Generated, Revised, WritePlan
    <2>2. PICK h \in {"planned", "revised"} : pa' = At(h, r, pa.step)
      BY <1>2, <1>11 DEF Generated, Revised, Handler, At
    <2>3. "confirming" \in PlanStatus /\ h \in Handler /\ l \in StepLists
      BY NewList DEF PlanStatus, Handler
    <2> HIDE DEF l
    <2>4. Stays
      BY <1>3, <2>1
    <2>5. h \in {"planned", "revised"}
      OBVIOUS
    <2> QED
      BY <2>1, <2>2, <2>3, <2>4, <2>5, WriterFinal
  <1>12. CASE Approved
    <2>1. r \in Active /\ UNCHANGED files
      BY <1>12 DEF FinalInv, Approved, files
    <2>2. pa' = Idle \/ pa' = At("dispatching", r, 1)
      BY <1>12 DEF Approved
    <2> QED
      BY <1>1, <2>1, <2>2, HandlerFinal DEF Handler
  <1>13. CASE MarkStepRunning
    <2> DEFINE l == [steps[r] EXCEPT ![pa.step] = "running"]
    <2>1. r \in Plan /\ status[r] # "completed"
      BY <1>13 DEF FinalInv, MarkStepRunning
    <2>2. /\ status' = [status EXCEPT ![r] = status[r]]
          /\ steps' = [steps EXCEPT ![r] = l] /\ pa' = At("marked", r, pa.step)
      BY <1>1, <1>2, <1>13 DEF MarkStepRunning, Handler
    <2>3. /\ l \in StepLists /\ status[r] \in PlanStatus /\ "marked" \in Handler
      BY <1>1, <2>1, StepSet DEF StepStatus, Handler
    <2> HIDE DEF l
    <2> QED
      BY <1>3, <2>1, <2>2, <2>3, WriterFinal
  <1>14. ASSUME NEW p \in Plan, NEW s \in Step, StepDone(p, s)
         PROVE  FinalInv' /\ Stays
    <2> DEFINE l == IF s \in DOMAIN steps[p]
                    THEN [steps[p] EXCEPT ![s] = "completed"] ELSE steps[p]
    <2>1. /\ status' = [status EXCEPT ![p] = status[p]]
          /\ steps' = [steps EXCEPT ![p] = l] /\ pa' = At("stepped", p, s)
      BY <1>1, <1>14 DEF StepDone
    <2>2. l \in StepLists /\ status[p] \in PlanStatus /\ "stepped" \in Handler
      BY <1>1, StepSet DEF StepStatus, Handler
    <2>3. status[p] = "completed" => l = steps[p] /\ \A i \in DOMAIN l : l[i] = "completed"
      <3> SUFFICES ASSUME status[p] = "completed"
                   PROVE  l = steps[p] /\ \A i \in DOMAIN l : l[i] = "completed"
        OBVIOUS
      <3>1. \A i \in DOMAIN steps[p] : steps[p][i] = "completed"
        BY DEF FinalInv, CompletedInv, AllDone
      <3>2. l = steps[p]
        BY <1>1, <3>1, StepSet DEF StepStatus
      <3> QED
        BY <3>1, <3>2
    <2> HIDE DEF l
    <2>4. Stays
      BY <1>1, <2>1, <2>3 DEF Stays
    <2> QED
      BY <2>1, <2>2, <2>3, <2>4, WriterFinal
  <1>15. CASE Complete
    <2>1. /\ r \in Plan /\ AllDone(r)
          /\ status' = [status EXCEPT ![r] = "completed"]
          /\ steps' = [steps EXCEPT ![r] = steps[r]] /\ pa' = At("completed", r, pa.step)
      BY <1>1, <1>2, <1>15 DEF FinalInv, Complete, Handler
    <2>2. steps[r] \in StepLists /\ "completed" \in PlanStatus /\ "completed" \in Handler
      BY <1>1, <2>1 DEF PlanStatus, Handler
    <2>3. Stays
      BY <1>1, <2>1 DEF Stays
    <2> QED
      BY <2>1, <2>2, <2>3, WriterFinal DEF AllDone
  <1>16. CASE Proceed
    <2>1. r \in Plan /\ status[r] # "completed" /\ UNCHANGED files
      BY <1>16 DEF FinalInv, CompletedInv, Proceed, files
    <2>2. pa' = Idle \/ pa' = At("dispatching", r, NextPending(r))
      BY <1>16 DEF Proceed
    <2> QED
      BY <1>1, <2>1, <2>2, HandlerFinal DEF Handler
  <1>17. CASE Cancelled
    <2>1. UNCHANGED files /\ (pa' = Idle \/ (r # None /\ pa' = At("planning", r, pa.step)))
      BY <1>2, <1>17 DEF Cancelled, files, Handler
    <2>2. r # None => r \in Plan /\ status[r] = "none"
      BY <1>17 DEF FinalInv, Cancelled
    <2>3. CASE pa' = Idle
      BY <1>1, <2>1, <2>3, HandlerFinal
    <2>4. CASE r # None /\ pa' = At("planning", r, pa.step)
      <3>1. "planning" \in Handler
        BY DEF Handler
      <3> QED
        BY <1>1, <2>1, <2>2, <2>4, <3>1, HandlerFinal
    <2> QED
      BY <2>1, <2>3, <2>4
  <1>18. CASE UserStep
    <2>1. ASSUME NEW p \in Plan, Reject(p) \/ CliCancel(p)
          PROVE  FinalInv' /\ Stays
      <3>1. p \in Active /\ WriteCancelled(p) /\ pa.at \in {"idle", "planning"}
        BY <2>1 DEF Reject, CliCancel, Idle
      <3> QED
        BY <1>9, <3>1
    <2> QED
      BY <1>6, <1>7, <1>8, <1>10, <1>18, <2>1 DEF UserStep
  <1>20. CASE HandlerStep
    BY <1>5, <1>11, <1>12, <1>13, <1>15, <1>16, <1>17, <1>20 DEF HandlerStep
  <1>19. CASE TaskStep
    BY <1>6, <1>14, <1>19 DEF TaskStep
  <1> QED
    BY <1>4, <1>5, <1>18, <1>19, <1>20 DEF Next

\* A completed plan is final (_complete_plan): its steps stay completed too,
\* even if plans are cancelled while their steps run and modes are not written.
THEOREM CompletedPlanIsFinal == Spec => CompletedIsFinal
  <1>1. Init => FinalInv
    <2> SUFFICES ASSUME Init PROVE FinalInv
      OBVIOUS
    <2>1. pa.at = "idle" /\ pa = At(pa.at, pa.plan, pa.step)
      BY DEF Init, Idle, At
    <2>2. <<>> \in StepLists
      <3>1. <<>> \in [1 .. 0 -> StepStatus] /\ 0 \in 0 .. MaxSteps
        BY PlanBoundAssumption
      <3> QED
        BY <3>1 DEF StepLists
    <2> QED
      BY <2>1, <2>2 DEF Init, FinalInv, CompletedInv, PlanStatus
  <1>2. FinalInv /\ [Next]_vars => FinalInv'
    BY CompletedStays
  <1>3. FinalInv /\ [Next]_vars =>
          [\A p \in Plan : status[p] = "completed" =>
              AllDone(p) /\ status'[p] = "completed" /\ steps'[p] = steps[p]]_vars
    BY CompletedStays DEF FinalInv, CompletedInv, Stays
  <1> QED
    BY <1>1, <1>2, <1>3, PTL DEF Spec, CompletedIsFinal

=============================================================================
