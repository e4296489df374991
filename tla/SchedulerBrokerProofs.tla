----------------------- MODULE SchedulerBrokerProofs -----------------------
(***************************************************************************)
(* Proofs about SchedulerBroker, for any sets of sessions, tasks and       *)
(* processes: the variables keep their types, and the broker never loses   *)
(* sight of a live worker.                                                 *)
(***************************************************************************)
EXTENDS SchedulerBroker, TLAPS

-----------------------------------------------------------------------------
(* Sequences *)

\* The tail of a non-empty queue is a queue of the same messages.
LEMMA TailType ==
    ASSUME NEW S, NEW s \in Seq(S), s # <<>>
    PROVE  Tail(s) \in Seq(S) /\ Head(s) \in S
  OBVIOUS

\* So is the queue without its newest message.
LEMMA FrontType ==
    ASSUME NEW S, NEW s \in Seq(S), s # <<>>
    PROVE  SubSeq(s, 1, Len(s) - 1) \in Seq(S)
  <1>1. Len(s) \in Nat /\ Len(s) # 0
    OBVIOUS
  <1>2. \A k \in 1..(Len(s) - 1) : s[k] \in S
    BY <1>1
  <1> QED
    BY <1>1, <1>2

-----------------------------------------------------------------------------
(* Types of the parts of the broker's actions *)

\* Spawning keeps the types of what it changes.
LEMMA SpawnType ==
    ASSUME TypeOK, NEW i \in Identity, NEW p \in Proc, Spawn(i, p)
    PROVE  /\ processes' \in [Identity -> Proc \cup {None}]
           /\ owner' \in [Proc -> Identity \cup {None}]
           /\ state' \in [Proc -> AgentState]
           /\ polling' \subseteq Proc
           /\ os' \in [Proc -> {"unborn", "alive", "exited"}]
  BY DEF TypeOK, Spawn, AgentState

\* Sending a request keeps the types of what it changes.
LEMMA SendType ==
    ASSUME TypeOK, NEW i \in Identity, NEW m \in Request, Send(i, m)
    PROVE  inbox' \in [Proc -> Seq(Request)]
  BY DEF TypeOK, Send, Peer

\* Marking an entry RUNNING keeps the types of what it changes.
LEMMA MarkRunningType ==
    ASSUME TypeOK, NEW i \in Identity, MarkRunning(i)
    PROVE  /\ state' \in [Proc -> AgentState]
           /\ since' \in [Proc -> {"zero", "recent", "over"}]
           /\ age' \in [Proc -> {"fresh", "old", "idle"}]
  <1> DEFINE r == processes[i]
  <1>1. r \in Proc \cup {None}
    BY DEF TypeOK
  <1>2. CASE r # None /\ state[r] = "idle"
    <2>1. /\ state' = [state EXCEPT ![r] = "running"]
          /\ since' = [since EXCEPT ![r] = "recent"]
          /\ age' = [age EXCEPT ![r] = "fresh"]
      BY <1>2 DEF MarkRunning
    <2>2. "running" \in AgentState
      BY DEF AgentState
    <2> HIDE DEF r
    <2> QED
      BY <1>1, <2>1, <2>2 DEF TypeOK
  <1>3. CASE ~(r # None /\ state[r] = "idle")
    BY <1>3 DEF TypeOK, MarkRunning
  <1> QED
    BY <1>2, <1>3

\* Marking an entry IDLE keeps the types of what it changes.
LEMMA MarkIdleType ==
    ASSUME TypeOK, NEW i \in Identity, NEW refresh \in BOOLEAN, MarkIdle(i, refresh)
    PROVE  /\ state' \in [Proc -> AgentState]
           /\ since' \in [Proc -> {"zero", "recent", "over"}]
           /\ age' \in [Proc -> {"fresh", "old", "idle"}]
  <1> DEFINE r == processes[i]
  <1>1. r \in Proc \cup {None}
    BY DEF TypeOK
  <1>2. CASE r # None /\ state[r] = "running"
    <2>1. /\ state' = [state EXCEPT ![r] = "idle"]
          /\ since' = [since EXCEPT ![r] = "zero"]
          /\ age' = [age EXCEPT ![r] = "fresh"]
      BY <1>2 DEF MarkIdle
    <2>2. "idle" \in AgentState
      BY DEF AgentState
    <2> HIDE DEF r
    <2> QED
      BY <1>1, <2>1, <2>2 DEF TypeOK
  <1>3. CASE ~(r # None /\ state[r] = "running")
    BY <1>1, <1>3 DEF TypeOK, MarkIdle
  <1> QED
    BY <1>2, <1>3

\* Ending processes keeps the types of what it changes.
LEMMA KillType ==
    ASSUME TypeOK, NEW S, Kill(S)
    PROVE  /\ os' \in [Proc -> {"unborn", "alive", "exited"}]
           /\ inbox' \in [Proc -> Seq(Request)]
           /\ busy' \in [Proc -> BOOLEAN]
  BY DEF TypeOK, Kill

\* So does stopping them.
LEMMA StopAllType ==
    ASSUME TypeOK, NEW S, StopAll(S)
    PROVE  /\ os' \in [Proc -> {"unborn", "alive", "exited"}]
           /\ inbox' \in [Proc -> Seq(Request)]
           /\ busy' \in [Proc -> BOOLEAN]
           /\ state' \in [Proc -> AgentState]
           /\ age' \in [Proc -> {"fresh", "old", "idle"}]
  BY KillType DEF TypeOK, StopAll, AgeOnceStopped, AgentState, Terminal

-----------------------------------------------------------------------------
(* What a message can change *)

\* A message from p changes the recorded state of one entry at most, the one
\* registered under the identity of p, and makes it IDLE.
LEMMA MessageEffect ==
    ASSUME IInv, NEW p \in Proc, RouterReceive(p) \/ ProxyEvent(p)
    PROVE  \A q \in Proc :
              \/ state'[q] = state[q] /\ since'[q] = since[q]
              \/ state'[q] = "idle" /\ q = processes[owner[p]]
  <1> DEFINE r == processes[owner[p]]
  <1>1. \/ HandleRegister(owner[p]) \/ HandleHeartbeat(owner[p])
        \/ MarkIdle(owner[p], TRUE) \/ MarkIdle(owner[p], FALSE)
        \/ UNCHANGED <<state, since>>
    BY DEF RouterReceive, ProxyEvent
  <1>2. CASE HandleRegister(owner[p])
    <2>1. (state' = [state EXCEPT ![r] = "idle"] \/ UNCHANGED state) /\ UNCHANGED since
      BY <1>2 DEF HandleRegister
    <2> HIDE DEF r
    <2>2. \A q \in Proc : state'[q] = state[q] \/ (state'[q] = "idle" /\ q = r)
      BY <2>1 DEF IInv, TypeOK
    <2> QED
      BY <2>1, <2>2 DEF r
  <1>3. CASE HandleHeartbeat(owner[p]) \/ UNCHANGED <<state, since>>
    BY <1>3 DEF HandleHeartbeat
  <1>4. CASE MarkIdle(owner[p], TRUE) \/ MarkIdle(owner[p], FALSE)
    <2>1. \/ /\ state' = [state EXCEPT ![r] = "idle"]
             /\ since' = [since EXCEPT ![r] = "zero"]
          \/ UNCHANGED <<state, since>>
      BY <1>4 DEF MarkIdle
    <2> HIDE DEF r
    <2>2. \A q \in Proc : \/ state'[q] = state[q] /\ since'[q] = since[q]
                          \/ state'[q] = "idle" /\ q = r
      BY <2>1 DEF IInv, TypeOK
    <2> QED
      BY <2>2 DEF r
  <1> QED
    BY <1>1, <1>2, <1>3, <1>4

\* Marking an entry RUNNING changes an IDLE entry or nothing.
LEMMA MarkRunningEffect ==
    ASSUME TypeOK, NEW i \in Identity, MarkRunning(i)
    PROVE  \A q \in Proc :
              \/ state'[q] = state[q] /\ since'[q] = since[q]
              \/ state[q] = "idle" /\ state'[q] = "running" /\ since'[q] = "recent"
  <1> DEFINE r == processes[i]
  <1>1. \/ /\ state[r] = "idle"
           /\ state' = [state EXCEPT ![r] = "running"]
           /\ since' = [since EXCEPT ![r] = "recent"]
        \/ UNCHANGED <<state, since>>
    BY DEF MarkRunning
  <1>2. state \in [Proc -> AgentState] /\ since \in [Proc -> {"zero", "recent", "over"}]
    BY DEF TypeOK
  <1> HIDE DEF r
  <1> QED
    BY <1>1, <1>2


-----------------------------------------------------------------------------
(* Every step keeps the types *)

\* Every step keeps the types of the variables.
LEMMA TypeStep ==
    ASSUME IInv, [Next]_vars
    PROVE  TypeOK'
  <1> USE IdentityAssumption DEF IInv, Identity
  <1>1. CASE StartCron
    BY <1>1, SpawnType DEF TypeOK, StartCron, Unborn, netVars
  <1>2. ASSUME NEW i \in PAs, EnsurePAFound(i) PROVE TypeOK'
    BY <1>2 DEF TypeOK, EnsurePAFound, Live, workerVars, netVars
  <1>3. ASSUME NEW i \in PAs, EnsurePASpawns(i) PROVE TypeOK'
    BY <1>3, SpawnType DEF TypeOK, EnsurePASpawns, Unborn, netVars
  <1>4. ASSUME NEW i \in PAs, ChatRefused(i) PROVE TypeOK'
    BY <1>4 DEF TypeOK, ChatRefused, AgentState, Terminal, workerVars, netVars
  <1>5. ASSUME NEW i \in PAs, ChatForwarded(i) PROVE TypeOK'
    BY <1>5, SendType, MarkRunningType DEF TypeOK, ChatForwarded, Request
  <1>6. ASSUME NEW i \in Subs, DispatchSub(i) PROVE TypeOK'
    BY <1>6, SpawnType DEF TypeOK, DispatchSub, Unborn, netVars
  <1>7. ASSUME NEW i \in Stoppable, StopAgent(i) PROVE TypeOK'
    BY <1>7, StopAllType DEF TypeOK, StopAgent, netVars
  <1>8. ASSUME NEW p \in Proc, Connect(p) PROVE TypeOK'
    BY <1>8 DEF TypeOK, Connect, brokerVars, netVars
  <1>9. ASSUME NEW p \in Proc, Register(p) PROVE TypeOK'
    BY <1>9 DEF TypeOK, Register, SendMail, Mail, brokerVars
  <1>10. ASSUME NEW p \in Proc, Heartbeat(p) PROVE TypeOK'
    BY <1>10 DEF TypeOK, Heartbeat, SendMail, Mail, brokerVars, workerVars
  <1>11. ASSUME NEW p \in Proc, Begin(p) PROVE TypeOK'
    BY <1>11, TailType DEF TypeOK, Begin, brokerVars, netVars
  <1>12. ASSUME NEW p \in Proc, FinishChat(p) PROVE TypeOK'
    <2>1. CASE UNCHANGED events
      BY <1>12, <2>1 DEF TypeOK, FinishChat, brokerVars
    <2>2. ASSUME NEW e \in Event, events' = [events EXCEPT ![p] = Append(@, e)]
          PROVE  TypeOK'
      BY <1>12, <2>2 DEF TypeOK, FinishChat, brokerVars
    <2> QED
      BY <1>12, <2>1, <2>2 DEF FinishChat
  <1>13. ASSUME NEW p \in Proc, FinishTask(p) PROVE TypeOK'
    BY <1>13 DEF TypeOK, FinishTask, SendMail, Mail, brokerVars
  <1>14. ASSUME NEW p \in Proc, Crash(p) PROVE TypeOK'
    BY <1>14, KillType DEF TypeOK, Crash, brokerVars, netVars
  <1>15. ASSUME NEW p \in Proc, LoseTail(p) PROVE TypeOK'
    <2>1. mail[p] \in Seq(Mail) /\ events[p] \in Seq(Event)
      BY DEF TypeOK
    <2>2. mail' \in [Proc -> Seq(Mail)]
      <3>1. mail[p] # <<>> => SubSeq(mail[p], 1, Len(mail[p]) - 1) \in Seq(Mail)
        BY <2>1, FrontType
      <3>0. mail \in [Proc -> Seq(Mail)]
        BY DEF TypeOK
      <3>2. \/ mail' = mail
            \/ /\ mail[p] # <<>>
               /\ mail' = [mail EXCEPT ![p] = SubSeq(mail[p], 1, Len(mail[p]) - 1)]
        BY <1>15 DEF LoseTail
      <3> QED
        BY <3>0, <3>1, <3>2
    <2>3. events' \in [Proc -> Seq(Event)]
      <3>1. events[p] # <<>> => SubSeq(events[p], 1, Len(events[p]) - 1) \in Seq(Event)
        BY <2>1, FrontType
      <3>0. events \in [Proc -> Seq(Event)]
        BY DEF TypeOK
      <3>2. \/ events' = events
            \/ /\ events[p] # <<>>
               /\ events' = [events EXCEPT ![p] = SubSeq(events[p], 1, Len(events[p]) - 1)]
        BY <1>15 DEF LoseTail
      <3> QED
        BY <3>0, <3>1, <3>2
    <2> QED
      BY <1>15, <2>2, <2>3 DEF TypeOK, LoseTail, brokerVars, workerVars
  <1>16. ASSUME NEW p \in Proc, PollCrashed(p) PROVE TypeOK'
    BY <1>16 DEF TypeOK, PollCrashed, AgentState, Terminal, workerVars, netVars
  <1>17. ASSUME NEW p \in Proc, PollDone(p) PROVE TypeOK'
    BY <1>17, SendType, MarkRunningType DEF TypeOK, PollDone, Request
  <1>18. ASSUME NEW p \in Proc, RouterReceive(p) PROVE TypeOK'
    <2>1. mail[p] \in Seq(Mail) /\ mail[p] # <<>> /\ os[p] # "unborn"
      BY <1>18 DEF TypeOK, RouterReceive, SpawnedHasOwner
    <2>2. owner[p] \in Identity /\ processes[owner[p]] \in Proc \cup {None}
      BY <2>1 DEF TypeOK, SpawnedHasOwner
    <2>3. mail' \in [Proc -> Seq(Mail)]
      BY <1>18, <2>1, TailType DEF TypeOK, RouterReceive
    <2>4. /\ state' \in [Proc -> AgentState]
          /\ since' \in [Proc -> {"zero", "recent", "over"}]
          /\ age' \in [Proc -> {"fresh", "old", "idle"}]
      <3>1. CASE HandleRegister(owner[p])
        <4> DEFINE r == processes[owner[p]]
        <4>1. /\ state' = state \/ (r # None /\ state' = [state EXCEPT ![r] = "idle"])
              /\ age' = age \/ (r # None /\ age' = [age EXCEPT ![r] = "fresh"])
              /\ since' = since
          BY <3>1 DEF HandleRegister
        <4>2. r \in Proc \cup {None} /\ "idle" \in AgentState
          BY <2>2 DEF AgentState
        <4>3. /\ state \in [Proc -> AgentState]
              /\ since \in [Proc -> {"zero", "recent", "over"}]
              /\ age \in [Proc -> {"fresh", "old", "idle"}]
          BY DEF TypeOK
        <4> HIDE DEF r
        <4> QED
          BY <4>1, <4>2, <4>3
      <3>2. CASE HandleHeartbeat(owner[p])
        BY <2>2, <3>2 DEF TypeOK, HandleHeartbeat
      <3>3. CASE MarkIdle(owner[p], TRUE)
        BY <2>2, <3>3, MarkIdleType
      <3> QED
        BY <1>18, <3>1, <3>2, <3>3 DEF RouterReceive
    <2> QED
      BY <1>18, <2>3, <2>4 DEF TypeOK, RouterReceive, workerVars
  <1>19. ASSUME NEW p \in Proc, ProxyEvent(p) PROVE TypeOK'
    <2>1. events[p] \in Seq(Event) /\ events[p] # <<>> /\ os[p] # "unborn"
      BY <1>19 DEF TypeOK, ProxyEvent, SpawnedHasOwner
    <2>2. owner[p] \in Identity
      BY <2>1 DEF TypeOK, SpawnedHasOwner
    <2>3. events' \in [Proc -> Seq(Event)]
      BY <1>19, <2>1, TailType DEF TypeOK, ProxyEvent
    <2>4. /\ state' \in [Proc -> AgentState]
          /\ since' \in [Proc -> {"zero", "recent", "over"}]
          /\ age' \in [Proc -> {"fresh", "old", "idle"}]
      <3>1. CASE MarkIdle(owner[p], FALSE)
        BY <2>2, <3>1, MarkIdleType
      <3>2. CASE UNCHANGED <<state, since, age>>
        BY <3>2 DEF TypeOK
      <3> QED
        BY <1>19, <3>1, <3>2 DEF ProxyEvent
    <2> QED
      BY <1>19, <2>3, <2>4 DEF TypeOK, ProxyEvent, workerVars
  <1>20. ASSUME NEW p \in Proc, GetOlder(p) PROVE TypeOK'
    BY <1>20 DEF TypeOK, GetOlder, workerVars, netVars
  <1>21. ASSUME NEW p \in Proc, RunTooLong(p) PROVE TypeOK'
    BY <1>21 DEF TypeOK, RunTooLong, workerVars, netVars
  <1>22. ASSUME NEW p \in Proc, HealthMarksDead(p) PROVE TypeOK'
    BY <1>22 DEF TypeOK, HealthMarksDead, Visits, AgentState, Terminal, workerVars, netVars
  <1>23. ASSUME NEW p \in Proc, HealthRestartsCron(p) PROVE TypeOK'
    <2>1. ASSUME NEW q \in Unborn,
                 os' = [os EXCEPT ![q] = "alive"],
                 owner' = [owner EXCEPT ![q] = Cron],
                 state' = [state EXCEPT ![p] = "failed", ![q] = "starting"],
                 processes' = [processes EXCEPT ![Cron] = q],
                 polling' = polling \cup {q},
                 awaited' = q
          PROVE  TypeOK'
      <3>1. state' \in [Proc -> AgentState]
        BY <2>1 DEF TypeOK, AgentState, Terminal, Unborn
      <3>2. q \in Proc
        BY DEF Unborn
      <3>3. since' \in [Proc -> {"zero", "recent", "over"}] /\ todo' \subseteq Proc
        BY <1>23 DEF TypeOK, HealthRestartsCron, Visits
      <3>4. UNCHANGED <<age, phase, link, inbox, busy, mail, events>>
        BY <1>23 DEF HealthRestartsCron, netVars
      <3> QED
        BY <2>1, <3>1, <3>2, <3>3, <3>4 DEF TypeOK
    <2>2. CASE /\ state' = [state EXCEPT ![p] = "failed"]
               /\ processes' = [processes EXCEPT ![Cron] = None]
               /\ UNCHANGED <<os, owner, polling, awaited>>
      BY <1>23, <2>2 DEF TypeOK, HealthRestartsCron, Visits, AgentState, Terminal, netVars
    <2> QED
      BY <1>23, <2>1, <2>2 DEF HealthRestartsCron
  <1>24. ASSUME NEW p \in Proc, HealthStopsOverrun(p) PROVE TypeOK'
    BY <1>24, KillType DEF TypeOK, HealthStopsOverrun, Visits, AgentState, Terminal, netVars
  <1>25. ASSUME NEW p \in Proc, HealthPasses(p) PROVE TypeOK'
    BY <1>25 DEF TypeOK, HealthPasses, Visits, workerVars, netVars
  <1>26. CASE ReaperPass
    BY <1>26, KillType DEF TypeOK, ReaperPass, AgentState, AgeOnceStopped, Terminal, netVars
  <1>27. CASE HealthCheckStarts
    BY <1>27 DEF TypeOK, HealthCheckStarts, Registered, workerVars, netVars
  <1>28. CASE Stop
    BY <1>28, StopAllType DEF TypeOK, Stop, netVars
  <1>29. CASE ExitProcess
    BY <1>29, StopAllType DEF TypeOK, ExitProcess, netVars
  <1>30. CASE UNCHANGED vars
    BY <1>30 DEF TypeOK, vars
  <1> QED
    BY <1>1, <1>2, <1>3, <1>4, <1>5, <1>6, <1>7, <1>8, <1>9, <1>10, <1>11, <1>12, <1>13, <1>14, <1>15, <1>16, <1>17, <1>18, <1>19, <1>20, <1>21, <1>22, <1>23, <1>24, <1>25, <1>26, <1>27, <1>28, <1>29, <1>30
    DEF Next, RequestStep, WorkerStep, LoopStep, HealthVisit


-----------------------------------------------------------------------------
(* Every step keeps the other parts of the invariant *)

\* Every step keeps processes without an owner out of the broker's hands.
LEMMA SpawnedStep ==
    ASSUME IInv, [Next]_vars
    PROVE  SpawnedHasOwner'
  <1> USE IdentityAssumption DEF IInv, Identity
  <1>1. CASE StartCron
    BY <1>1 DEF SpawnedHasOwner, TypeOK, Registered, StartCron, Spawn, Unborn, netVars
  <1>2. ASSUME NEW i \in PAs, EnsurePAFound(i) PROVE SpawnedHasOwner'
    BY <1>2 DEF SpawnedHasOwner, TypeOK, Registered, EnsurePAFound, workerVars, netVars
  <1>3. ASSUME NEW i \in PAs, EnsurePASpawns(i) PROVE SpawnedHasOwner'
    BY <1>3 DEF SpawnedHasOwner, TypeOK, Registered, EnsurePASpawns, Live, Spawn, Unborn, netVars
  <1>4. ASSUME NEW i \in PAs, ChatRefused(i) PROVE SpawnedHasOwner'
    BY <1>4 DEF SpawnedHasOwner, TypeOK, Registered, ChatRefused, Live, workerVars, netVars
  <1>5. ASSUME NEW i \in PAs, ChatForwarded(i) PROVE SpawnedHasOwner'
    BY <1>5 DEF SpawnedHasOwner, TypeOK, Registered, ChatForwarded, MarkRunning
  <1>6. ASSUME NEW i \in Subs, DispatchSub(i) PROVE SpawnedHasOwner'
    BY <1>6 DEF SpawnedHasOwner, TypeOK, Registered, DispatchSub, Spawn, Unborn, netVars
  <1>7. ASSUME NEW i \in Stoppable, StopAgent(i) PROVE SpawnedHasOwner'
    BY <1>7 DEF SpawnedHasOwner, TypeOK, Registered, StopAgent, StopAll, Kill, netVars
  <1>8. ASSUME NEW p \in Proc, Connect(p) PROVE SpawnedHasOwner'
    BY <1>8 DEF SpawnedHasOwner, TypeOK, Registered, Connect, brokerVars, netVars
  <1>9. ASSUME NEW p \in Proc, Register(p) PROVE SpawnedHasOwner'
    BY <1>9 DEF SpawnedHasOwner, TypeOK, Registered, Register, SendMail, brokerVars
  <1>10. ASSUME NEW p \in Proc, Heartbeat(p) PROVE SpawnedHasOwner'
    BY <1>10 DEF SpawnedHasOwner, TypeOK, Registered, Heartbeat, SendMail, brokerVars, workerVars
  <1>11. ASSUME NEW p \in Proc, Begin(p) PROVE SpawnedHasOwner'
    BY <1>11 DEF SpawnedHasOwner, TypeOK, Registered, Begin, brokerVars, netVars
  <1>12. ASSUME NEW p \in Proc, FinishChat(p) PROVE SpawnedHasOwner'
    BY <1>12 DEF SpawnedHasOwner, TypeOK, Registered, FinishChat, brokerVars
  <1>13. ASSUME NEW p \in Proc, FinishTask(p) PROVE SpawnedHasOwner'
    BY <1>13 DEF SpawnedHasOwner, TypeOK, Registered, FinishTask, SendMail, brokerVars
  <1>14. ASSUME NEW p \in Proc, Crash(p) PROVE SpawnedHasOwner'
    BY <1>14 DEF SpawnedHasOwner, TypeOK, Registered, Crash, Kill, brokerVars, netVars
  <1>15. ASSUME NEW p \in Proc, LoseTail(p) PROVE SpawnedHasOwner'
    BY <1>15 DEF SpawnedHasOwner, TypeOK, Registered, LoseTail, brokerVars, workerVars
  <1>16. ASSUME NEW p \in Proc, PollCrashed(p) PROVE SpawnedHasOwner'
    BY <1>16 DEF SpawnedHasOwner, TypeOK, Registered, PollCrashed, workerVars, netVars
  <1>17. ASSUME NEW p \in Proc, PollDone(p) PROVE SpawnedHasOwner'
    BY <1>17 DEF SpawnedHasOwner, TypeOK, Registered, PollDone, MarkRunning
  <1>18. ASSUME NEW p \in Proc, RouterReceive(p) PROVE SpawnedHasOwner'
    BY <1>18 DEF SpawnedHasOwner, TypeOK, Registered, RouterReceive, HandleRegister, HandleHeartbeat, MarkIdle, workerVars
  <1>19. ASSUME NEW p \in Proc, ProxyEvent(p) PROVE SpawnedHasOwner'
    BY <1>19 DEF SpawnedHasOwner, TypeOK, Registered, ProxyEvent, MarkIdle, workerVars
  <1>20. ASSUME NEW p \in Proc, GetOlder(p) PROVE SpawnedHasOwner'
    BY <1>20 DEF SpawnedHasOwner, TypeOK, Registered, GetOlder, workerVars, netVars
  <1>21. ASSUME NEW p \in Proc, RunTooLong(p) PROVE SpawnedHasOwner'
    BY <1>21 DEF SpawnedHasOwner, TypeOK, Registered, RunTooLong, workerVars, netVars
  <1>22. ASSUME NEW p \in Proc, HealthMarksDead(p) PROVE SpawnedHasOwner'
    BY <1>22 DEF SpawnedHasOwner, TypeOK, Registered, HealthMarksDead, Visits, Dies, workerVars, netVars
  <1>23. ASSUME NEW p \in Proc, HealthRestartsCron(p) PROVE SpawnedHasOwner'
    BY <1>23 DEF SpawnedHasOwner, TypeOK, Registered, HealthRestartsCron, Visits, Dies, Unborn, netVars
  <1>24. ASSUME NEW p \in Proc, HealthStopsOverrun(p) PROVE SpawnedHasOwner'
    BY <1>24 DEF SpawnedHasOwner, TypeOK, Registered, HealthStopsOverrun, Visits, Kill, netVars
  <1>25. ASSUME NEW p \in Proc, HealthPasses(p) PROVE SpawnedHasOwner'
    BY <1>25 DEF SpawnedHasOwner, TypeOK, Registered, HealthPasses, Visits, workerVars, netVars
  <1>26. CASE ReaperPass
    BY <1>26 DEF SpawnedHasOwner, TypeOK, Registered, ReaperPass, Kill, Reapable, netVars
  <1>27. CASE HealthCheckStarts
    BY <1>27 DEF SpawnedHasOwner, TypeOK, Registered, HealthCheckStarts, workerVars, netVars
  <1>28. CASE Stop
    BY <1>28 DEF SpawnedHasOwner, TypeOK, Registered, Stop, StopAll, Kill, netVars
  <1>29. CASE ExitProcess
    BY <1>29 DEF SpawnedHasOwner, TypeOK, Registered, ExitProcess, StopAll, Kill, netVars
  <1>30. CASE UNCHANGED vars
    BY <1>30 DEF SpawnedHasOwner, TypeOK, Registered, vars
  <1> QED
    BY <1>1, <1>2, <1>3, <1>4, <1>5, <1>6, <1>7, <1>8, <1>9, <1>10, <1>11, <1>12, <1>13, <1>14, <1>15, <1>16, <1>17, <1>18, <1>19, <1>20, <1>21, <1>22, <1>23, <1>24, <1>25, <1>26, <1>27, <1>28, <1>29, <1>30
    DEF Next, RequestStep, WorkerStep, LoopStep, HealthVisit

\* Every step keeps the registry and the live workers in agreement.
LEMMA RegistryStep ==
    ASSUME IInv, [Next]_vars
    PROVE  EntryIsOwned' /\ NoOrphan'
  <1> USE IdentityAssumption DEF IInv, Identity
  <1>1. CASE StartCron
    BY <1>1 DEF SpawnedHasOwner, EntryIsOwned, NoOrphan, Registered, TypeOK, TerminalIsDead, CronCopyIsCurrent, Terminal, StartCron, Spawn, Unborn, netVars
  <1>2. ASSUME NEW i \in PAs, EnsurePAFound(i) PROVE EntryIsOwned' /\ NoOrphan'
    BY <1>2 DEF SpawnedHasOwner, EntryIsOwned, NoOrphan, Registered, TypeOK, TerminalIsDead, CronCopyIsCurrent, Terminal, EnsurePAFound, workerVars, netVars
  <1>3. ASSUME NEW i \in PAs, EnsurePASpawns(i) PROVE EntryIsOwned' /\ NoOrphan'
    BY <1>3 DEF SpawnedHasOwner, EntryIsOwned, NoOrphan, Registered, TypeOK, TerminalIsDead, CronCopyIsCurrent, Terminal, EnsurePASpawns, Live, Spawn, Unborn, netVars
  <1>4. ASSUME NEW i \in PAs, ChatRefused(i) PROVE EntryIsOwned' /\ NoOrphan'
    BY <1>4 DEF SpawnedHasOwner, EntryIsOwned, NoOrphan, Registered, TypeOK, TerminalIsDead, CronCopyIsCurrent, Terminal, ChatRefused, Live, workerVars, netVars
  <1>5. ASSUME NEW i \in PAs, ChatForwarded(i) PROVE EntryIsOwned' /\ NoOrphan'
    BY <1>5 DEF SpawnedHasOwner, EntryIsOwned, NoOrphan, Registered, TypeOK, TerminalIsDead, CronCopyIsCurrent, Terminal, ChatForwarded, MarkRunning
  <1>6. ASSUME NEW i \in Subs, DispatchSub(i) PROVE EntryIsOwned' /\ NoOrphan'
    BY <1>6 DEF SpawnedHasOwner, EntryIsOwned, NoOrphan, Registered, TypeOK, TerminalIsDead, CronCopyIsCurrent, Terminal, DispatchSub, Spawn, Unborn, netVars
  <1>7. ASSUME NEW i \in Stoppable, StopAgent(i) PROVE EntryIsOwned' /\ NoOrphan'
    BY <1>7 DEF SpawnedHasOwner, EntryIsOwned, NoOrphan, Registered, TypeOK, TerminalIsDead, CronCopyIsCurrent, Terminal, StopAgent, StopAll, Kill, netVars
  <1>8. ASSUME NEW p \in Proc, Connect(p) PROVE EntryIsOwned' /\ NoOrphan'
    BY <1>8 DEF SpawnedHasOwner, EntryIsOwned, NoOrphan, Registered, TypeOK, TerminalIsDead, CronCopyIsCurrent, Terminal, Connect, brokerVars, netVars
  <1>9. ASSUME NEW p \in Proc, Register(p) PROVE EntryIsOwned' /\ NoOrphan'
    BY <1>9 DEF SpawnedHasOwner, EntryIsOwned, NoOrphan, Registered, TypeOK, TerminalIsDead, CronCopyIsCurrent, Terminal, Register, SendMail, brokerVars
  <1>10. ASSUME NEW p \in Proc, Heartbeat(p) PROVE EntryIsOwned' /\ NoOrphan'
    BY <1>10 DEF SpawnedHasOwner, EntryIsOwned, NoOrphan, Registered, TypeOK, TerminalIsDead, CronCopyIsCurrent, Terminal, Heartbeat, SendMail, brokerVars, workerVars
  <1>11. ASSUME NEW p \in Proc, Begin(p) PROVE EntryIsOwned' /\ NoOrphan'
    BY <1>11 DEF SpawnedHasOwner, EntryIsOwned, NoOrphan, Registered, TypeOK, TerminalIsDead, CronCopyIsCurrent, Terminal, Begin, brokerVars, netVars
  <1>12. ASSUME NEW p \in Proc, FinishChat(p) PROVE EntryIsOwned' /\ NoOrphan'
    BY <1>12 DEF SpawnedHasOwner, EntryIsOwned, NoOrphan, Registered, TypeOK, TerminalIsDead, CronCopyIsCurrent, Terminal, FinishChat, brokerVars
  <1>13. ASSUME NEW p \in Proc, FinishTask(p) PROVE EntryIsOwned' /\ NoOrphan'
    BY <1>13 DEF SpawnedHasOwner, EntryIsOwned, NoOrphan, Registered, TypeOK, TerminalIsDead, CronCopyIsCurrent, Terminal, FinishTask, SendMail, brokerVars
  <1>14. ASSUME NEW p \in Proc, Crash(p) PROVE EntryIsOwned' /\ NoOrphan'
    BY <1>14 DEF SpawnedHasOwner, EntryIsOwned, NoOrphan, Registered, TypeOK, TerminalIsDead, CronCopyIsCurrent, Terminal, Crash, Kill, brokerVars, netVars
  <1>15. ASSUME NEW p \in Proc, LoseTail(p) PROVE EntryIsOwned' /\ NoOrphan'
    BY <1>15 DEF SpawnedHasOwner, EntryIsOwned, NoOrphan, Registered, TypeOK, TerminalIsDead, CronCopyIsCurrent, Terminal, LoseTail, brokerVars, workerVars
  <1>16. ASSUME NEW p \in Proc, PollCrashed(p) PROVE EntryIsOwned' /\ NoOrphan'
    BY <1>16 DEF SpawnedHasOwner, EntryIsOwned, NoOrphan, Registered, TypeOK, TerminalIsDead, CronCopyIsCurrent, Terminal, PollCrashed, workerVars, netVars
  <1>17. ASSUME NEW p \in Proc, PollDone(p) PROVE EntryIsOwned' /\ NoOrphan'
    BY <1>17 DEF SpawnedHasOwner, EntryIsOwned, NoOrphan, Registered, TypeOK, TerminalIsDead, CronCopyIsCurrent, Terminal, PollDone, MarkRunning
  <1>18. ASSUME NEW p \in Proc, RouterReceive(p) PROVE EntryIsOwned' /\ NoOrphan'
    BY <1>18 DEF SpawnedHasOwner, EntryIsOwned, NoOrphan, Registered, TypeOK, TerminalIsDead, CronCopyIsCurrent, Terminal, RouterReceive, HandleRegister, HandleHeartbeat, MarkIdle, workerVars
  <1>19. ASSUME NEW p \in Proc, ProxyEvent(p) PROVE EntryIsOwned' /\ NoOrphan'
    BY <1>19 DEF SpawnedHasOwner, EntryIsOwned, NoOrphan, Registered, TypeOK, TerminalIsDead, CronCopyIsCurrent, Terminal, ProxyEvent, MarkIdle, workerVars
  <1>20. ASSUME NEW p \in Proc, GetOlder(p) PROVE EntryIsOwned' /\ NoOrphan'
    BY <1>20 DEF SpawnedHasOwner, EntryIsOwned, NoOrphan, Registered, TypeOK, TerminalIsDead, CronCopyIsCurrent, Terminal, GetOlder, workerVars, netVars
  <1>21. ASSUME NEW p \in Proc, RunTooLong(p) PROVE EntryIsOwned' /\ NoOrphan'
    BY <1>21 DEF SpawnedHasOwner, EntryIsOwned, NoOrphan, Registered, TypeOK, TerminalIsDead, CronCopyIsCurrent, Terminal, RunTooLong, workerVars, netVars
  <1>22. ASSUME NEW p \in Proc, HealthMarksDead(p) PROVE EntryIsOwned' /\ NoOrphan'
    BY <1>22 DEF SpawnedHasOwner, EntryIsOwned, NoOrphan, Registered, TypeOK, TerminalIsDead, CronCopyIsCurrent, Terminal, HealthMarksDead, Visits, Dies, workerVars, netVars
  <1>23. ASSUME NEW p \in Proc, HealthRestartsCron(p) PROVE EntryIsOwned' /\ NoOrphan'
    BY <1>23 DEF SpawnedHasOwner, EntryIsOwned, NoOrphan, Registered, TypeOK, TerminalIsDead, CronCopyIsCurrent, Terminal, HealthRestartsCron, Visits, Dies, Unborn, netVars
  <1>24. ASSUME NEW p \in Proc, HealthStopsOverrun(p) PROVE EntryIsOwned' /\ NoOrphan'
    BY <1>24 DEF SpawnedHasOwner, EntryIsOwned, NoOrphan, Registered, TypeOK, TerminalIsDead, CronCopyIsCurrent, Terminal, HealthStopsOverrun, Visits, Kill, netVars
  <1>25. ASSUME NEW p \in Proc, HealthPasses(p) PROVE EntryIsOwned' /\ NoOrphan'
    BY <1>25 DEF SpawnedHasOwner, EntryIsOwned, NoOrphan, Registered, TypeOK, TerminalIsDead, CronCopyIsCurrent, Terminal, HealthPasses, Visits, workerVars, netVars
  <1>26. CASE ReaperPass
    <2>1. ASSUME NEW q \in Proc, os'[q] = "alive"
          PROVE  os[q] = "alive" /\ state'[q] = state[q]
      <3>1. os[q] = "alive"
        BY <1>26, <2>1 DEF ReaperPass, Kill, TypeOK
      <3>2. ~(q \in Reapable /\ IdleExpired(q))
        BY <1>26, <2>1, <3>1 DEF ReaperPass, Kill, TypeOK
      <3> QED
        BY <1>26, <3>1, <3>2 DEF ReaperPass, TypeOK
    <2>2. ASSUME NEW q \in Proc, os'[q] = "alive"
          PROVE  owner'[q] # None /\ processes'[owner'[q]] = q
      <3>1. /\ os[q] = "alive" /\ owner[q] # None /\ processes[owner[q]] = q
            /\ state'[q] \notin Terminal
        BY <2>1, <2>2 DEF NoOrphan, Registered, TerminalIsDead
      <3>2. owner' = owner /\ owner[q] \in Identity
        BY <1>26, <3>1 DEF ReaperPass, TypeOK
      <3> QED
        BY <1>26, <3>1, <3>2 DEF ReaperPass
    <2>3. \A i \in Identity : processes'[i] # None => processes'[i] = processes[i]
      BY <1>26 DEF ReaperPass
    <2>4. EntryIsOwned'
      BY <1>26, <2>3 DEF EntryIsOwned, ReaperPass
    <2> QED
      BY <2>2, <2>4 DEF NoOrphan, Registered
  <1>27. CASE HealthCheckStarts
    BY <1>27 DEF SpawnedHasOwner, EntryIsOwned, NoOrphan, Registered, TypeOK, TerminalIsDead, CronCopyIsCurrent, Terminal, HealthCheckStarts, workerVars, netVars
  <1>28. CASE Stop
    BY <1>28 DEF SpawnedHasOwner, EntryIsOwned, NoOrphan, Registered, TypeOK, TerminalIsDead, CronCopyIsCurrent, Terminal, Stop, StopAll, Kill, netVars
  <1>29. CASE ExitProcess
    BY <1>29 DEF SpawnedHasOwner, EntryIsOwned, NoOrphan, Registered, TypeOK, TerminalIsDead, CronCopyIsCurrent, Terminal, ExitProcess, StopAll, Kill, netVars
  <1>30. CASE UNCHANGED vars
    BY <1>30 DEF SpawnedHasOwner, EntryIsOwned, NoOrphan, Registered, TypeOK, TerminalIsDead, CronCopyIsCurrent, Terminal, vars
  <1> QED
    BY <1>1, <1>2, <1>3, <1>4, <1>5, <1>6, <1>7, <1>8, <1>9, <1>10, <1>11, <1>12, <1>13, <1>14, <1>15, <1>16, <1>17, <1>18, <1>19, <1>20, <1>21, <1>22, <1>23, <1>24, <1>25, <1>26, <1>27, <1>28, <1>29, <1>30
    DEF Next, RequestStep, WorkerStep, LoopStep, HealthVisit

\* No step shows a live process STOPPED or FAILED.
LEMMA TerminalStep ==
    ASSUME IInv, [Next]_vars
    PROVE  TerminalIsDead'
  <1> USE IdentityAssumption DEF IInv, Identity
  <1>1. CASE StartCron
    BY <1>1 DEF TypeOK, Terminal, SpawnedHasOwner, EntryIsOwned, NoOrphan, Registered, TerminalIsDead, StartCron, Spawn, Unborn, netVars
  <1>2. ASSUME NEW i \in PAs, EnsurePAFound(i) PROVE TerminalIsDead'
    BY <1>2 DEF TypeOK, Terminal, SpawnedHasOwner, EntryIsOwned, NoOrphan, Registered, TerminalIsDead, EnsurePAFound, workerVars, netVars
  <1>3. ASSUME NEW i \in PAs, EnsurePASpawns(i) PROVE TerminalIsDead'
    BY <1>3 DEF TypeOK, Terminal, SpawnedHasOwner, EntryIsOwned, NoOrphan, Registered, TerminalIsDead, EnsurePASpawns, Live, Spawn, Unborn, netVars
  <1>4. ASSUME NEW i \in PAs, ChatRefused(i) PROVE TerminalIsDead'
    BY <1>4 DEF TypeOK, Terminal, SpawnedHasOwner, EntryIsOwned, NoOrphan, Registered, TerminalIsDead, ChatRefused, Live, workerVars, netVars
  <1>5. ASSUME NEW i \in PAs, ChatForwarded(i) PROVE TerminalIsDead'
    BY <1>5 DEF TypeOK, Terminal, SpawnedHasOwner, EntryIsOwned, NoOrphan, Registered, TerminalIsDead, ChatForwarded, MarkRunning
  <1>6. ASSUME NEW i \in Subs, DispatchSub(i) PROVE TerminalIsDead'
    BY <1>6 DEF TypeOK, Terminal, SpawnedHasOwner, EntryIsOwned, NoOrphan, Registered, TerminalIsDead, DispatchSub, Spawn, Unborn, netVars
  <1>7. ASSUME NEW i \in Stoppable, StopAgent(i) PROVE TerminalIsDead'
    BY <1>7 DEF TypeOK, Terminal, SpawnedHasOwner, EntryIsOwned, NoOrphan, Registered, TerminalIsDead, StopAgent, StopAll, Kill, netVars
  <1>8. ASSUME NEW p \in Proc, Connect(p) PROVE TerminalIsDead'
    BY <1>8 DEF TypeOK, Terminal, SpawnedHasOwner, EntryIsOwned, NoOrphan, Registered, TerminalIsDead, Connect, brokerVars, netVars
  <1>9. ASSUME NEW p \in Proc, Register(p) PROVE TerminalIsDead'
    BY <1>9 DEF TypeOK, Terminal, SpawnedHasOwner, EntryIsOwned, NoOrphan, Registered, TerminalIsDead, Register, SendMail, brokerVars
  <1>10. ASSUME NEW p \in Proc, Heartbeat(p) PROVE TerminalIsDead'
    BY <1>10 DEF TypeOK, Terminal, SpawnedHasOwner, EntryIsOwned, NoOrphan, Registered, TerminalIsDead, Heartbeat, SendMail, brokerVars, workerVars
  <1>11. ASSUME NEW p \in Proc, Begin(p) PROVE TerminalIsDead'
    BY <1>11 DEF TypeOK, Terminal, SpawnedHasOwner, EntryIsOwned, NoOrphan, Registered, TerminalIsDead, Begin, brokerVars, netVars
  <1>12. ASSUME NEW p \in Proc, FinishChat(p) PROVE TerminalIsDead'
    BY <1>12 DEF TypeOK, Terminal, SpawnedHasOwner, EntryIsOwned, NoOrphan, Registered, TerminalIsDead, FinishChat, brokerVars
  <1>13. ASSUME NEW p \in Proc, FinishTask(p) PROVE TerminalIsDead'
    BY <1>13 DEF TypeOK, Terminal, SpawnedHasOwner, EntryIsOwned, NoOrphan, Registered, TerminalIsDead, FinishTask, SendMail, brokerVars
  <1>14. ASSUME NEW p \in Proc, Crash(p) PROVE TerminalIsDead'
    BY <1>14 DEF TypeOK, Terminal, SpawnedHasOwner, EntryIsOwned, NoOrphan, Registered, TerminalIsDead, Crash, Kill, brokerVars, netVars
  <1>15. ASSUME NEW p \in Proc, LoseTail(p) PROVE TerminalIsDead'
    BY <1>15 DEF TypeOK, Terminal, SpawnedHasOwner, EntryIsOwned, NoOrphan, Registered, TerminalIsDead, LoseTail, brokerVars, workerVars
  <1>16. ASSUME NEW p \in Proc, PollCrashed(p) PROVE TerminalIsDead'
    BY <1>16 DEF TypeOK, Terminal, SpawnedHasOwner, EntryIsOwned, NoOrphan, Registered, TerminalIsDead, PollCrashed, workerVars, netVars
  <1>17. ASSUME NEW p \in Proc, PollDone(p) PROVE TerminalIsDead'
    BY <1>17 DEF TypeOK, Terminal, SpawnedHasOwner, EntryIsOwned, NoOrphan, Registered, TerminalIsDead, PollDone, MarkRunning
  <1>18. ASSUME NEW p \in Proc, RouterReceive(p) PROVE TerminalIsDead'
    <2>1. os' = os
      BY <1>18 DEF RouterReceive, workerVars
    <2> QED
      BY <1>18, <2>1, MessageEffect DEF TerminalIsDead, Terminal
  <1>19. ASSUME NEW p \in Proc, ProxyEvent(p) PROVE TerminalIsDead'
    <2>1. os' = os
      BY <1>19 DEF ProxyEvent, workerVars
    <2> QED
      BY <1>19, <2>1, MessageEffect DEF TerminalIsDead, Terminal
  <1>20. ASSUME NEW p \in Proc, GetOlder(p) PROVE TerminalIsDead'
    BY <1>20 DEF TypeOK, Terminal, SpawnedHasOwner, EntryIsOwned, NoOrphan, Registered, TerminalIsDead, GetOlder, workerVars, netVars
  <1>21. ASSUME NEW p \in Proc, RunTooLong(p) PROVE TerminalIsDead'
    BY <1>21 DEF TypeOK, Terminal, SpawnedHasOwner, EntryIsOwned, NoOrphan, Registered, TerminalIsDead, RunTooLong, workerVars, netVars
  <1>22. ASSUME NEW p \in Proc, HealthMarksDead(p) PROVE TerminalIsDead'
    BY <1>22 DEF TypeOK, Terminal, SpawnedHasOwner, EntryIsOwned, NoOrphan, Registered, TerminalIsDead, HealthMarksDead, Visits, Dies, workerVars, netVars
  <1>23. ASSUME NEW p \in Proc, HealthRestartsCron(p) PROVE TerminalIsDead'
    BY <1>23 DEF TypeOK, Terminal, SpawnedHasOwner, EntryIsOwned, NoOrphan, Registered, TerminalIsDead, HealthRestartsCron, Visits, Dies, Unborn, netVars
  <1>24. ASSUME NEW p \in Proc, HealthStopsOverrun(p) PROVE TerminalIsDead'
    BY <1>24 DEF TypeOK, Terminal, SpawnedHasOwner, EntryIsOwned, NoOrphan, Registered, TerminalIsDead, HealthStopsOverrun, Visits, Kill, netVars
  <1>25. ASSUME NEW p \in Proc, HealthPasses(p) PROVE TerminalIsDead'
    BY <1>25 DEF TypeOK, Terminal, SpawnedHasOwner, EntryIsOwned, NoOrphan, Registered, TerminalIsDead, HealthPasses, Visits, workerVars, netVars
  <1>26. CASE ReaperPass
    BY <1>26 DEF TypeOK, Terminal, SpawnedHasOwner, EntryIsOwned, NoOrphan, Registered, TerminalIsDead, ReaperPass, Kill, Reapable, netVars
  <1>27. CASE HealthCheckStarts
    BY <1>27 DEF TypeOK, Terminal, SpawnedHasOwner, EntryIsOwned, NoOrphan, Registered, TerminalIsDead, HealthCheckStarts, workerVars, netVars
  <1>28. CASE Stop
    BY <1>28 DEF TypeOK, Terminal, SpawnedHasOwner, EntryIsOwned, NoOrphan, Registered, TerminalIsDead, Stop, StopAll, Kill, netVars
  <1>29. CASE ExitProcess
    BY <1>29 DEF TypeOK, Terminal, SpawnedHasOwner, EntryIsOwned, NoOrphan, Registered, TerminalIsDead, ExitProcess, StopAll, Kill, netVars
  <1>30. CASE UNCHANGED vars
    BY <1>30 DEF TypeOK, Terminal, SpawnedHasOwner, EntryIsOwned, NoOrphan, Registered, TerminalIsDead, vars
  <1> QED
    BY <1>1, <1>2, <1>3, <1>4, <1>5, <1>6, <1>7, <1>8, <1>9, <1>10, <1>11, <1>12, <1>13, <1>14, <1>15, <1>16, <1>17, <1>18, <1>19, <1>20, <1>21, <1>22, <1>23, <1>24, <1>25, <1>26, <1>27, <1>28, <1>29, <1>30
    DEF Next, RequestStep, WorkerStep, LoopStep, HealthVisit

\* No step leaves a RUNNING entry without the time it started running.
LEMMA TimedStep ==
    ASSUME IInv, [Next]_vars
    PROVE  RunningIsTimed'
  <1> USE IdentityAssumption DEF IInv, Identity
  <1>1. CASE StartCron
    BY <1>1 DEF TypeOK, RunningIsTimed, Terminal, StartCron, Spawn, Unborn, netVars
  <1>2. ASSUME NEW i \in PAs, EnsurePAFound(i) PROVE RunningIsTimed'
    BY <1>2 DEF TypeOK, RunningIsTimed, Terminal, EnsurePAFound, workerVars, netVars
  <1>3. ASSUME NEW i \in PAs, EnsurePASpawns(i) PROVE RunningIsTimed'
    BY <1>3 DEF TypeOK, RunningIsTimed, Terminal, EnsurePASpawns, Live, Spawn, Unborn, netVars
  <1>4. ASSUME NEW i \in PAs, ChatRefused(i) PROVE RunningIsTimed'
    BY <1>4 DEF TypeOK, RunningIsTimed, Terminal, ChatRefused, Live, workerVars, netVars
  <1>5. ASSUME NEW i \in PAs, ChatForwarded(i) PROVE RunningIsTimed'
    <2>1. i \in Identity /\ MarkRunning(i)
      BY <1>5 DEF ChatForwarded
    <2> QED
      BY <2>1, MarkRunningEffect DEF RunningIsTimed
  <1>6. ASSUME NEW i \in Subs, DispatchSub(i) PROVE RunningIsTimed'
    BY <1>6 DEF TypeOK, RunningIsTimed, Terminal, DispatchSub, Spawn, Unborn, netVars
  <1>7. ASSUME NEW i \in Stoppable, StopAgent(i) PROVE RunningIsTimed'
    BY <1>7 DEF TypeOK, RunningIsTimed, Terminal, StopAgent, StopAll, Kill, netVars
  <1>8. ASSUME NEW p \in Proc, Connect(p) PROVE RunningIsTimed'
    BY <1>8 DEF TypeOK, RunningIsTimed, Terminal, Connect, brokerVars, netVars
  <1>9. ASSUME NEW p \in Proc, Register(p) PROVE RunningIsTimed'
    BY <1>9 DEF TypeOK, RunningIsTimed, Terminal, Register, SendMail, brokerVars
  <1>10. ASSUME NEW p \in Proc, Heartbeat(p) PROVE RunningIsTimed'
    BY <1>10 DEF TypeOK, RunningIsTimed, Terminal, Heartbeat, SendMail, brokerVars, workerVars
  <1>11. ASSUME NEW p \in Proc, Begin(p) PROVE RunningIsTimed'
    BY <1>11 DEF TypeOK, RunningIsTimed, Terminal, Begin, brokerVars, netVars
  <1>12. ASSUME NEW p \in Proc, FinishChat(p) PROVE RunningIsTimed'
    BY <1>12 DEF TypeOK, RunningIsTimed, Terminal, FinishChat, brokerVars
  <1>13. ASSUME NEW p \in Proc, FinishTask(p) PROVE RunningIsTimed'
    BY <1>13 DEF TypeOK, RunningIsTimed, Terminal, FinishTask, SendMail, brokerVars
  <1>14. ASSUME NEW p \in Proc, Crash(p) PROVE RunningIsTimed'
    BY <1>14 DEF TypeOK, RunningIsTimed, Terminal, Crash, Kill, brokerVars, netVars
  <1>15. ASSUME NEW p \in Proc, LoseTail(p) PROVE RunningIsTimed'
    BY <1>15 DEF TypeOK, RunningIsTimed, Terminal, LoseTail, brokerVars, workerVars
  <1>16. ASSUME NEW p \in Proc, PollCrashed(p) PROVE RunningIsTimed'
    BY <1>16 DEF TypeOK, RunningIsTimed, Terminal, PollCrashed, workerVars, netVars
  <1>17. ASSUME NEW p \in Proc, PollDone(p) PROVE RunningIsTimed'
    <2>1. CASE UNCHANGED <<state, since>>
      BY <2>1 DEF RunningIsTimed
    <2>2. CASE owner[p] \in Subs /\ MarkRunning(owner[p])
      BY <2>2, MarkRunningEffect DEF RunningIsTimed
    <2> QED
      BY <1>17, <2>1, <2>2 DEF PollDone
  <1>18. ASSUME NEW p \in Proc, RouterReceive(p) PROVE RunningIsTimed'
    BY <1>18, MessageEffect DEF RunningIsTimed
  <1>19. ASSUME NEW p \in Proc, ProxyEvent(p) PROVE RunningIsTimed'
    BY <1>19, MessageEffect DEF RunningIsTimed
  <1>20. ASSUME NEW p \in Proc, GetOlder(p) PROVE RunningIsTimed'
    BY <1>20 DEF TypeOK, RunningIsTimed, Terminal, GetOlder, workerVars, netVars
  <1>21. ASSUME NEW p \in Proc, RunTooLong(p) PROVE RunningIsTimed'
    BY <1>21 DEF TypeOK, RunningIsTimed, Terminal, RunTooLong, workerVars, netVars
  <1>22. ASSUME NEW p \in Proc, HealthMarksDead(p) PROVE RunningIsTimed'
    BY <1>22 DEF TypeOK, RunningIsTimed, Terminal, HealthMarksDead, Visits, Dies, workerVars, netVars
  <1>23. ASSUME NEW p \in Proc, HealthRestartsCron(p) PROVE RunningIsTimed'
    BY <1>23 DEF TypeOK, RunningIsTimed, Terminal, HealthRestartsCron, Visits, Dies, Unborn, netVars
  <1>24. ASSUME NEW p \in Proc, HealthStopsOverrun(p) PROVE RunningIsTimed'
    BY <1>24 DEF TypeOK, RunningIsTimed, Terminal, HealthStopsOverrun, Visits, Kill, netVars
  <1>25. ASSUME NEW p \in Proc, HealthPasses(p) PROVE RunningIsTimed'
    BY <1>25 DEF TypeOK, RunningIsTimed, Terminal, HealthPasses, Visits, workerVars, netVars
  <1>26. CASE ReaperPass
    BY <1>26 DEF TypeOK, RunningIsTimed, Terminal, ReaperPass, Kill, Reapable, netVars
  <1>27. CASE HealthCheckStarts
    BY <1>27 DEF TypeOK, RunningIsTimed, Terminal, HealthCheckStarts, workerVars, netVars
  <1>28. CASE Stop
    BY <1>28 DEF TypeOK, RunningIsTimed, Terminal, Stop, StopAll, Kill, netVars
  <1>29. CASE ExitProcess
    BY <1>29 DEF TypeOK, RunningIsTimed, Terminal, ExitProcess, StopAll, Kill, netVars
  <1>30. CASE UNCHANGED vars
    BY <1>30 DEF TypeOK, RunningIsTimed, Terminal, vars
  <1> QED
    BY <1>1, <1>2, <1>3, <1>4, <1>5, <1>6, <1>7, <1>8, <1>9, <1>10, <1>11, <1>12, <1>13, <1>14, <1>15, <1>16, <1>17, <1>18, <1>19, <1>20, <1>21, <1>22, <1>23, <1>24, <1>25, <1>26, <1>27, <1>28, <1>29, <1>30
    DEF Next, RequestStep, WorkerStep, LoopStep, HealthVisit

\* No step makes the health check's copy of the cron entry obsolete.
LEMMA CronStep ==
    ASSUME IInv, [Next]_vars
    PROVE  CronCopyIsCurrent'
  <1> USE IdentityAssumption DEF IInv, Identity
  <1>1. CASE StartCron
    BY <1>1 DEF TypeOK, SpawnedHasOwner, EntryIsOwned, CronCopyIsCurrent, Registered, Terminal, StartCron, Spawn, Unborn, netVars
  <1>2. ASSUME NEW i \in PAs, EnsurePAFound(i) PROVE CronCopyIsCurrent'
    BY <1>2 DEF TypeOK, SpawnedHasOwner, EntryIsOwned, CronCopyIsCurrent, Registered, Terminal, EnsurePAFound, workerVars, netVars
  <1>3. ASSUME NEW i \in PAs, EnsurePASpawns(i) PROVE CronCopyIsCurrent'
    BY <1>3 DEF TypeOK, SpawnedHasOwner, EntryIsOwned, CronCopyIsCurrent, Registered, Terminal, EnsurePASpawns, Live, Spawn, Unborn, netVars
  <1>4. ASSUME NEW i \in PAs, ChatRefused(i) PROVE CronCopyIsCurrent'
    BY <1>4 DEF TypeOK, SpawnedHasOwner, EntryIsOwned, CronCopyIsCurrent, Registered, Terminal, ChatRefused, Live, workerVars, netVars
  <1>5. ASSUME NEW i \in PAs, ChatForwarded(i) PROVE CronCopyIsCurrent'
    <2>1. processes' = processes /\ owner' = owner /\ todo' = todo
      BY <1>5 DEF ChatForwarded
    <2>2. \A q \in Proc : state'[q] \notin Terminal => state[q] \notin Terminal
      <3>1. i \in Identity /\ MarkRunning(i)
        BY <1>5 DEF ChatForwarded
      <3> QED
        BY <3>1, MarkRunningEffect DEF Terminal
    <2> QED
      BY <2>1, <2>2 DEF CronCopyIsCurrent, TypeOK
  <1>6. ASSUME NEW i \in Subs, DispatchSub(i) PROVE CronCopyIsCurrent'
    BY <1>6 DEF TypeOK, SpawnedHasOwner, EntryIsOwned, CronCopyIsCurrent, Registered, Terminal, DispatchSub, Spawn, Unborn, netVars
  <1>7. ASSUME NEW i \in Stoppable, StopAgent(i) PROVE CronCopyIsCurrent'
    BY <1>7 DEF TypeOK, SpawnedHasOwner, EntryIsOwned, CronCopyIsCurrent, Registered, Terminal, StopAgent, StopAll, Kill, netVars
  <1>8. ASSUME NEW p \in Proc, Connect(p) PROVE CronCopyIsCurrent'
    BY <1>8 DEF TypeOK, SpawnedHasOwner, EntryIsOwned, CronCopyIsCurrent, Registered, Terminal, Connect, brokerVars, netVars
  <1>9. ASSUME NEW p \in Proc, Register(p) PROVE CronCopyIsCurrent'
    BY <1>9 DEF TypeOK, SpawnedHasOwner, EntryIsOwned, CronCopyIsCurrent, Registered, Terminal, Register, SendMail, brokerVars
  <1>10. ASSUME NEW p \in Proc, Heartbeat(p) PROVE CronCopyIsCurrent'
    BY <1>10 DEF TypeOK, SpawnedHasOwner, EntryIsOwned, CronCopyIsCurrent, Registered, Terminal, Heartbeat, SendMail, brokerVars, workerVars
  <1>11. ASSUME NEW p \in Proc, Begin(p) PROVE CronCopyIsCurrent'
    BY <1>11 DEF TypeOK, SpawnedHasOwner, EntryIsOwned, CronCopyIsCurrent, Registered, Terminal, Begin, brokerVars, netVars
  <1>12. ASSUME NEW p \in Proc, FinishChat(p) PROVE CronCopyIsCurrent'
    BY <1>12 DEF TypeOK, SpawnedHasOwner, EntryIsOwned, CronCopyIsCurrent, Registered, Terminal, FinishChat, brokerVars
  <1>13. ASSUME NEW p \in Proc, FinishTask(p) PROVE CronCopyIsCurrent'
    BY <1>13 DEF TypeOK, SpawnedHasOwner, EntryIsOwned, CronCopyIsCurrent, Registered, Terminal, FinishTask, SendMail, brokerVars
  <1>14. ASSUME NEW p \in Proc, Crash(p) PROVE CronCopyIsCurrent'
    BY <1>14 DEF TypeOK, SpawnedHasOwner, EntryIsOwned, CronCopyIsCurrent, Registered, Terminal, Crash, Kill, brokerVars, netVars
  <1>15. ASSUME NEW p \in Proc, LoseTail(p) PROVE CronCopyIsCurrent'
    BY <1>15 DEF TypeOK, SpawnedHasOwner, EntryIsOwned, CronCopyIsCurrent, Registered, Terminal, LoseTail, brokerVars, workerVars
  <1>16. ASSUME NEW p \in Proc, PollCrashed(p) PROVE CronCopyIsCurrent'
    BY <1>16 DEF TypeOK, SpawnedHasOwner, EntryIsOwned, CronCopyIsCurrent, Registered, Terminal, PollCrashed, workerVars, netVars
  <1>17. ASSUME NEW p \in Proc, PollDone(p) PROVE CronCopyIsCurrent'
    <2>1. processes' = processes /\ owner' = owner /\ todo' = todo
      BY <1>17 DEF PollDone
    <2>2. \A q \in Proc : state'[q] \notin Terminal => state[q] \notin Terminal
      <3>1. CASE owner[p] \in Subs /\ MarkRunning(owner[p])
        BY <3>1, MarkRunningEffect DEF Terminal
      <3>2. CASE UNCHANGED state
        BY <3>2
      <3> QED
        BY <1>17, <3>1, <3>2 DEF PollDone
    <2> QED
      BY <2>1, <2>2 DEF CronCopyIsCurrent, TypeOK
  <1>18. ASSUME NEW p \in Proc, RouterReceive(p) PROVE CronCopyIsCurrent'
    <2>1. UNCHANGED <<processes, owner, todo, os>>
      BY <1>18 DEF RouterReceive, workerVars
    <2>2. owner[p] \in Identity
      BY <1>18 DEF RouterReceive, SpawnedHasOwner, TypeOK
    <2>3. ASSUME NEW q \in todo, owner[q] = Cron, state'[q] \notin Terminal
          PROVE  processes[Cron] = q
      <3>1. CASE state'[q] = state[q]
        BY <2>3, <3>1 DEF CronCopyIsCurrent
      <3>2. CASE q = processes[owner[p]]
        <4>1. q \in Proc
          BY DEF TypeOK
        <4>2. owner[q] = owner[p]
          BY <2>2, <3>2, <4>1 DEF EntryIsOwned
        <4> QED
          BY <2>1, <2>3, <3>2, <4>2
      <3> QED
        BY <1>18, <2>3, <3>1, <3>2, MessageEffect DEF TypeOK
    <2> QED
      BY <2>1, <2>3 DEF CronCopyIsCurrent
  <1>19. ASSUME NEW p \in Proc, ProxyEvent(p) PROVE CronCopyIsCurrent'
    <2>1. UNCHANGED <<processes, owner, todo, os>>
      BY <1>19 DEF ProxyEvent, workerVars
    <2>2. owner[p] \in Identity
      BY <1>19 DEF ProxyEvent, SpawnedHasOwner, TypeOK
    <2>3. ASSUME NEW q \in todo, owner[q] = Cron, state'[q] \notin Terminal
          PROVE  processes[Cron] = q
      <3>1. CASE state'[q] = state[q]
        BY <2>3, <3>1 DEF CronCopyIsCurrent
      <3>2. CASE q = processes[owner[p]]
        <4>1. q \in Proc
          BY DEF TypeOK
        <4>2. owner[q] = owner[p]
          BY <2>2, <3>2, <4>1 DEF EntryIsOwned
        <4> QED
          BY <2>1, <2>3, <3>2, <4>2
      <3> QED
        BY <1>19, <2>3, <3>1, <3>2, MessageEffect DEF TypeOK
    <2> QED
      BY <2>1, <2>3 DEF CronCopyIsCurrent
  <1>20. ASSUME NEW p \in Proc, GetOlder(p) PROVE CronCopyIsCurrent'
    BY <1>20 DEF TypeOK, SpawnedHasOwner, EntryIsOwned, CronCopyIsCurrent, Registered, Terminal, GetOlder, workerVars, netVars
  <1>21. ASSUME NEW p \in Proc, RunTooLong(p) PROVE CronCopyIsCurrent'
    BY <1>21 DEF TypeOK, SpawnedHasOwner, EntryIsOwned, CronCopyIsCurrent, Registered, Terminal, RunTooLong, workerVars, netVars
  <1>22. ASSUME NEW p \in Proc, HealthMarksDead(p) PROVE CronCopyIsCurrent'
    BY <1>22 DEF TypeOK, SpawnedHasOwner, EntryIsOwned, CronCopyIsCurrent, Registered, Terminal, HealthMarksDead, Visits, Dies, workerVars, netVars
  <1>23. ASSUME NEW p \in Proc, HealthRestartsCron(p) PROVE CronCopyIsCurrent'
    BY <1>23 DEF TypeOK, SpawnedHasOwner, EntryIsOwned, CronCopyIsCurrent, Registered, Terminal, HealthRestartsCron, Visits, Dies, Unborn, netVars
  <1>24. ASSUME NEW p \in Proc, HealthStopsOverrun(p) PROVE CronCopyIsCurrent'
    BY <1>24 DEF TypeOK, SpawnedHasOwner, EntryIsOwned, CronCopyIsCurrent, Registered, Terminal, HealthStopsOverrun, Visits, Kill, netVars
  <1>25. ASSUME NEW p \in Proc, HealthPasses(p) PROVE CronCopyIsCurrent'
    BY <1>25 DEF TypeOK, SpawnedHasOwner, EntryIsOwned, CronCopyIsCurrent, Registered, Terminal, HealthPasses, Visits, workerVars, netVars
  <1>26. CASE ReaperPass
    BY <1>26 DEF TypeOK, SpawnedHasOwner, EntryIsOwned, CronCopyIsCurrent, Registered, Terminal, ReaperPass, Kill, Reapable, netVars
  <1>27. CASE HealthCheckStarts
    BY <1>27 DEF TypeOK, SpawnedHasOwner, EntryIsOwned, CronCopyIsCurrent, Registered, Terminal, HealthCheckStarts, workerVars, netVars
  <1>28. CASE Stop
    BY <1>28 DEF TypeOK, SpawnedHasOwner, EntryIsOwned, CronCopyIsCurrent, Registered, Terminal, Stop, StopAll, Kill, netVars
  <1>29. CASE ExitProcess
    BY <1>29 DEF TypeOK, SpawnedHasOwner, EntryIsOwned, CronCopyIsCurrent, Registered, Terminal, ExitProcess, StopAll, Kill, netVars
  <1>30. CASE UNCHANGED vars
    BY <1>30 DEF TypeOK, SpawnedHasOwner, EntryIsOwned, CronCopyIsCurrent, Registered, Terminal, vars
  <1> QED
    BY <1>1, <1>2, <1>3, <1>4, <1>5, <1>6, <1>7, <1>8, <1>9, <1>10, <1>11, <1>12, <1>13, <1>14, <1>15, <1>16, <1>17, <1>18, <1>19, <1>20, <1>21, <1>22, <1>23, <1>24, <1>25, <1>26, <1>27, <1>28, <1>29, <1>30
    DEF Next, RequestStep, WorkerStep, LoopStep, HealthVisit

\* No step brings a worker to life once the scheduler process is gone.
LEMMA DownStep ==
    ASSUME IInv, [Next]_vars
    PROVE  DownMeansNoWorkers'
  <1> USE IdentityAssumption DEF IInv, Identity
  <1>1. CASE StartCron
    BY <1>1 DEF TypeOK, DownMeansNoWorkers, NoOrphan, SpawnedHasOwner, Registered, StartCron, Spawn, Unborn, netVars
  <1>2. ASSUME NEW i \in PAs, EnsurePAFound(i) PROVE DownMeansNoWorkers'
    BY <1>2 DEF TypeOK, DownMeansNoWorkers, NoOrphan, SpawnedHasOwner, Registered, EnsurePAFound, workerVars, netVars
  <1>3. ASSUME NEW i \in PAs, EnsurePASpawns(i) PROVE DownMeansNoWorkers'
    BY <1>3 DEF TypeOK, DownMeansNoWorkers, NoOrphan, SpawnedHasOwner, Registered, EnsurePASpawns, Live, Spawn, Unborn, netVars
  <1>4. ASSUME NEW i \in PAs, ChatRefused(i) PROVE DownMeansNoWorkers'
    BY <1>4 DEF TypeOK, DownMeansNoWorkers, NoOrphan, SpawnedHasOwner, Registered, ChatRefused, Live, workerVars, netVars
  <1>5. ASSUME NEW i \in PAs, ChatForwarded(i) PROVE DownMeansNoWorkers'
    BY <1>5 DEF TypeOK, DownMeansNoWorkers, NoOrphan, SpawnedHasOwner, Registered, ChatForwarded, MarkRunning
  <1>6. ASSUME NEW i \in Subs, DispatchSub(i) PROVE DownMeansNoWorkers'
    BY <1>6 DEF TypeOK, DownMeansNoWorkers, NoOrphan, SpawnedHasOwner, Registered, DispatchSub, Spawn, Unborn, netVars
  <1>7. ASSUME NEW i \in Stoppable, StopAgent(i) PROVE DownMeansNoWorkers'
    BY <1>7 DEF TypeOK, DownMeansNoWorkers, NoOrphan, SpawnedHasOwner, Registered, StopAgent, StopAll, Kill, netVars
  <1>8. ASSUME NEW p \in Proc, Connect(p) PROVE DownMeansNoWorkers'
    BY <1>8 DEF TypeOK, DownMeansNoWorkers, NoOrphan, SpawnedHasOwner, Registered, Connect, brokerVars, netVars
  <1>9. ASSUME NEW p \in Proc, Register(p) PROVE DownMeansNoWorkers'
    BY <1>9 DEF TypeOK, DownMeansNoWorkers, NoOrphan, SpawnedHasOwner, Registered, Register, SendMail, brokerVars
  <1>10. ASSUME NEW p \in Proc, Heartbeat(p) PROVE DownMeansNoWorkers'
    BY <1>10 DEF TypeOK, DownMeansNoWorkers, NoOrphan, SpawnedHasOwner, Registered, Heartbeat, SendMail, brokerVars, workerVars
  <1>11. ASSUME NEW p \in Proc, Begin(p) PROVE DownMeansNoWorkers'
    BY <1>11 DEF TypeOK, DownMeansNoWorkers, NoOrphan, SpawnedHasOwner, Registered, Begin, brokerVars, netVars
  <1>12. ASSUME NEW p \in Proc, FinishChat(p) PROVE DownMeansNoWorkers'
    BY <1>12 DEF TypeOK, DownMeansNoWorkers, NoOrphan, SpawnedHasOwner, Registered, FinishChat, brokerVars
  <1>13. ASSUME NEW p \in Proc, FinishTask(p) PROVE DownMeansNoWorkers'
    BY <1>13 DEF TypeOK, DownMeansNoWorkers, NoOrphan, SpawnedHasOwner, Registered, FinishTask, SendMail, brokerVars
  <1>14. ASSUME NEW p \in Proc, Crash(p) PROVE DownMeansNoWorkers'
    BY <1>14 DEF TypeOK, DownMeansNoWorkers, NoOrphan, SpawnedHasOwner, Registered, Crash, Kill, brokerVars, netVars
  <1>15. ASSUME NEW p \in Proc, LoseTail(p) PROVE DownMeansNoWorkers'
    BY <1>15 DEF TypeOK, DownMeansNoWorkers, NoOrphan, SpawnedHasOwner, Registered, LoseTail, brokerVars, workerVars
  <1>16. ASSUME NEW p \in Proc, PollCrashed(p) PROVE DownMeansNoWorkers'
    BY <1>16 DEF TypeOK, DownMeansNoWorkers, NoOrphan, SpawnedHasOwner, Registered, PollCrashed, workerVars, netVars
  <1>17. ASSUME NEW p \in Proc, PollDone(p) PROVE DownMeansNoWorkers'
    BY <1>17 DEF TypeOK, DownMeansNoWorkers, NoOrphan, SpawnedHasOwner, Registered, PollDone, MarkRunning
  <1>18. ASSUME NEW p \in Proc, RouterReceive(p) PROVE DownMeansNoWorkers'
    BY <1>18 DEF TypeOK, DownMeansNoWorkers, NoOrphan, SpawnedHasOwner, Registered, RouterReceive, HandleRegister, HandleHeartbeat, MarkIdle, workerVars
  <1>19. ASSUME NEW p \in Proc, ProxyEvent(p) PROVE DownMeansNoWorkers'
    BY <1>19 DEF TypeOK, DownMeansNoWorkers, NoOrphan, SpawnedHasOwner, Registered, ProxyEvent, MarkIdle, workerVars
  <1>20. ASSUME NEW p \in Proc, GetOlder(p) PROVE DownMeansNoWorkers'
    BY <1>20 DEF TypeOK, DownMeansNoWorkers, NoOrphan, SpawnedHasOwner, Registered, GetOlder, workerVars, netVars
  <1>21. ASSUME NEW p \in Proc, RunTooLong(p) PROVE DownMeansNoWorkers'
    BY <1>21 DEF TypeOK, DownMeansNoWorkers, NoOrphan, SpawnedHasOwner, Registered, RunTooLong, workerVars, netVars
  <1>22. ASSUME NEW p \in Proc, HealthMarksDead(p) PROVE DownMeansNoWorkers'
    BY <1>22 DEF TypeOK, DownMeansNoWorkers, NoOrphan, SpawnedHasOwner, Registered, HealthMarksDead, Visits, Dies, workerVars, netVars
  <1>23. ASSUME NEW p \in Proc, HealthRestartsCron(p) PROVE DownMeansNoWorkers'
    BY <1>23 DEF TypeOK, DownMeansNoWorkers, NoOrphan, SpawnedHasOwner, Registered, HealthRestartsCron, Visits, Dies, Unborn, netVars
  <1>24. ASSUME NEW p \in Proc, HealthStopsOverrun(p) PROVE DownMeansNoWorkers'
    BY <1>24 DEF TypeOK, DownMeansNoWorkers, NoOrphan, SpawnedHasOwner, Registered, HealthStopsOverrun, Visits, Kill, netVars
  <1>25. ASSUME NEW p \in Proc, HealthPasses(p) PROVE DownMeansNoWorkers'
    BY <1>25 DEF TypeOK, DownMeansNoWorkers, NoOrphan, SpawnedHasOwner, Registered, HealthPasses, Visits, workerVars, netVars
  <1>26. CASE ReaperPass
    BY <1>26 DEF TypeOK, DownMeansNoWorkers, NoOrphan, SpawnedHasOwner, Registered, ReaperPass, Kill, Reapable, netVars
  <1>27. CASE HealthCheckStarts
    BY <1>27 DEF TypeOK, DownMeansNoWorkers, NoOrphan, SpawnedHasOwner, Registered, HealthCheckStarts, workerVars, netVars
  <1>28. CASE Stop
    BY <1>28 DEF TypeOK, DownMeansNoWorkers, NoOrphan, SpawnedHasOwner, Registered, Stop, StopAll, Kill, netVars
  <1>29. CASE ExitProcess
    BY <1>29 DEF TypeOK, DownMeansNoWorkers, NoOrphan, SpawnedHasOwner, Registered, ExitProcess, StopAll, Kill, netVars
  <1>30. CASE UNCHANGED vars
    BY <1>30 DEF TypeOK, DownMeansNoWorkers, NoOrphan, SpawnedHasOwner, Registered, vars
  <1> QED
    BY <1>1, <1>2, <1>3, <1>4, <1>5, <1>6, <1>7, <1>8, <1>9, <1>10, <1>11, <1>12, <1>13, <1>14, <1>15, <1>16, <1>17, <1>18, <1>19, <1>20, <1>21, <1>22, <1>23, <1>24, <1>25, <1>26, <1>27, <1>28, <1>29, <1>30
    DEF Next, RequestStep, WorkerStep, LoopStep, HealthVisit

-----------------------------------------------------------------------------
(* The invariant and what it implies *)

\* Nothing is spawned, registered or sent at first.
LEMMA InitInv == Init => IInv
  BY IdentityAssumption
  DEF Init, IInv, TypeOK, Identity, SpawnedHasOwner, EntryIsOwned, NoOrphan,
      TerminalIsDead, RunningIsTimed, CronCopyIsCurrent, DownMeansNoWorkers,
      AgentState, Terminal

\* Every step keeps the invariant.
LEMMA StepInv == IInv /\ [Next]_vars => IInv'
  <1> SUFFICES ASSUME IInv, [Next]_vars PROVE IInv'
    OBVIOUS
  <1> QED
    BY TypeStep, SpawnedStep, RegistryStep, TerminalStep, TimedStep, CronStep, DownStep
    DEF IInv

\* The inductive invariant holds throughout every run of the broker.
THEOREM Invariant == Spec => []IInv
  <1>1. Init => IInv
    BY InitInv
  <1>2. IInv /\ [Next]_vars => IInv'
    BY StepInv
  <1> QED
    BY <1>1, <1>2, PTL DEF Spec

\* All variables of the broker and its workers keep their types.
THEOREM TypeCorrect == Spec => []TypeOK
  <1>1. IInv => TypeOK
    BY DEF IInv
  <1> QED
    BY <1>1, Invariant, PTL

\* A live worker is always the one registered under its identity: nothing the
\* broker's coroutines do, in any order, leaves a worker it cannot stop.
THEOREM NoOrphanEver == Spec => []NoOrphan
  <1>1. IInv => NoOrphan
    BY DEF IInv
  <1> QED
    BY <1>1, Invariant, PTL

\* A live process is never shown as STOPPED or FAILED.
THEOREM TerminalIsDeadAlways == Spec => []TerminalIsDead
  <1>1. IInv => TerminalIsDead
    BY DEF IInv
  <1> QED
    BY <1>1, Invariant, PTL

\* A RUNNING entry always has the start time the health check needs.
THEOREM RunningIsTimedAlways == Spec => []RunningIsTimed
  <1>1. IInv => RunningIsTimed
    BY DEF IInv
  <1> QED
    BY <1>1, Invariant, PTL

\* Once the scheduler process is down no worker is left.
THEOREM ShutdownIsComplete == Spec => []DownMeansNoWorkers
  <1>1. IInv => DownMeansNoWorkers
    BY DEF IInv
  <1> QED
    BY <1>1, Invariant, PTL


-----------------------------------------------------------------------------
(* The broker implements SessionWorkers *)

\* q is spawned for j, which no live process serves.
Spawns(j, q) ==
    /\ ~Live(j)
    /\ processes' = [processes EXCEPT ![j] = q]
    /\ owner' = [owner EXCEPT ![q] = j]
    /\ os' = [os EXCEPT ![q] = "alive"]

\* Nothing is spawned; processes may end and entries may be removed.
Keeps ==
    /\ owner' = owner
    /\ \A p \in Proc : os'[p] = os[p] \/ (os[p] = "alive" /\ os'[p] = "exited")
    /\ \A i \in Identity : processes'[i] \in {processes[i], None}

\* Every step is of one of these two kinds: no coroutine spawns a worker for
\* an identity that still has one.
LEMMA StepKinds ==
    ASSUME IInv, [Next]_vars
    PROVE  Keeps \/ \E j \in Identity, q \in Unborn : Spawns(j, q)
  <1> USE IdentityAssumption DEF IInv, Identity
  <1>1. CASE StartCron
    <2>1. Cron \in Identity /\ ~Live(Cron)
      BY <1>1 DEF StartCron, TypeOK, EntryIsOwned, Live
    <2> QED
      BY <1>1, <2>1 DEF Spawns, StartCron, Spawn
  <1>2. ASSUME NEW i \in PAs, EnsurePAFound(i)
        PROVE  Keeps \/ \E j \in Identity, q \in Unborn : Spawns(j, q)
    BY <1>2 DEF Keeps, TypeOK, EnsurePAFound, workerVars, netVars
  <1>3. ASSUME NEW i \in PAs, EnsurePASpawns(i)
        PROVE  Keeps \/ \E j \in Identity, q \in Unborn : Spawns(j, q)
    <2>1. i \in Identity /\ ~Live(i)
      BY <1>3 DEF EnsurePASpawns, TypeOK, EntryIsOwned, Live
    <2> QED
      BY <1>3, <2>1 DEF Spawns, EnsurePASpawns, Spawn
  <1>4. ASSUME NEW i \in PAs, ChatRefused(i)
        PROVE  Keeps \/ \E j \in Identity, q \in Unborn : Spawns(j, q)
    BY <1>4 DEF Keeps, TypeOK, ChatRefused, Live, workerVars, netVars
  <1>5. ASSUME NEW i \in PAs, ChatForwarded(i)
        PROVE  Keeps \/ \E j \in Identity, q \in Unborn : Spawns(j, q)
    BY <1>5 DEF Keeps, TypeOK, ChatForwarded, MarkRunning
  <1>6. ASSUME NEW i \in Subs, DispatchSub(i)
        PROVE  Keeps \/ \E j \in Identity, q \in Unborn : Spawns(j, q)
    <2>1. i \in Identity /\ ~Live(i)
      BY <1>6 DEF DispatchSub, TypeOK, EntryIsOwned, Live
    <2> QED
      BY <1>6, <2>1 DEF Spawns, DispatchSub, Spawn
  <1>7. ASSUME NEW i \in Stoppable, StopAgent(i)
        PROVE  Keeps \/ \E j \in Identity, q \in Unborn : Spawns(j, q)
    BY <1>7 DEF Keeps, TypeOK, StopAgent, StopAll, Kill, netVars
  <1>8. ASSUME NEW p \in Proc, Connect(p)
        PROVE  Keeps \/ \E j \in Identity, q \in Unborn : Spawns(j, q)
    BY <1>8 DEF Keeps, TypeOK, Connect, brokerVars, netVars
  <1>9. ASSUME NEW p \in Proc, Register(p)
        PROVE  Keeps \/ \E j \in Identity, q \in Unborn : Spawns(j, q)
    BY <1>9 DEF Keeps, TypeOK, Register, SendMail, brokerVars
  <1>10. ASSUME NEW p \in Proc, Heartbeat(p)
        PROVE  Keeps \/ \E j \in Identity, q \in Unborn : Spawns(j, q)
    BY <1>10 DEF Keeps, TypeOK, Heartbeat, SendMail, brokerVars, workerVars
  <1>11. ASSUME NEW p \in Proc, Begin(p)
        PROVE  Keeps \/ \E j \in Identity, q \in Unborn : Spawns(j, q)
    BY <1>11 DEF Keeps, TypeOK, Begin, brokerVars, netVars
  <1>12. ASSUME NEW p \in Proc, FinishChat(p)
        PROVE  Keeps \/ \E j \in Identity, q \in Unborn : Spawns(j, q)
    BY <1>12 DEF Keeps, TypeOK, FinishChat, brokerVars
  <1>13. ASSUME NEW p \in Proc, FinishTask(p)
        PROVE  Keeps \/ \E j \in Identity, q \in Unborn : Spawns(j, q)
    BY <1>13 DEF Keeps, TypeOK, FinishTask, SendMail, brokerVars
  <1>14. ASSUME NEW p \in Proc, Crash(p)
        PROVE  Keeps \/ \E j \in Identity, q \in Unborn : Spawns(j, q)
    BY <1>14 DEF Keeps, TypeOK, Crash, Kill, brokerVars, netVars
  <1>15. ASSUME NEW p \in Proc, LoseTail(p)
        PROVE  Keeps \/ \E j \in Identity, q \in Unborn : Spawns(j, q)
    BY <1>15 DEF Keeps, TypeOK, LoseTail, brokerVars, workerVars
  <1>16. ASSUME NEW p \in Proc, PollCrashed(p)
        PROVE  Keeps \/ \E j \in Identity, q \in Unborn : Spawns(j, q)
    BY <1>16 DEF Keeps, TypeOK, PollCrashed, workerVars, netVars
  <1>17. ASSUME NEW p \in Proc, PollDone(p)
        PROVE  Keeps \/ \E j \in Identity, q \in Unborn : Spawns(j, q)
    BY <1>17 DEF Keeps, TypeOK, PollDone, MarkRunning
  <1>18. ASSUME NEW p \in Proc, RouterReceive(p)
        PROVE  Keeps \/ \E j \in Identity, q \in Unborn : Spawns(j, q)
    BY <1>18 DEF Keeps, TypeOK, RouterReceive, HandleRegister, HandleHeartbeat, MarkIdle, workerVars
  <1>19. ASSUME NEW p \in Proc, ProxyEvent(p)
        PROVE  Keeps \/ \E j \in Identity, q \in Unborn : Spawns(j, q)
    BY <1>19 DEF Keeps, TypeOK, ProxyEvent, MarkIdle, workerVars
  <1>20. ASSUME NEW p \in Proc, GetOlder(p)
        PROVE  Keeps \/ \E j \in Identity, q \in Unborn : Spawns(j, q)
    BY <1>20 DEF Keeps, TypeOK, GetOlder, workerVars, netVars
  <1>21. ASSUME NEW p \in Proc, RunTooLong(p)
        PROVE  Keeps \/ \E j \in Identity, q \in Unborn : Spawns(j, q)
    BY <1>21 DEF Keeps, TypeOK, RunTooLong, workerVars, netVars
  <1>22. ASSUME NEW p \in Proc, HealthMarksDead(p)
        PROVE  Keeps \/ \E j \in Identity, q \in Unborn : Spawns(j, q)
    BY <1>22 DEF Keeps, TypeOK, HealthMarksDead, Visits, Dies, workerVars, netVars
  <1>23. ASSUME NEW p \in Proc, HealthRestartsCron(p)
        PROVE  Keeps \/ \E j \in Identity, q \in Unborn : Spawns(j, q)
    <2>1. processes[Cron] = p /\ ~Live(Cron) /\ Cron \in Identity
      BY <1>23 DEF HealthRestartsCron, Visits, Dies, CronCopyIsCurrent, Live
    <2>2. CASE Unborn = {}
      BY <1>23, <2>1, <2>2 DEF Keeps, HealthRestartsCron, TypeOK
    <2> QED
      BY <1>23, <2>1, <2>2 DEF Spawns, HealthRestartsCron
  <1>24. ASSUME NEW p \in Proc, HealthStopsOverrun(p)
        PROVE  Keeps \/ \E j \in Identity, q \in Unborn : Spawns(j, q)
    BY <1>24 DEF Keeps, TypeOK, HealthStopsOverrun, Visits, Kill, netVars
  <1>25. ASSUME NEW p \in Proc, HealthPasses(p)
        PROVE  Keeps \/ \E j \in Identity, q \in Unborn : Spawns(j, q)
    BY <1>25 DEF Keeps, TypeOK, HealthPasses, Visits, workerVars, netVars
  <1>26. CASE ReaperPass
    BY <1>26 DEF Keeps, TypeOK, ReaperPass, Kill, Reapable, netVars
  <1>27. CASE HealthCheckStarts
    BY <1>27 DEF Keeps, TypeOK, HealthCheckStarts, workerVars, netVars
  <1>28. CASE Stop
    BY <1>28 DEF Keeps, TypeOK, Stop, StopAll, Kill, netVars
  <1>29. CASE ExitProcess
    BY <1>29 DEF Keeps, TypeOK, ExitProcess, StopAll, Kill, netVars
  <1>30. CASE UNCHANGED vars
    BY <1>30 DEF Keeps, TypeOK, vars
  <1> QED
    BY <1>1, <1>2, <1>3, <1>4, <1>5, <1>6, <1>7, <1>8, <1>9, <1>10, <1>11, <1>12, <1>13, <1>14, <1>15, <1>16, <1>17, <1>18, <1>19, <1>20, <1>21, <1>22, <1>23, <1>24, <1>25, <1>26, <1>27, <1>28, <1>29, <1>30
    DEF Next, RequestStep, WorkerStep, LoopStep, HealthVisit

\* An entry is removed or replaced only when its process has exited.
LEMMA EntryStep ==
    ASSUME IInv, IInv', [Next]_vars,
           NEW i \in Identity, processes[i] # None, processes'[i] # processes[i]
    PROVE  os'[processes[i]] = "exited"
  <1> DEFINE p == processes[i]
  <1>1. p \in Proc /\ owner[p] = i /\ i # None /\ os[p] # "unborn"
    <2>1. p \in Proc /\ owner[p] = i
      BY DEF IInv, TypeOK, EntryIsOwned
    <2> QED
      BY <2>1, IdentityAssumption DEF IInv, SpawnedHasOwner
  <1>2. owner'[p] = i /\ os'[p] # "unborn"
    <2>1. CASE Keeps
      BY <1>1, <2>1 DEF Keeps
    <2>2. ASSUME NEW j \in Identity, NEW q \in Unborn, Spawns(j, q)
          PROVE  owner'[p] = i /\ os'[p] # "unborn"
      <3>1. q # p
        BY <1>1 DEF Unborn
      <3> QED
        BY <1>1, <2>2, <3>1 DEF Spawns, IInv, TypeOK
    <2> QED
      BY <2>1, <2>2, StepKinds
  <1>3. os'[p] # "alive"
    BY <1>1, <1>2 DEF IInv, NoOrphan, Registered
  <1>4. os'[p] \in {"unborn", "alive", "exited"}
    BY <1>1 DEF IInv, TypeOK
  <1> QED
    BY <1>2, <1>3, <1>4

\* The reaper, the restarts and the shutdown never drop the entry of a process
\* that is still running.
THEOREM EntriesOutliveProcesses == Spec => EntryOutlivesProcess
  <1>1. IInv /\ IInv' /\ [Next]_vars =>
          [\A i \in Identity :
              processes[i] # None /\ processes'[i] # processes[i]
                  => os'[processes[i]] = "exited"]_vars
    BY EntryStep
  <1> QED
    BY <1>1, Invariant, PTL DEF Spec, EntryOutlivesProcess

\* Initially no identity has a worker.
LEMMA InitWorkers == Init => Workers!Init
  BY DEF Init, Workers!Init, Live, Unborn

\* A step that spawns nothing is an exit of SessionWorkers, perhaps of nobody.
LEMMA KeepsIsExit ==
    ASSUME IInv, Keeps
    PROVE  \E S \in SUBSET Identity : Workers!Exit(S)
  <1> DEFINE W == [i \in Identity |-> IF Live(i) THEN processes[i] ELSE None]
  <1> DEFINE S == {i \in Identity : W'[i] = None}
  <1>1. (Proc \ Unborn)' = Proc \ Unborn
    BY DEF Keeps, Unborn
  <1>2. ASSUME NEW i \in Identity
        PROVE  W'[i] = IF i \in S THEN None ELSE W[i]
    <2>1. CASE i \in S
      BY <2>1
    <2>2. CASE i \notin S
      <3>1. processes'[i] # None /\ os'[processes'[i]] = "alive" /\ W'[i] = processes'[i]
        BY <2>2 DEF Live
      <3>2. processes'[i] = processes[i] /\ processes[i] \in Proc
        BY <3>1 DEF Keeps, IInv, TypeOK
      <3>3. os[processes[i]] = "alive"
        BY <3>1, <3>2 DEF Keeps
      <3> QED
        BY <2>2, <3>1, <3>2, <3>3 DEF Live
    <2> QED
      BY <2>1, <2>2
  <1>3. W' = [i \in Identity |-> IF i \in S THEN None ELSE W[i]]
    BY <1>2
  <1>4. S \in SUBSET Identity
    OBVIOUS
  <1> HIDE DEF S
  <1> QED
    BY <1>1, <1>3, <1>4 DEF Workers!Exit

\* A step that spawns is a start of SessionWorkers.
LEMMA SpawnsIsStart ==
    ASSUME IInv, NEW j \in Identity, NEW q \in Unborn, Spawns(j, q)
    PROVE  Workers!Start(j, q)
  <1> DEFINE W == [i \in Identity |-> IF Live(i) THEN processes[i] ELSE None]
  <1>1. q \in Proc /\ q # None /\ os[q] = "unborn"
    BY IdentityAssumption DEF Unborn
  <1>2. W[j] = None /\ q \notin Proc \ Unborn
    BY DEF Spawns
  <1>3. (Proc \ Unborn)' = (Proc \ Unborn) \cup {q}
    BY <1>1 DEF Spawns, Unborn, IInv, TypeOK
  <1>4. ASSUME NEW i \in Identity
        PROVE  W'[i] = [W EXCEPT ![j] = q][i]
    <2>1. CASE i = j
      BY <1>1, <2>1 DEF Spawns, Live, IInv, TypeOK
    <2>2. CASE i # j
      <3>1. processes'[i] = processes[i] /\ processes[i] \in Proc \cup {None}
        BY <2>2 DEF Spawns, IInv, TypeOK
      <3>2. processes[i] # q
        BY <1>1, IdentityAssumption DEF IInv, TypeOK, EntryIsOwned, SpawnedHasOwner
      <3>3. processes[i] # None => os'[processes[i]] = os[processes[i]]
        BY <3>1, <3>2 DEF Spawns, IInv, TypeOK
      <3> QED
        BY <2>2, <3>1, <3>3 DEF Live
    <2> QED
      BY <2>1, <2>2
  <1>5. W' = [W EXCEPT ![j] = q]
    BY <1>4
  <1> QED
    BY <1>2, <1>3, <1>5 DEF Workers!Start

\* The broker gives every identity at most one worker at a time and starts a
\* replacement only after the exit of its predecessor: each of its steps is a
\* step of SessionWorkers or a stutter.
THEOREM BrokerImplementsSessionWorkers == Spec => ImplementsSessionWorkers
  <1>1. Init => Workers!Init
    BY InitWorkers
  <1>2. IInv /\ [Next]_vars => [Workers!Next]_Workers!vars
    BY StepKinds, KeepsIsExit, SpawnsIsStart DEF Workers!Next, Unborn
  <1> QED
    BY <1>1, <1>2, Invariant, PTL DEF Spec, Workers!Spec, ImplementsSessionWorkers

=============================================================================
