------------------------ MODULE SchedulerClientProofs ------------------------
(***************************************************************************)
(* What SchedulerClient keeps for any requests and any number of starts    *)
(* and crashes.                                                            *)
(***************************************************************************)
EXTENDS SchedulerClient, TLAPS

\* A reply on its way is the reply to a request that was carried out.
RepliesAreDone == \A i \in Request : way[i] = "back" => i \in done

IInv ==
    /\ TypeOK
    /\ RepliesAreDone
    /\ RequestsMatched
    /\ OneScheduler

\* The steps that change the table of requests, and those that do not.
LEMMA ProcessStep ==
    ASSUME IInv, LoseHandled, UNCHANGED listening
    PROVE  /\ RepliesAreDone' /\ RequestsMatched'
           /\ way' \in [Request -> {"none", "out", "handling", "back", "gone"}]
           /\ pending' \subseteq Request /\ done' \subseteq Request
           /\ call' \in [Request -> {"none", "waiting", "answered", "expired"}]
  BY DEF IInv, TypeOK, RepliesAreDone, RequestsMatched, LoseHandled

\* Nothing happens.
LEMMA Stutter ==
    ASSUME IInv, UNCHANGED vars
    PROVE  IInv'
  BY DEF IInv, TypeOK, RepliesAreDone, RequestsMatched, OneScheduler, Alive, vars, life, request

\* scheduler_process_main starts, serves, closes or crashes.
LEMMA SchedulerKeeps ==
    ASSUME IInv, Scheduler
    PROVE  IInv'
  <1>1. CASE TakeShutdown
    BY <1>1
    DEF IInv, TypeOK, RepliesAreDone, RequestsMatched, OneScheduler, Alive, Gen, TakeShutdown, request
  <1>2. ASSUME NEW g \in Gen, BecomeReady(g)
        PROVE  IInv'
    BY <1>2
    DEF IInv, TypeOK, RepliesAreDone, RequestsMatched, OneScheduler, Alive, BecomeReady, request
  <1>3. ASSUME NEW g \in Gen, Crash(g)
        PROVE  IInv'
    <2>1. TypeOK' /\ RepliesAreDone' /\ RequestsMatched'
      BY <1>3, ProcessStep, StartAssumption DEF IInv, TypeOK, Crash, Alive
    <2>2. OneScheduler'
      BY <1>3 DEF IInv, TypeOK, OneScheduler, Crash, Alive
    <2> QED
      BY <2>1, <2>2 DEF IInv
  <1>4. ASSUME NEW g \in Gen, Close(g)
        PROVE  IInv'
    <2>1. TypeOK' /\ RepliesAreDone' /\ RequestsMatched'
      BY <1>4, ProcessStep DEF IInv, TypeOK, Close, Alive
    <2>2. OneScheduler'
      BY <1>4 DEF IInv, TypeOK, OneScheduler, Close, Alive
    <2> QED
      BY <2>1, <2>2 DEF IInv
  <1> QED
    BY <1>1, <1>2, <1>3, <1>4 DEF Scheduler

\* A request is sent, carried out, answered, received or given up.
LEMMA RequestKeeps ==
    ASSUME IInv, Handling \/ Calling
    PROVE  IInv'
  <1>1. OneScheduler'
    BY DEF IInv, OneScheduler, Alive, Handling, Calling,
           Accept, Answer, Send, Receive, Expire, life
  <1>2. ASSUME NEW i \in Request, Accept(i)
        PROVE  TypeOK' /\ RepliesAreDone' /\ RequestsMatched'
    BY <1>2 DEF IInv, TypeOK, RepliesAreDone, RequestsMatched, Accept, Alive, life
  <1>3. ASSUME NEW i \in Request, Answer(i)
        PROVE  TypeOK' /\ RepliesAreDone' /\ RequestsMatched'
    BY <1>3 DEF IInv, TypeOK, RepliesAreDone, RequestsMatched, Answer, Alive, life
  <1>4. ASSUME NEW i \in Request, Send(i)
        PROVE  TypeOK' /\ RepliesAreDone' /\ RequestsMatched'
    BY <1>4 DEF IInv, TypeOK, RepliesAreDone, RequestsMatched, Send, Alive, life
  <1>5. ASSUME NEW i \in Request, Receive(i)
        PROVE  TypeOK' /\ RepliesAreDone' /\ RequestsMatched'
    BY <1>5, StartAssumption
    DEF IInv, TypeOK, RepliesAreDone, RequestsMatched, Receive, Alive, life, Gen
  <1>6. ASSUME NEW i \in Request, Expire(i)
        PROVE  TypeOK' /\ RepliesAreDone' /\ RequestsMatched'
    BY <1>6 DEF IInv, TypeOK, RepliesAreDone, RequestsMatched, Expire, Alive, life
  <1> QED
    BY <1>1, <1>2, <1>3, <1>4, <1>5, <1>6 DEF IInv, Handling, Calling

\* start(), stop(), the exit hook and the health check.
LEMMA LifecycleKeeps ==
    ASSUME IInv, Lifecycle
    PROVE  IInv'
  <1>1. CASE Connect
    BY <1>1
    DEF IInv, TypeOK, RepliesAreDone, RequestsMatched, OneScheduler, Alive, Connect, life, request
  <1>2. CASE Respawn
    <2>1. gen + 1 \in Gen
      BY <1>2, StartAssumption DEF IInv, TypeOK, Respawn, Gen
    <2>2. TypeOK' /\ RepliesAreDone' /\ RequestsMatched'
      BY <1>2, <2>1
      DEF IInv, TypeOK, RepliesAreDone, RequestsMatched, Respawn, Alive, request
    <2>3. OneScheduler'
      BY <1>2, <2>1
      DEF IInv, TypeOK, OneScheduler, Respawn, Alive, Gen
    <2> QED
      BY <2>2, <2>3 DEF IInv
  <1>3. CASE Reconnect
    BY <1>3
    DEF IInv, TypeOK, RepliesAreDone, RequestsMatched, OneScheduler, Alive, Reconnect, life
  <1>4. CASE Stop
    BY <1>4
    DEF IInv, TypeOK, RepliesAreDone, RequestsMatched, OneScheduler, Alive, Stop, life
  <1>5. CASE Terminate
    <2>1. /\ proc[gen] \in Alive => Terminated \in Alive \cup {"killed"}
          /\ proc[gen] \notin Alive => Terminated = proc[gen]
      BY DEF Terminated, Alive
    <2>2. TypeOK' /\ RepliesAreDone' /\ RequestsMatched'
      BY <1>5, <2>1 DEF IInv, TypeOK, RepliesAreDone, RequestsMatched, Terminate
    <2>3. OneScheduler'
      BY <1>5, <2>1 DEF IInv, TypeOK, OneScheduler, Terminate, Alive
    <2> QED
      BY <2>2, <2>3 DEF IInv
  <1>6. CASE Kill
    <2>1. TypeOK' /\ RepliesAreDone' /\ RequestsMatched'
      BY <1>6, ProcessStep DEF IInv, TypeOK, Kill, Gone, Alive
    <2>2. OneScheduler'
      BY <1>6 DEF IInv, TypeOK, OneScheduler, Kill, Gone, Alive
    <2> QED
      BY <2>1, <2>2 DEF IInv
  <1>7. CASE Joined \/ Closed
    BY <1>7
    DEF IInv, TypeOK, RepliesAreDone, RequestsMatched, OneScheduler, Alive, Joined,
        Closed, Gone, life, request
  <1> QED
    BY <1>1, <1>2, <1>3, <1>4, <1>5, <1>6, <1>7 DEF Lifecycle

\* Streams concern nothing else.
LEMMA StreamingKeeps ==
    ASSUME IInv, Streaming
    PROVE  IInv'
  BY DEF IInv, TypeOK, RepliesAreDone, RequestsMatched, OneScheduler, Alive,
         Streaming, OpenStream, CloseStream, life, request

\* The inductive invariant: the types, the table of requests, replies that are
\* true, and one scheduler process at a time.
THEOREM InductiveInvariant == Spec => []IInv
  <1>1. ASSUME Init
        PROVE  IInv
    <2>1. 1 \in Gen
      BY StartAssumption DEF Gen
    <2>2. TypeOK
      <3>1. 0 \in 0 .. MaxCrashes
        BY StartAssumption
      <3>2. proc \in [Gen -> Alive \cup {"none", "exited", "crashed", "killed"}]
        BY <1>1 DEF Init, Alive
      <3>3. /\ call \in [Request -> {"none", "waiting", "answered", "expired"}]
            /\ way \in [Request -> {"none", "out", "handling", "back", "gone"}]
        BY <1>1 DEF Init
      <3> QED
        BY <1>1, <2>1, <3>1, <3>2, <3>3 DEF Init, TypeOK
    <2>3. RepliesAreDone /\ RequestsMatched
      BY <1>1 DEF Init, RepliesAreDone, RequestsMatched
    <2>4. OneScheduler
      BY <1>1 DEF Init, OneScheduler, Alive
    <2> QED
      BY <2>2, <2>3, <2>4 DEF IInv
  <1>2. IInv /\ [Next]_vars => IInv'
    BY Stutter, SchedulerKeeps, RequestKeeps, LifecycleKeeps, StreamingKeeps DEF Next
  <1> QED
    BY <1>1, <1>2, PTL DEF Spec

\* The table of pending requests is exact, and whoever gets an answer can rely on
\* it (_request, _recv_loop), through timeouts, late replies, restarts and stop().
THEOREM PendingRequestsMatched == Spec => []RequestsMatched
  <1>1. IInv => RequestsMatched
    BY DEF IInv
  <1> QED
    BY InductiveInvariant, <1>1, PTL

\* There is one scheduler process at a time, and none once stop() has ended
\* (_health_check_loop, stop, _join_scheduler).
THEOREM AtMostOneScheduler == Spec => []OneScheduler
  <1>1. IInv => OneScheduler
    BY DEF IInv
  <1> QED
    BY InductiveInvariant, <1>1, PTL
=============================================================================
