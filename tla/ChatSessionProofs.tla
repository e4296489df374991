--------------------------- MODULE ChatSessionProofs ---------------------------
(***************************************************************************)
(* Proofs about ChatSession, for any set of chats, any length of the queue *)
(* and any number of rounds and tool calls: a tool call of a reply that    *)
(* needs a confirmation runs only after a user approved it, and an answer  *)
(* given in time decides unless a full queue is in its way.  Both hold     *)
(* with DingTalk as a second channel (DingTalkChat).                       *)
(***************************************************************************)
EXTENDS DingTalkChat, FiniteSetTheorems, TLAPS

-----------------------------------------------------------------------------
(* Messages and queues *)

\* A message is a message when its fields are what they should be.
LEMMA MsgType ==
    ASSUME NEW type \in {"chat", "cancel", "resolve"}, NEW c \in Chat,
           NEW a \in Answer \cup {None}
    PROVE  Msg(type, c, a) \in Message
  BY DEF Msg, Message

\* An answer gives the id of what it answers, or a beginning of it.
LEMMA AnswerType ==
    ASSUME NEW c \in ToolCall, NEW fits \in Ids(c), NEW ok \in BOOLEAN
    PROVE  [to |-> c, fits |-> fits, ok |-> ok] \in Answer
  <1>1. fits \in SUBSET ToolCall
    BY PrefixAssumption DEF Ids, ToolCall, Call
  <1> QED
    BY <1>1 DEF Answer

\* Zero is a number of a call and of a round, whatever the bounds are, and the
\* next number is one below the bound.
LEMMA Counting ==
    /\ 0 \in Call /\ 0 \in Round /\ 0 \in Attempt /\ 1 \in Attempt
    /\ \A n \in Call : n < MaxCalls => n + 1 \in Call
    /\ \A n \in Round : n < MaxRounds => n + 1 \in Round
    /\ \A n \in Round : n \leq MaxRounds
    /\ \A n \in Attempt : n < MaxAttempts => n + 1 \in Attempt
  BY BoundAssumption DEF Call, Round, Attempt

\* What is true of the members of a sequence and of one more message is true of
\* the members of the sequence with the message at its end.
LEMMA AppendMembers ==
    ASSUME NEW s \in Seq(Message), NEW m \in Message, NEW i \in 1 .. Len(Append(s, m))
    PROVE  Append(s, m)[i] = m \/ \E j \in 1 .. Len(s) : Append(s, m)[i] = s[j]
  OBVIOUS

\* The members of the tail are members of the sequence.
LEMMA TailMembers ==
    ASSUME NEW s \in Seq(Message), s # <<>>
    PROVE  /\ Tail(s) \in Seq(Message)
           /\ Head(s) \in Message
           /\ 1 \in 1 .. Len(s) /\ Head(s) = s[1]
           /\ \A i \in 1 .. Len(Tail(s)) : i + 1 \in 1 .. Len(s) /\ Tail(s)[i] = s[i + 1]
  OBVIOUS

-----------------------------------------------------------------------------
(* Every action keeps the invariant *)

\* Nothing is under way in the beginning.
LEMMA InitInv == Init => IInv
  <1> SUFFICES ASSUME Init PROVE IInv
    OBVIOUS
  <1>1. TypeOK
    <2>1. Idle \in [at : Place, chat : Chat \cup {None}, plan : BOOLEAN, round : Round, attempt : Attempt, call : Call]
      BY Counting DEF Idle, At, Place
    <2>2. answers \subseteq {a \in Answer : a.to \in asked} /\ asked \subseteq ToolCall
      BY DEF Init
    <2>3. socket \in Seq(Message) /\ queue \in Seq(Message)
      BY DEF Init
    <2> QED
      BY <2>1, <2>2, <2>3 DEF Init, TypeOK
  <1> QED
    BY <1>1 DEF Init, IInv, AnswerInv, PlaceInv, QueueInv, RunOnlyIfApproved, Idle, At

\* A step that sends at most a message that is no answer, and leaves the work
\* loop alone, keeps what ties answers, messages and verdicts together.
LEMMA SendKeeps ==
    ASSUME IInv, NEW m \in Message, m.type # "resolve",
           socket' = socket \/ socket' = Append(socket, m),
           UNCHANGED <<queue, pa, verdict, asked, answers>>
    PROVE  AnswerInv' /\ PlaceInv' /\ QueueInv' /\ RunOnlyIfApproved'
  <1>1. ASSUME NEW i \in 1 .. Len(socket'), socket'[i].type = "resolve"
        PROVE  socket'[i].answer \in answers
    <2>1. CASE socket' = socket
      BY <1>1, <2>1 DEF IInv, AnswerInv
    <2>2. CASE socket' = Append(socket, m)
      <3>1. PICK j \in 1 .. Len(socket) : socket'[i] = socket[j]
        BY <1>1, <2>2, AppendMembers DEF IInv, TypeOK
      <3> QED
        BY <1>1, <3>1 DEF IInv, AnswerInv
    <2> QED
      BY <2>1, <2>2
  <1>2. Approved => Approved'
    BY DEF Approved
  <1> QED
    BY <1>1, <1>2 DEF IInv, AnswerInv, PlaceInv, QueueInv, RunOnlyIfApproved

\* The browser: a request, a subscription, a disconnection.
LEMMA StreamKeeps ==
    ASSUME IInv, NEW c \in Chat, SendChat(c) \/ Subscribe(c) \/ Disconnect(c)
    PROVE  IInv'
  <1> DEFINE chat == Msg("chat", c, None)
             cancel == Msg("cancel", c, None)
  <1>1. /\ chat \in Message /\ cancel \in Message
        /\ chat.type # "resolve" /\ cancel.type # "resolve"
    BY MsgType DEF Msg
  <1>2. TypeOK'
    <2>1. /\ socket \in Seq(Message)
          /\ \/ socket' = socket
             \/ socket' = Append(socket, chat) /\ chat \in Message
             \/ socket' = Append(socket, cancel) /\ cancel \in Message
      BY <1>1 DEF SendChat, Subscribe, Disconnect, IInv, TypeOK
    <2>2. /\ stream' \in [Chat -> {"none", "sent", "open", "ended", "gone"}]
          /\ UNCHANGED <<over, queue, pa, stop, verdict, asked, answers>>
      BY DEF IInv, TypeOK, SendChat, Subscribe, Disconnect
    <2> HIDE DEF chat, cancel
    <2>3. socket' \in Seq(Message)
      BY <2>1
    <2> QED
      BY <2>2, <2>3 DEF IInv, TypeOK
  <1>3. CASE SendChat(c) \/ Subscribe(c)
    BY <1>1, <1>2, <1>3, SendKeeps DEF SendChat, Subscribe, IInv
  <1>4. CASE Disconnect(c)
    BY <1>1, <1>2, <1>4, SendKeeps DEF Disconnect, IInv
  <1> QED
    BY <1>3, <1>4

\* An answer is recorded as it is sent.
LEMMA AnswerKeeps ==
    ASSUME IInv, NEW c \in asked, NEW ok \in BOOLEAN, NEW fits \in Ids(c),
           AnswerGuard(c, fits, ok)
    PROVE  IInv'
  <1> DEFINE a == [to |-> c, fits |-> fits, ok |-> ok]
             m == Msg("resolve", c[1], a)
  <1>1. /\ socket' = Append(socket, m) /\ answers' = answers \cup {a}
        /\ UNCHANGED <<stream, over, queue, pa, stop, verdict, asked>>
    BY DEF AnswerGuard
  <1>2. c[1] \in Chat /\ a \in Answer /\ a.to \in asked
    BY AnswerType DEF IInv, TypeOK, ToolCall
  <1> HIDE DEF a
  <1>3. m \in Message /\ m.answer = a
    BY <1>2, MsgType DEF Msg
  <1> HIDE DEF m
  <1>4. TypeOK'
    BY <1>1, <1>2, <1>3 DEF IInv, TypeOK
  <1>5. ASSUME NEW i \in 1 .. Len(socket'), socket'[i].type = "resolve"
        PROVE  socket'[i].answer \in answers'
    <2>1. CASE socket'[i] = m
      BY <1>1, <1>3, <2>1
    <2>2. CASE \E j \in 1 .. Len(socket) : socket'[i] = socket[j]
      BY <1>1, <1>5, <2>2 DEF IInv, AnswerInv
    <2>3. i \in 1 .. Len(Append(socket, m)) /\ socket \in Seq(Message)
      BY <1>1, <1>5 DEF IInv, TypeOK
    <2>4. Append(socket, m)[i] = m \/ \E j \in 1 .. Len(socket) : Append(socket, m)[i] = socket[j]
      BY <1>3, <2>3, AppendMembers
    <2> QED
      BY <1>1, <2>1, <2>2, <2>4
  <1>6. Approved => Approved'
    BY <1>1 DEF Approved
  <1> QED
    BY <1>1, <1>4, <1>5, <1>6
    DEF IInv, AnswerInv, PlaceInv, QueueInv, RunOnlyIfApproved

\* A verdict is the answer to the confirmation that is pending.
LEMMA ReceiveKeeps ==
    ASSUME IInv, Receive
    PROVE  IInv'
  <1> DEFINE m == Head(socket)
  <1>1. /\ socket \in Seq(Message) /\ socket # <<>> /\ socket' = Tail(socket)
        /\ UNCHANGED <<stream, over, pa, asked, answers>>
    BY DEF Receive, IInv, TypeOK
  <1>2. /\ m \in Message /\ 1 \in 1 .. Len(socket) /\ m = socket[1]
        /\ socket' \in Seq(Message)
        /\ \A i \in 1 .. Len(socket') :
              i + 1 \in 1 .. Len(socket) /\ socket'[i] = socket[i + 1]
    BY <1>1, TailMembers
  <1>3. \A i \in 1 .. Len(socket') : socket'[i].type = "resolve" =>
            socket'[i].answer \in answers'
    BY <1>1, <1>2 DEF IInv, AnswerInv
  <1>4. \/ m.type = "chat" /\ queue' = Append(queue, m) /\ UNCHANGED <<stop, verdict>>
        \/ stop' \in BOOLEAN /\ UNCHANGED <<queue, verdict>>
        \/ m.type = "resolve" /\ Resolve(m) /\ UNCHANGED <<queue, stop>>
    BY DEF Receive, IInv, TypeOK
  <1> HIDE DEF m
  <1>5. /\ verdict' \in {"none", "yes", "no"}
        /\ pa.at = "guarded" /\ verdict' = "yes" => Approved
    <2>1. CASE m.type = "resolve" /\ Resolve(m)
      <3>1. m.answer \in answers /\ m.answer \in Answer
        BY <1>2, <2>1 DEF IInv, AnswerInv, TypeOK
      <3>2. <<pa.chat, pa.call>> \in m.answer.fits /\ m.answer.ok => Approved
        BY <3>1 DEF Answer, Ids, Approved
      <3> QED
        BY <2>1, <3>2 DEF Resolve, IInv, TypeOK, AnswerInv
    <2>2. CASE UNCHANGED verdict
      BY <2>2 DEF IInv, TypeOK, AnswerInv
    <2> QED
      BY <1>4, <2>1, <2>2
  <1>6. queue' \in Seq(Message) /\ QueueInv'
    <2>1. CASE m.type = "chat" /\ queue' = Append(queue, m)
      BY <1>2, <2>1, AppendMembers DEF IInv, TypeOK, QueueInv
    <2>2. CASE UNCHANGED queue
      BY <2>2 DEF IInv, TypeOK, QueueInv
    <2> QED
      BY <1>4, <2>1, <2>2
  <1>7. TypeOK'
    BY <1>1, <1>2, <1>4, <1>5, <1>6 DEF IInv, TypeOK
  <1>8. Approved => Approved'
    BY <1>1 DEF Approved
  <1> QED
    BY <1>1, <1>3, <1>5, <1>6, <1>7, <1>8 DEF IInv, AnswerInv, PlaceInv, RunOnlyIfApproved

\* The work loop takes a chat, because only chats are queued.
LEMMA TakeKeeps ==
    ASSUME IInv, Take
    PROVE  IInv'
  <1>1. /\ queue' \in Seq(Message) /\ Head(queue) \in Message
        /\ Head(queue).type = "chat"
        /\ \A i \in 1 .. Len(queue') :
              i + 1 \in 1 .. Len(queue) /\ queue'[i] = queue[i + 1]
    BY TailMembers DEF Take, IInv, TypeOK, QueueInv
  <1>2. /\ pa' = At("opening", Head(queue).chat) /\ Head(queue).chat \in Chat
        /\ UNCHANGED <<stream, over, socket, stop, verdict, asked, answers>>
    BY <1>1 DEF Take, Message
  <1>3. TypeOK'
    BY <1>1, <1>2, Counting DEF IInv, TypeOK, At, Place
  <1>4. AnswerInv' /\ PlaceInv' /\ RunOnlyIfApproved'
    BY <1>2 DEF IInv, AnswerInv, PlaceInv, RunOnlyIfApproved, At
  <1>5. QueueInv'
    BY <1>1 DEF IInv, QueueInv
  <1> QED
    BY <1>3, <1>4, <1>5 DEF IInv

\* A step of the work loop inside a chat, or to its end: what has to be shown is
\* only what the invariant says of the place the loop goes to.
LEMMA PlaceKeeps ==
    ASSUME IInv, UNCHANGED <<socket, queue, answers>>,
           pa' \in [at : Place, chat : Chat \cup {None}, plan : BOOLEAN, round : Round, attempt : Attempt, call : Call],
           pa'.at = "idle" \/ pa'.chat \in Chat,
           pa'.at = "guarded" => verdict' = "none",
           pa'.at = "approved" => Approved',
           stream' \in [Chat -> {"none", "sent", "open", "ended", "gone"}],
           over' \subseteq Chat, stop' \in BOOLEAN,
           verdict' \in {"none", "yes", "no"},
           asked' \subseteq ToolCall, asked \subseteq asked'
    PROVE  IInv'
  <1>1. TypeOK'
    BY DEF IInv, TypeOK
  <1>2. AnswerInv'
    BY DEF IInv, AnswerInv
  <1> QED
    BY <1>1, <1>2 DEF IInv, PlaceInv, QueueInv, RunOnlyIfApproved

\* A chat that ends keeps the types of the streams.
LEMMA PublishType ==
    ASSUME TypeOK, NEW c \in Chat, Publish(c)
    PROVE  /\ stream' \in [Chat -> {"none", "sent", "open", "ended", "gone"}]
           /\ over' \subseteq Chat
  BY DEF TypeOK, Publish

\* The work loop inside a chat.
LEMMA WorkKeeps ==
    ASSUME IInv, Work
    PROVE  IInv'
  <1>1. CASE Take
    BY <1>1, TakeKeeps
  <1>2. CASE Open
    BY <1>2, PlaceKeeps DEF Open, IInv, TypeOK, PlaceInv, Place
  <1>3. CASE Fail
    <2>1. pa.chat \in Chat
      BY <1>3 DEF Fail, IInv, PlaceInv
    <2>2. pa' \in [at : Place, chat : Chat \cup {None}, plan : BOOLEAN, round : Round, attempt : Attempt, call : Call]
      BY <1>3, Counting DEF Fail, Idle, At, Place
    <2> QED
      BY <1>3, <2>1, <2>2, PublishType, PlaceKeeps DEF Fail, IInv, TypeOK, Idle, At
  <1>4. CASE AskModel
    <2>1. pa' \in [at : Place, chat : Chat \cup {None}, plan : BOOLEAN, round : Round, attempt : Attempt, call : Call]
      BY <1>4, Counting DEF AskModel, IInv, TypeOK, Place
    <2> QED
      BY <1>4, <2>1, PlaceKeeps DEF AskModel, IInv, TypeOK, PlaceInv
  <1>5. CASE RetryModel \/ ModelAnswers
    <2>1. pa' \in [at : Place, chat : Chat \cup {None}, plan : BOOLEAN, round : Round,
                   attempt : Attempt, call : Call]
      BY <1>5, Counting DEF RetryModel, ModelAnswers, IInv, TypeOK, Place
    <2> QED
      BY <1>5, <2>1, PlaceKeeps DEF RetryModel, ModelAnswers, IInv, TypeOK, PlaceInv
  <1>6. CASE ChooseTool
    <2>1. /\ pa.chat \in Chat
          /\ pa' \in [at : Place, chat : Chat \cup {None}, plan : BOOLEAN, round : Round, attempt : Attempt, call : Call]
          /\ pa'.chat = pa.chat
          /\ pa'.at \in {"asking", "trusted", "unguarded", "guarded"}
      <3>1. pa.chat \in Chat
        BY <1>6 DEF ChooseTool, IInv, PlaceInv
      <3>2. CASE pa' = [pa EXCEPT !.at = "asking"]
        BY <3>1, <3>2 DEF IInv, TypeOK, Place
      <3>3. CASE pa.call < MaxCalls
                  /\ \E h \in Checked :
                        pa' = [pa EXCEPT !.at = h, !.call = @ + 1]
        <4>1. PICK h \in {"trusted", "unguarded", "guarded"} :
                  pa' = [pa EXCEPT !.at = h, !.call = @ + 1]
          BY <3>3 DEF Checked
        <4>2. pa.call + 1 \in Call
          BY <3>3, Counting DEF IInv, TypeOK
        <4> QED
          BY <3>1, <4>1, <4>2 DEF IInv, TypeOK, Place
      <3> QED
        BY <1>6, <3>2, <3>3 DEF ChooseTool, Checked
    <2>2. asked' \subseteq ToolCall /\ asked \subseteq asked'
      <3>1. CASE UNCHANGED asked
        BY <3>1 DEF IInv, TypeOK
      <3>2. CASE pa.call < MaxCalls /\ asked' = asked \cup {<<pa.chat, pa.call + 1>>}
        BY <2>1, <3>2, Counting DEF IInv, TypeOK, ToolCall
      <3> QED
        BY <1>6, <3>1, <3>2 DEF ChooseTool
    <2>3. /\ UNCHANGED <<socket, queue, answers, stream, over, stop>>
          /\ verdict' = "none"
      BY <1>6 DEF ChooseTool
    <2> QED
      BY <2>1, <2>2, <2>3, PlaceKeeps DEF IInv, TypeOK
  <1>7. CASE GuardResolved
    <2>1. /\ pa' \in [at : Place, chat : Chat \cup {None}, plan : BOOLEAN,
                     round : Round, attempt : Attempt, call : Call]
          /\ pa'.chat = pa.chat /\ pa'.call = pa.call /\ pa.chat \in Chat
          /\ pa'.at \in {"approved", "choosing"}
          /\ pa'.at = "approved" => verdict = "yes"
          /\ UNCHANGED <<stream, over, socket, queue, stop, verdict, asked, answers>>
      BY <1>7 DEF GuardResolved, IInv, TypeOK, PlaceInv, Place
    <2>2. pa'.at = "approved" => Approved
      BY <1>7, <2>1 DEF GuardResolved, IInv, AnswerInv
    <2>3. Approved => Approved'
      BY <2>1 DEF Approved
    <2> QED
      BY <2>1, <2>2, <2>3, PlaceKeeps DEF IInv, TypeOK
  <1>8. CASE GuardTimesOut \/ ToolEnds
    BY <1>8, PlaceKeeps DEF GuardTimesOut, ToolEnds, IInv, TypeOK, PlaceInv, Place
  <1>9. CASE Save
    <2>1. pa.chat \in Chat
      BY <1>9 DEF Save, IInv, PlaceInv
    <2> QED
      BY <1>9, <2>1, PublishType, PlaceKeeps DEF Save, IInv, TypeOK, Place
  <1>10. CASE Flush
    BY <1>10, Counting, PlaceKeeps DEF Flush, IInv, TypeOK, Idle, At, Place
  <1> QED
    BY <1>1, <1>2, <1>3, <1>4, <1>5, <1>6, <1>7, <1>8, <1>9, <1>10 DEF Work

-----------------------------------------------------------------------------
(* Theorems *)

\* The inductive invariant holds throughout: every verdict and every answer on
\* its way was given by a user, and the work loop works on a chat.
THEOREM InductiveInvariant == Spec => []IInv
  <1>1. IInv /\ [Next]_vars => IInv'
    <2> SUFFICES ASSUME IInv, [Next]_vars PROVE IInv'
      OBVIOUS
    <2>1. CASE UNCHANGED vars
      BY <2>1 DEF vars, IInv, TypeOK, AnswerInv, PlaceInv, QueueInv, RunOnlyIfApproved,
                  Approved
    <2> QED
      BY <2>1, StreamKeeps, AnswerKeeps, ReceiveKeeps, WorkKeeps DEF Next
  <1> QED
    BY InitInv, <1>1, PTL DEF Spec

\* A tool call of a reply that needs a confirmation runs only if a user approved
\* it, or typed a beginning that its id shares with the one that was approved,
\* for any number of chats, rounds, calls and answers, and whatever fails.
THEOREM ApprovedToolsOnly == Spec => []RunOnlyIfApproved
  <1>1. IInv => RunOnlyIfApproved
    BY DEF IInv
  <1> QED
    BY InductiveInvariant, <1>1, PTL

-----------------------------------------------------------------------------
(* Answers are heard *)

\* Where a chat waits when a message is put at the end.
LEMMA WaitsAppend ==
    ASSUME NEW s \in Seq(Message), NEW m \in Message
    PROVE  /\ \A c \in Chat : Waits(Append(s, m), c)
                 <=> Waits(s, c) \/ (m.type = "chat" /\ m.chat = c)
           /\ EachOnce(s) /\ (m.type = "chat" => ~Waits(s, m.chat))
                 => EachOnce(Append(s, m))
  <1> DEFINE t == Append(s, m)
  <1>1. /\ Len(s) \in Nat /\ Len(t) = Len(s) + 1 /\ t[Len(s) + 1] = m
        /\ \A i \in 1 .. Len(s) : t[i] = s[i]
    OBVIOUS
  <1>2. ASSUME NEW i \in 1 .. Len(t) PROVE i \in 1 .. Len(s) \/ i = Len(s) + 1
    BY <1>1
  <1>3. Len(s) + 1 \in 1 .. Len(t) /\ 1 .. Len(s) \subseteq 1 .. Len(t)
    BY <1>1
  <1> HIDE DEF t
  <1>4. ASSUME NEW c \in Chat
        PROVE  Waits(t, c) <=> Waits(s, c) \/ (m.type = "chat" /\ m.chat = c)
    BY <1>1, <1>2, <1>3 DEF Waits
  <1>5. ASSUME EachOnce(s), m.type = "chat" => ~Waits(s, m.chat)
        PROVE  EachOnce(t)
    <2> SUFFICES ASSUME NEW i \in 1 .. Len(t), NEW j \in 1 .. Len(t),
                        t[i].type = "chat", t[j].type = "chat",
                        t[i].chat = t[j].chat
                 PROVE  i = j
      BY DEF EachOnce
    <2>1. CASE i \in 1 .. Len(s) /\ j \in 1 .. Len(s)
      BY <1>1, <1>5, <2>1 DEF EachOnce
    <2>2. CASE i = Len(s) + 1 \/ j = Len(s) + 1
      BY <1>1, <1>2, <1>5, <2>2 DEF Waits
    <2> QED
      BY <1>2, <2>1, <2>2
  <1> QED
    BY <1>4, <1>5 DEF t

\* Where a chat waits when the first message is taken.
LEMMA WaitsTail ==
    ASSUME NEW s \in Seq(Message), s # <<>>
    PROVE  /\ \A c \in Chat : Waits(s, c)
                 <=> Waits(Tail(s), c) \/ (Head(s).type = "chat" /\ Head(s).chat = c)
           /\ EachOnce(s) =>
                 /\ EachOnce(Tail(s))
                 /\ Head(s).type = "chat" => ~Waits(Tail(s), Head(s).chat)
  <1> DEFINE t == Tail(s)
             h == Head(s)
  <1>1. /\ Len(s) \in Nat /\ Len(t) = Len(s) - 1 /\ h = s[1] /\ 1 \in 1 .. Len(s)
        /\ \A i \in 1 .. Len(t) : i + 1 \in 1 .. Len(s) /\ t[i] = s[i + 1] /\ i + 1 # 1
    OBVIOUS
  <1>2. ASSUME NEW i \in 1 .. Len(s), i # 1
        PROVE  i - 1 \in 1 .. Len(t) /\ t[i - 1] = s[i]
    BY <1>1, <1>2
  <1>3. \A i, j \in 1 .. Len(t) : i + 1 = j + 1 => i = j
    BY <1>1
  <1> HIDE DEF t, h
  <1>4. ASSUME NEW c \in Chat
        PROVE  Waits(s, c) <=> Waits(t, c) \/ (h.type = "chat" /\ h.chat = c)
    <2>1. ASSUME Waits(s, c) PROVE Waits(t, c) \/ (h.type = "chat" /\ h.chat = c)
      BY <1>1, <1>2, <2>1 DEF Waits
    <2>2. ASSUME Waits(t, c) \/ (h.type = "chat" /\ h.chat = c) PROVE Waits(s, c)
      BY <1>1, <2>2 DEF Waits
    <2> QED
      BY <2>1, <2>2
  <1>5. ASSUME EachOnce(s)
        PROVE  EachOnce(t) /\ (h.type = "chat" => ~Waits(t, h.chat))
    <2>1. EachOnce(t)
      <3> SUFFICES ASSUME NEW i \in 1 .. Len(t), NEW j \in 1 .. Len(t),
                          t[i].type = "chat", t[j].type = "chat",
                          t[i].chat = t[j].chat
                   PROVE  i = j
        BY DEF EachOnce
      <3>1. /\ i + 1 \in 1 .. Len(s) /\ t[i] = s[i + 1]
            /\ j + 1 \in 1 .. Len(s) /\ t[j] = s[j + 1]
        BY <1>1
      <3>2. i + 1 = j + 1
        BY <3>1, <1>5 DEF EachOnce
      <3> QED
        BY <3>2, <1>3
    <2>2. ASSUME h.type = "chat", Waits(t, h.chat) PROVE FALSE
      <3>1. PICK i \in 1 .. Len(t) : t[i].type = "chat" /\ t[i].chat = h.chat
        BY <2>2 DEF Waits
      <3>2. /\ i + 1 \in 1 .. Len(s) /\ t[i] = s[i + 1] /\ i + 1 # 1
            /\ 1 \in 1 .. Len(s) /\ h = s[1]
        BY <1>1
      <3>3. i + 1 = 1
        BY <2>2, <3>1, <3>2, <1>5 DEF EachOnce
      <3> QED
        BY <3>2, <3>3
    <2> QED
      BY <2>1, <2>2
  <1> QED
    BY <1>4, <1>5 DEF t, h

LEMMA HearingInit == Init => HearingInv
  <1> SUFFICES ASSUME Init PROVE HearingInv
    OBVIOUS
  <1>1. EachOnce(<<>>) /\ \A c \in Chat : ~Waits(<<>>, c)
    BY DEF EachOnce, Waits
  <1>2. pa.chat = None /\ pa.at = "idle"
    BY DEF Init, Idle, At
  <1> QED
    BY <1>1, <1>2, ChatAssumption DEF Init, HearingInv, OnceInv, AskedInv, HeardInv

\* A message that is no chat, or a chat that is new, is put at the end.
LEMMA SendHears ==
    ASSUME IInv, HearingInv, NEW m \in Message,
           socket' = Append(socket, m),
           UNCHANGED <<queue, pa, verdict, asked, answers>>,
           \A c \in Chat : stream'[c] = "none" => stream[c] = "none",
           m.type = "chat" => stream[m.chat] = "none" /\ stream'[m.chat] # "none"
    PROVE  HearingInv'
  <1>1. /\ socket \in Seq(Message) /\ asked \subseteq ToolCall
        /\ \A a \in asked : a[1] \in Chat
    BY DEF IInv, TypeOK, ToolCall
  <1>2. m.chat \in Chat
    BY DEF Message
  <1>3. /\ \A c \in Chat : Waits(socket', c)
              <=> Waits(socket, c) \/ (m.type = "chat" /\ m.chat = c)
        /\ EachOnce(socket')
    BY <1>1, <1>2, WaitsAppend DEF HearingInv, OnceInv
  <1>4. OnceInv'
    BY <1>2, <1>3 DEF HearingInv, OnceInv
  <1>5. AskedInv'
    BY <1>1, <1>2, <1>3 DEF HearingInv, AskedInv
  <1>6. \A i \in 1 .. Len(socket) : i \in 1 .. Len(socket') /\ socket'[i] = socket[i]
    BY <1>1
  <1>7. HeardInv'
    BY <1>6 DEF HearingInv, HeardInv
  <1> QED
    BY <1>4, <1>5, <1>7 DEF HearingInv

LEMMA StreamHears ==
    ASSUME IInv, HearingInv, NEW c \in Chat, SendChat(c) \/ Subscribe(c) \/ Disconnect(c)
    PROVE  HearingInv'
  <1>1. stream \in [Chat -> {"none", "sent", "open", "ended", "gone"}]
    BY DEF IInv, TypeOK
  <1>2. CASE SendChat(c)
    <2> DEFINE m == Msg("chat", c, None)
    <2>1. m \in Message /\ m.chat = c
      BY MsgType DEF Msg
    <2>2. socket' = Append(socket, m) /\ UNCHANGED <<queue, pa, verdict, asked, answers>>
      BY <1>2 DEF SendChat
    <2>3. /\ \A d \in Chat : stream'[d] = "none" => stream[d] = "none"
          /\ stream[c] = "none" /\ stream'[c] # "none"
      BY <1>1, <1>2 DEF SendChat
    <2> HIDE DEF m
    <2> QED
      BY <2>1, <2>2, <2>3, SendHears
  <1>3. CASE Subscribe(c) \/ Disconnect(c)
    <2> DEFINE m == Msg("cancel", c, None)
    <2>1. m \in Message /\ m.type # "chat"
      BY MsgType DEF Msg
    <2>2. /\ socket' = socket \/ socket' = Append(socket, m)
          /\ UNCHANGED <<queue, pa, verdict, asked, answers>>
      BY <1>3 DEF Subscribe, Disconnect
    <2>3. \A d \in Chat : stream'[d] = "none" <=> stream[d] = "none"
      BY <1>1, <1>3 DEF Subscribe, Disconnect
    <2> HIDE DEF m
    <2>4. CASE socket' = socket
      <3>1. \A a \in asked : a[1] \in Chat
        BY DEF IInv, TypeOK, ToolCall
      <3>2. OnceInv'
        BY <2>2, <2>3, <2>4 DEF HearingInv, OnceInv
      <3>3. AskedInv'
        BY <2>2, <2>3, <2>4, <3>1 DEF HearingInv, AskedInv
      <3>4. HeardInv'
        BY <2>2, <2>4 DEF HearingInv, HeardInv
      <3> QED
        BY <3>2, <3>3, <3>4 DEF HearingInv
    <2> QED
      BY <2>1, <2>2, <2>3, <2>4, SendHears
  <1> QED
    BY <1>2, <1>3

\* What is answered is on its way.
LEMMA AnswerHears ==
    ASSUME IInv, HearingInv, NEW c \in asked, NEW ok \in BOOLEAN, NEW fits \in Ids(c),
           AnswerGuard(c, fits, ok)
    PROVE  HearingInv'
  <1> DEFINE a == [to |-> c, fits |-> fits, ok |-> ok]
             m == Msg("resolve", c[1], a)
  <1>1. /\ socket' = Append(socket, m) /\ answers' = answers \cup {a}
        /\ UNCHANGED <<stream, queue, pa, verdict, asked>>
    BY DEF AnswerGuard
  <1>2. /\ c[1] \in Chat /\ c = <<c[1], c[2]>> /\ a \in Answer /\ a.to = c
        /\ socket \in Seq(Message)
        /\ \A b \in asked : b[1] \in Chat
    BY AnswerType DEF IInv, TypeOK, ToolCall
  <1> HIDE DEF a
  <1>3. m \in Message /\ m.type = "resolve"
    BY <1>2, MsgType DEF Msg
  <1>4. m = Msg("resolve", c[1], a)
    OBVIOUS
  <1> HIDE DEF m
  <1>5. /\ \A d \in Chat : Waits(socket', d) <=> Waits(socket, d)
        /\ EachOnce(socket')
    BY <1>1, <1>2, <1>3, WaitsAppend DEF HearingInv, OnceInv
  <1>6. OnceInv'
    BY <1>1, <1>5 DEF HearingInv, OnceInv
  <1>7. AskedInv'
    BY <1>1, <1>2, <1>5 DEF HearingInv, AskedInv
  <1>8. HeardInv'
    <2>1. /\ \A i \in 1 .. Len(socket) : i \in 1 .. Len(socket') /\ socket'[i] = socket[i]
          /\ Len(socket') \in 1 .. Len(socket') /\ socket'[Len(socket')] = m
      BY <1>1, <1>2, <1>3
    <2> SUFFICES ASSUME NEW b \in answers', pa.at = "guarded", verdict = "none",
                        b.to = <<pa.chat, pa.call>>
                 PROVE  \E i \in 1 .. Len(socket') :
                            socket'[i] = Msg("resolve", pa.chat, b)
      BY <1>1 DEF HeardInv
    <2>2. CASE b \in answers
      BY <2>1, <2>2 DEF HearingInv, HeardInv
    <2>3. CASE b = a
      <3>1. pa.chat = c[1]
        BY <1>2, <2>3
      <3> QED
        BY <1>4, <2>1, <2>3, <3>1
    <2> QED
      BY <1>1, <2>2, <2>3
  <1> QED
    BY <1>6, <1>7, <1>8 DEF HearingInv

\* A chat moves on to the queue; an answer to the pending confirmation decides it.
LEMMA ReceiveHears ==
    ASSUME IInv, HearingInv, Receive
    PROVE  HearingInv'
  <1> DEFINE m == Head(socket)
  <1>1. /\ socket \in Seq(Message) /\ socket # <<>> /\ socket' = Tail(socket)
        /\ queue \in Seq(Message)
        /\ UNCHANGED <<stream, over, pa, asked, answers>>
        /\ \A a \in asked : a[1] \in Chat
    BY DEF Receive, IInv, TypeOK, ToolCall
  <1>2. m \in Message /\ m.chat \in Chat
    BY <1>1, TailMembers DEF Message
  <1>3. /\ EachOnce(socket')
        /\ m.type = "chat" => ~Waits(socket', m.chat)
        /\ \A c \in Chat : Waits(socket, c)
              <=> Waits(socket', c) \/ (m.type = "chat" /\ m.chat = c)
    BY <1>1, WaitsTail DEF HearingInv, OnceInv
  <1>4. \/ m.type = "chat" /\ queue' = Append(queue, m) /\ UNCHANGED verdict
        \/ m.type = "cancel" /\ UNCHANGED <<queue, verdict>>
        \/ m.type = "resolve" /\ Resolve(m) /\ UNCHANGED queue
    BY DEF Receive
  <1> HIDE DEF m
  <1>5. /\ EachOnce(queue')
        /\ \A c \in Chat : Waits(queue', c)
              <=> Waits(queue, c) \/ (m.type = "chat" /\ m.chat = c)
    <2>1. CASE m.type = "chat"
      <3>1. queue' = Append(queue, m) /\ ~Waits(queue, m.chat)
        BY <1>2, <1>3, <1>4, <2>1 DEF HearingInv, OnceInv
      <3> QED
        BY <1>1, <1>2, <3>1, WaitsAppend DEF HearingInv, OnceInv
    <2>2. CASE m.type # "chat"
      BY <1>4, <2>2 DEF HearingInv, OnceInv
    <2> QED
      BY <2>1, <2>2
  <1>6. OnceInv'
    BY <1>1, <1>2, <1>3, <1>5 DEF HearingInv, OnceInv
  <1>7. AskedInv'
    BY <1>1, <1>2, <1>3, <1>5 DEF HearingInv, AskedInv
  <1>8. HeardInv'
    <2> SUFFICES ASSUME NEW a \in answers, pa.at = "guarded", verdict' = "none",
                        a.to = <<pa.chat, pa.call>>
                 PROVE  \E i \in 1 .. Len(socket') :
                            socket'[i] = Msg("resolve", pa.chat, a)
      BY <1>1 DEF HeardInv
    <2>0. <<pa.chat, pa.call>> \in a.fits
      BY DEF IInv, TypeOK, Answer, Ids
    <2>1. verdict = "none" /\ m # Msg("resolve", pa.chat, a)
      BY <1>4, <2>0 DEF Resolve, Msg
    <2>2. PICK i \in 1 .. Len(socket) : socket[i] = Msg("resolve", pa.chat, a)
      BY <2>1 DEF HearingInv, HeardInv
    <2>3. i # 1
      BY <1>1, <2>1, <2>2, TailMembers DEF m
    <2>4. i - 1 \in 1 .. Len(socket') /\ socket'[i - 1] = socket[i]
      BY <1>1, <2>3
    <2> QED
      BY <2>2, <2>4
  <1> QED
    BY <1>6, <1>7, <1>8 DEF HearingInv

\* A chat leaves the queue and is worked on: it waits nowhere any more.
LEMMA TakeHears ==
    ASSUME IInv, HearingInv, Take
    PROVE  HearingInv'
  <1> DEFINE c == Head(queue).chat
  <1>1. /\ queue \in Seq(Message) /\ queue # <<>> /\ queue' = Tail(queue)
        /\ Head(queue).type = "chat" /\ c \in Chat
        /\ \A a \in asked : a[1] \in Chat
        /\ UNCHANGED <<stream, over, socket, stop, verdict, asked, answers>>
    BY TailMembers DEF Take, IInv, TypeOK, QueueInv, Message, ToolCall
  <1>2. pa'.chat = c /\ pa'.at = "opening"
    BY <1>1 DEF Take, At
  <1>3. /\ EachOnce(queue') /\ ~Waits(queue', c)
        /\ \A d \in Chat : Waits(queue, d) <=> Waits(queue', d) \/ c = d
    BY <1>1, WaitsTail DEF HearingInv, OnceInv
  <1> HIDE DEF c
  <1>4. OnceInv'
    BY <1>1, <1>2, <1>3 DEF HearingInv, OnceInv
  <1>5. AskedInv'
    BY <1>1, <1>2, <1>3 DEF HearingInv, AskedInv
  <1>6. HeardInv'
    BY <1>2 DEF HeardInv
  <1> QED
    BY <1>4, <1>5, <1>6 DEF HearingInv

\* The work loop inside a chat, or to its end, where no confirmation becomes
\* pending.
LEMMA InsideHears ==
    ASSUME IInv, HearingInv, UNCHANGED <<socket, queue, asked, answers>>,
           \/ pa'.chat = None
           \/ pa'.chat = pa.chat /\ pa'.call \in Call /\ pa.call <= pa'.call,
           pa'.at # "guarded",
           \A c \in Chat : stream'[c] = "none" <=> stream[c] = "none"
    PROVE  HearingInv'
  <1>1. asked \subseteq Chat \X Call /\ pa.call \in Call
    BY DEF IInv, TypeOK, ToolCall
  <1>2. OnceInv'
    BY ChatAssumption DEF HearingInv, OnceInv
  <1>3. AskedInv'
    <2> SUFFICES ASSUME NEW a \in asked
                 PROVE  /\ stream'[a[1]] # "none" /\ ~Waits(socket', a[1]) /\ ~Waits(queue', a[1])
                        /\ pa'.chat = a[1] => a[2] <= pa'.call
      BY DEF AskedInv
    <2>1. a[1] \in Chat /\ a[2] \in Call
      BY <1>1
    <2>2. pa'.chat = a[1] => a[2] <= pa'.call
      BY <1>1, <2>1, ChatAssumption, BoundAssumption DEF HearingInv, AskedInv, Call
    <2> QED
      BY <2>1, <2>2 DEF HearingInv, AskedInv
  <1>4. HeardInv'
    BY DEF HeardInv
  <1> QED
    BY <1>2, <1>3, <1>4 DEF HearingInv

\* done and error are for streams that were asked for.
LEMMA PublishHears ==
    ASSUME TypeOK, NEW c \in Chat, Publish(c)
    PROVE  \A d \in Chat : stream'[d] = "none" <=> stream[d] = "none"
  BY DEF TypeOK, Publish

\* A confirmation that becomes pending is new: nobody has answered it.
LEMMA ChooseHears ==
    ASSUME IInv, HearingInv, ChooseTool
    PROVE  HearingInv'
  <1>1. /\ pa \in [at : Place, chat : Chat \cup {None}, plan : BOOLEAN, round : Round,
                    attempt : Attempt, call : Call]
        /\ asked \subseteq Chat \X Call /\ \A a \in answers : a.to \in asked
        /\ pa.chat \in Chat
    BY DEF ChooseTool, IInv, TypeOK, PlaceInv, ToolCall
  <1>2. UNCHANGED <<stream, socket, queue, answers>> /\ verdict' = "none"
    BY DEF ChooseTool
  <1>3. CASE pa' = [pa EXCEPT !.at = "asking"] /\ UNCHANGED asked
    <2>1. pa'.chat = pa.chat /\ pa'.call = pa.call /\ pa'.at = "asking"
      BY <1>1, <1>3
    <2>2. pa.call <= pa.call
      BY <1>1, BoundAssumption DEF Call
    <2> QED
      BY <1>1, <1>2, <1>3, <2>1, <2>2, InsideHears
  <1>4. ASSUME NEW checked \in Checked,
               pa' = [pa EXCEPT !.at = checked, !.call = @ + 1],
               asked' = IF checked = "guarded" /\ stream[pa.chat] = "open"
                        THEN asked \cup {<<pa.chat, pa.call + 1>>} ELSE asked
        PROVE  HearingInv'
    <2>1. /\ pa'.chat = pa.chat /\ pa'.call = pa.call + 1
          /\ pa.call \in Nat /\ \A n \in Call : n \in Nat
      BY <1>1, <1>4, BoundAssumption DEF Call
    <2>2. OnceInv'
      BY <1>2, <2>1 DEF HearingInv, OnceInv
    <2>3. AskedInv'
      <3> SUFFICES ASSUME NEW a \in asked'
                   PROVE  /\ stream[a[1]] # "none" /\ ~Waits(socket, a[1]) /\ ~Waits(queue, a[1])
                          /\ pa.chat = a[1] => a[2] <= pa.call + 1
        BY <1>2, <2>1 DEF AskedInv
      <3>1. CASE a \in asked
        <4>1. a[1] \in Chat /\ a[2] \in Nat
          BY <1>1, <2>1, <3>1
        <4>2. pa.chat = a[1] => a[2] <= pa.call
          BY <3>1 DEF HearingInv, AskedInv
        <4> QED
          BY <2>1, <3>1, <4>1, <4>2 DEF HearingInv, AskedInv
      <3>2. CASE a = <<pa.chat, pa.call + 1>> /\ stream[pa.chat] = "open"
        <4>1. ~Waits(socket, pa.chat) /\ ~Waits(queue, pa.chat)
          BY <1>1 DEF HearingInv, OnceInv
        <4> QED
          BY <2>1, <3>2, <4>1
      <3> QED
        BY <1>4, <3>1, <3>2
    <2>4. HeardInv'
      <3> SUFFICES ASSUME NEW a \in answers, a.to = <<pa.chat, pa.call + 1>>
                   PROVE  FALSE
        BY <1>2, <2>1 DEF HeardInv
      <3>1. <<pa.chat, pa.call + 1>> \in asked
        BY <1>1
      <3>2. pa.call + 1 <= pa.call
        BY <3>1 DEF HearingInv, AskedInv
      <3> QED
        BY <2>1, <3>2
    <2> QED
      BY <2>2, <2>3, <2>4 DEF HearingInv
  <1> QED
    BY <1>3, <1>4 DEF ChooseTool

LEMMA WorkHears ==
    ASSUME IInv, HearingInv, Work
    PROVE  HearingInv'
  <1>1. /\ pa \in [at : Place, chat : Chat \cup {None}, plan : BOOLEAN, round : Round,
                    attempt : Attempt, call : Call]
        /\ pa.call \in Call /\ pa.call <= pa.call
        /\ \A c \in Chat : stream[c] = "none" <=> stream[c] = "none"
    BY BoundAssumption DEF IInv, TypeOK, Call
  <1>2. CASE Take
    BY <1>2, TakeHears
  <1>3. CASE ChooseTool
    BY <1>3, ChooseHears
  <1>4. CASE Fail
    <2>1. pa.chat \in Chat /\ TypeOK
      BY <1>4 DEF Fail, IInv, PlaceInv
    <2>2. pa'.chat = None /\ pa'.at = "idle"
      BY <1>4 DEF Fail, Idle, At
    <2> QED
      BY <1>4, <2>1, <2>2, PublishHears, InsideHears DEF Fail
  <1>5. CASE Save
    <2>1. pa.chat \in Chat /\ TypeOK
      BY <1>5 DEF Save, IInv, PlaceInv
    <2>2. pa'.chat = pa.chat /\ pa'.call = pa.call /\ pa'.at = "flushing"
      BY <1>1, <1>5 DEF Save
    <2> QED
      BY <1>1, <1>5, <2>1, <2>2, PublishHears, InsideHears DEF Save
  <1>6. CASE Flush
    <2>1. pa'.chat = None /\ pa'.at = "idle"
      BY <1>6 DEF Flush, Idle, At
    <2> QED
      BY <1>1, <1>6, <2>1, InsideHears DEF Flush
  <1>7. CASE Open \/ AskModel \/ RetryModel \/ ModelAnswers \/ GuardResolved
             \/ GuardTimesOut \/ ToolEnds
    <2>1. /\ pa'.chat = pa.chat /\ pa'.call = pa.call /\ pa'.at # "guarded"
          /\ UNCHANGED <<stream, socket, queue, asked, answers>>
      BY <1>1, <1>7 DEF Open, AskModel, RetryModel, ModelAnswers, GuardResolved,
                        GuardTimesOut, ToolEnds
    <2> QED
      BY <1>1, <2>1, InsideHears
  <1> QED
    BY <1>2, <1>3, <1>4, <1>5, <1>6, <1>7 DEF Work

\* While a confirmation is pending, an answer to it is on its way or has decided
\* it, and no chat is in two places.
THEOREM AnswersAreOnTheirWay == Spec => []HearingInv
  <1>1. IInv /\ HearingInv /\ [Next]_vars => HearingInv'
    <2> SUFFICES ASSUME IInv, HearingInv, [Next]_vars PROVE HearingInv'
      OBVIOUS
    <2>1. CASE UNCHANGED vars
      BY <2>1 DEF vars, HearingInv, OnceInv, AskedInv, HeardInv
    <2> QED
      BY <2>1, StreamHears, AnswerHears, ReceiveHears, WorkHears DEF Next
  <1> QED
    BY HearingInit, InductiveInvariant, <1>1, PTL DEF Spec

\* The only way an answer is missed that was given in time: a chat that finds
\* the queue full is in front of it.
LEMMA MissedBehindAFullQueue ==
    ASSUME IInv, HearingInv, GuardTimesOut, NEW a \in answers,
           a.to = <<pa.chat, pa.call>>
    PROVE  Blocked
  BY DEF GuardTimesOut, ReceivedAll, HearingInv, HeardInv

\* A queue is full only if there are more chats than it has places for, besides
\* the one that is worked on and the one that waits in front of it.
LEMMA FullQueue ==
    ASSUME IInv, HearingInv, Blocked, pa.at # "idle", IsFiniteSet(Chat)
    PROVE  MaxQueue + 2 <= Cardinality(Chat)
  <1> DEFINE n == Len(queue)
             h == Head(socket).chat
             Place2 == 1 .. n + 2
             f == [i \in Place2 |-> IF i <= n THEN queue[i].chat
                                    ELSE IF i = n + 1 THEN pa.chat ELSE h]
  <1>1. /\ queue \in Seq(Message) /\ n \in Nat /\ MaxQueue \in Nat /\ n >= MaxQueue
        /\ socket \in Seq(Message) /\ socket # <<>> /\ Head(socket).type = "chat"
        /\ pa.chat \in Chat
    BY BoundAssumption DEF Blocked, IInv, TypeOK, PlaceInv
  <1>2. h \in Chat /\ Waits(socket, h)
    BY <1>1, TailMembers DEF Waits, Message
  <1>3. \A i \in 1 .. n : queue[i].chat \in Chat /\ queue[i].type = "chat"
    <2>1. \A i \in 1 .. Len(queue) : queue[i] \in Message
      BY <1>1
    <2> QED
      BY <2>1 DEF IInv, QueueInv, Message
  <1>4. \A i \in 1 .. n : queue[i].chat # pa.chat /\ queue[i].chat # h
    <2> SUFFICES ASSUME NEW i \in 1 .. n
                 PROVE  queue[i].chat # pa.chat /\ queue[i].chat # h
      OBVIOUS
    <2>1. Waits(queue, queue[i].chat) /\ queue[i].chat \in Chat
      BY <1>3 DEF Waits
    <2> QED
      BY <1>2, <2>1 DEF HearingInv, OnceInv
  <1>5. h # pa.chat
    BY <1>1, <1>2 DEF HearingInv, OnceInv
  <1>6. \A i, j \in 1 .. n : queue[i].chat = queue[j].chat => i = j
    BY <1>3 DEF HearingInv, OnceInv, EachOnce
  <1> HIDE DEF n, h
  <1>7. \A i \in Place2 : i \in 1 .. n \/ i = n + 1 \/ i = n + 2
    BY <1>1
  <1>8. /\ \A i \in 1 .. n : f[i] = queue[i].chat
        /\ f[n + 1] = pa.chat /\ f[n + 2] = h
    BY <1>1
  <1>9. f \in [Place2 -> Chat]
    BY <1>1, <1>2, <1>3, <1>7
  <1> HIDE DEF f
  <1>10. \A i, j \in Place2 : f[i] = f[j] => i = j
    <2> SUFFICES ASSUME NEW i \in Place2, NEW j \in Place2, f[i] = f[j] PROVE i = j
      OBVIOUS
    <2>1. CASE i \in 1 .. n /\ j \in 1 .. n
      BY <1>6, <1>8, <2>1
    <2>2. CASE i = n + 1 \/ j = n + 1
      BY <1>4, <1>5, <1>7, <1>8, <2>2
    <2>3. CASE i = n + 2 \/ j = n + 2
      BY <1>4, <1>5, <1>7, <1>8, <2>3
    <2> QED
      BY <1>7, <2>1, <2>2, <2>3
  <1>11. f \in Injection(Place2, Chat)
    BY <1>9, <1>10 DEF Injection, IsInjective
  <1>12. Cardinality(Place2) <= Cardinality(Chat)
    BY <1>11, FS_Injection
  <1>13. Cardinality(Place2) = n + 2
    <2> DEFINE k == n + 2
    <2>1. 1 \in Int /\ k \in Int /\ ~(1 > k) /\ k - 1 + 1 = k
      BY <1>1
    <2> HIDE DEF k
    <2>2. Cardinality(1 .. k) = IF 1 > k THEN 0 ELSE k - 1 + 1
      BY <2>1, FS_Interval
    <2> QED
      BY <2>1, <2>2 DEF k
  <1>14. Cardinality(Chat) \in Nat
    BY FS_CardinalityType
  <1> HIDE DEF Place2
  <1> QED
    BY <1>1, <1>12, <1>13, <1>14

\* An answer that was given in time decides, unless a chat that finds the queue
\* full is in front of it, for any chats, rounds, calls and answers.
THEOREM OnlyAFullQueueMissesAnswers ==
    Spec => [][GuardTimesOut =>
                  Blocked \/ \A a \in answers : a.to # <<pa.chat, pa.call>>]_vars
  <1> DEFINE Step == GuardTimesOut =>
                  Blocked \/ \A a \in answers : a.to # <<pa.chat, pa.call>>
  <1>1. IInv /\ HearingInv => [Step]_vars
    BY MissedBehindAFullQueue
  <1> QED
    BY <1>1, InductiveInvariant, AnswersAreOnTheirWay, PTL

\* As long as the queue has room for all chats of the session but the one that is
\* worked on and the next one, every answer that was given in time decides.
THEOREM AnswersDecide ==
    ASSUME IsFiniteSet(Chat), Cardinality(Chat) <= MaxQueue + 1
    PROVE  Spec => AnswerDecides
  <1> DEFINE Step == GuardTimesOut =>
                  \A a \in answers : a.to # <<pa.chat, pa.call>>
  <1>1. IInv /\ HearingInv => [Step]_vars
    <2> SUFFICES ASSUME IInv, HearingInv, GuardTimesOut, NEW a \in answers,
                        a.to = <<pa.chat, pa.call>>
                 PROVE  FALSE
      OBVIOUS
    <2>1. Blocked /\ pa.at # "idle"
      BY MissedBehindAFullQueue DEF GuardTimesOut
    <2>2. MaxQueue + 2 <= Cardinality(Chat)
      BY <2>1, FullQueue
    <2> QED
      BY <2>2, FS_CardinalityType, BoundAssumption
  <1> QED
    BY <1>1, InductiveInvariant, AnswersAreOnTheirWay, PTL DEF AnswerDecides

-----------------------------------------------------------------------------
(* The DingTalk worker *)

\* DingTalk sends chats and answers like everybody else: whatever it does is a
\* step of ChatSession, or changes nothing there.
LEMMA DingStep == DingNext => Next \/ UNCHANGED vars
  <1> SUFFICES ASSUME DingNext PROVE Next \/ UNCHANGED vars
    OBVIOUS
  <1>1. CASE \E m \in Ask : DeliverAsk(m) \/ StartFails(m)
    BY <1>1 DEF DeliverAsk, StartFails
  <1>2. CASE \E m \in Ask, c \in Chat : Post(m, c)
    BY <1>2 DEF Post, Next
  <1>3. CASE \E c \in Chat : Reply(c)
    BY <1>3 DEF Reply
  <1>4. CASE \E m \in Confirmation, c \in asked, ok \in BOOLEAN : DeliverConfirmation(m, c, ok)
    BY <1>4 DEF DeliverConfirmation, Next
  <1>5. CASE Browser
    BY <1>5, IdAssumption DEF Browser, Ids, Next
  <1>6. CASE (\E c \in Chat : Subscribe(c)) \/ Receive \/ Work
    BY <1>6 DEF Next
  <1> QED
    BY <1>1, <1>2, <1>3, <1>4, <1>5, <1>6 DEF DingNext, DingTalk

\* With DingTalk as a client, the chats are still the chats of ChatSession.
LEMMA DingTalkIsAClient == DingSpec => Spec
  <1>1. DingInit => Init
    BY DEF DingInit
  <1>2. [DingNext]_allVars => [Next]_vars
    BY DingStep DEF allVars
  <1> QED
    BY <1>1, <1>2, PTL DEF DingSpec, Spec

\* No DingTalk message and no redelivery runs a tool that was not approved.
THEOREM ApprovedToolsOnlyWithDingTalk == DingSpec => []RunOnlyIfApproved
  BY DingTalkIsAClient, ApprovedToolsOnly, PTL

\* Chats and answers that come through DingTalk as well leave every answer its
\* effect (dingtalk_stream_worker.py, _handle_message).
THEOREM AnswersDecideWithDingTalk ==
    ASSUME IsFiniteSet(Chat), Cardinality(Chat) <= MaxQueue + 1
    PROVE  DingSpec => AnswerDecides
  BY DingTalkIsAClient, AnswersDecide, PTL

\* A message that is handled is new to the table, so the last DedupMax messages
\* are others.
LEMMA AcceptKeeps ==
    ASSUME DingInv, NEW m \in MsgId, Accept(m), Remember(m)
    PROVE  /\ seen' \in Seq(MsgId) /\ handled' \in Seq(MsgId)
           /\ SeenInv' /\ HandledOnce'
  <1> DEFINE n == Len(handled)
             k == Len(seen)
  <1>1. /\ seen \in Seq(MsgId) /\ handled \in Seq(MsgId) /\ DedupMax \in Nat \ {0}
        /\ n \in Nat /\ k \in Nat
        /\ k = IF n < DedupMax THEN n ELSE DedupMax
        /\ \A i \in 1 .. k : seen[i] = handled[n - k + i]
        /\ \A i \in 1 .. k : seen[i] # m
        /\ handled' = Append(handled, m)
    <2>1. seen \in Seq(MsgId) /\ handled \in Seq(MsgId) /\ handled' = Append(handled, m)
      BY DEF DingInv, DingTypeOK, Accept
    <2>2. n \in Nat /\ k \in Nat
      BY <2>1
    <2>3. /\ k = IF n < DedupMax THEN n ELSE DedupMax
          /\ \A i \in 1 .. k : seen[i] = handled[n - k + i]
      BY DEF DingInv, SeenInv
    <2>4. \A i \in 1 .. k : seen[i] # m
      BY DEF Accept, IsDuplicate
    <2> QED
      BY <2>1, <2>2, <2>3, <2>4, DedupAssumption
  <1>2. /\ handled' \in Seq(MsgId) /\ Len(handled') = n + 1
        /\ \A i \in 1 .. n : handled'[i] = handled[i]
        /\ handled'[n + 1] = m
    BY <1>1
  <1>3. /\ seen' \in Seq(MsgId)
        /\ Len(seen') = (IF k >= DedupMax THEN k ELSE k + 1)
        /\ \A i \in 1 .. Len(seen') :
              seen'[i] = IF i = Len(seen') THEN m
                         ELSE IF k >= DedupMax THEN seen[i + 1] ELSE seen[i]
    <2>1. CASE k >= DedupMax
      <3>1. Tail(seen) \in Seq(MsgId) /\ Len(Tail(seen)) = k - 1
            /\ \A i \in 1 .. k - 1 : Tail(seen)[i] = seen[i + 1]
        BY <1>1, <2>1
      <3>2. seen' = Append(Tail(seen), m)
        BY <2>1 DEF Remember
      <3> QED
        BY <1>1, <2>1, <3>1, <3>2
    <2>2. CASE ~(k >= DedupMax)
      <3>1. seen' = Append(seen, m)
        BY <2>2 DEF Remember
      <3> QED
        BY <1>1, <2>2, <3>1
    <2> QED
      BY <2>1, <2>2
  <1>4. SeenInv'
    <2>1. Len(seen') = IF Len(handled') < DedupMax THEN Len(handled') ELSE DedupMax
      BY <1>1, <1>2, <1>3
    <2>2. ASSUME NEW i \in 1 .. Len(seen')
          PROVE  seen'[i] = handled'[Len(handled') - Len(seen') + i]
      <3>1. CASE i = Len(seen')
        BY <1>1, <1>2, <1>3, <3>1
      <3>2. CASE i # Len(seen') /\ k >= DedupMax
        <4>1. /\ Len(seen') = k /\ i + 1 \in 1 .. k
              /\ n - k + (i + 1) = n + 1 - k + i /\ n + 1 - k + i \in 1 .. n
          <5> HIDE DEF n, k
          <5> QED
            BY <1>1, <1>3, <3>2
        <4>2. seen'[i] = seen[i + 1] /\ seen[i + 1] = handled[n + 1 - k + i]
          BY <1>1, <1>3, <3>2, <4>1
        <4> QED
          BY <1>2, <4>1, <4>2
      <3>3. CASE i # Len(seen') /\ ~(k >= DedupMax)
        <4>1. Len(seen') = k + 1 /\ k = n /\ i \in 1 .. n /\ n - k + i = i
              /\ n + 1 - (k + 1) + i = i
          <5> HIDE DEF n, k
          <5> QED
            BY <1>1, <1>3, <3>3
        <4>2. seen'[i] = seen[i] /\ seen[i] = handled[i]
          BY <1>1, <1>3, <3>3, <4>1
        <4> QED
          BY <1>2, <4>1, <4>2
      <3> QED
        BY <3>1, <3>2, <3>3
    <2> QED
      BY <2>1, <2>2 DEF SeenInv
  <1>5. HandledOnce'
    <2> SUFFICES ASSUME NEW i \in 1 .. n + 1, NEW j \in 1 .. n + 1,
                        i < j, handled'[i] = handled'[j]
                 PROVE  j - i > DedupMax
      BY <1>2 DEF HandledOnce
    <2>1. CASE j \in 1 .. n
      BY <1>1, <1>2, <2>1 DEF DingInv, HandledOnce
    <2>2. CASE j = n + 1
      <3>1. i \in 1 .. n /\ handled[i] = m
        BY <1>1, <1>2, <2>2
      <3>2. ~(i > n - k)
        <4> SUFFICES ASSUME i > n - k PROVE FALSE
          OBVIOUS
        <4>1. i - (n - k) \in 1 .. k /\ n - k + (i - (n - k)) = i
          <5>1. n \in Nat /\ k \in Nat /\ i \in 1 .. n /\ i > n - k
            BY <1>1, <3>1
          <5> HIDE DEF n, k
          <5> QED
            BY <5>1
        <4> QED
          BY <1>1, <3>1, <4>1
      <3> QED
        BY <1>1, <2>2, <3>1, <3>2
    <2> QED
      BY <1>1, <2>1, <2>2
  <1> QED
    BY <1>2, <1>3, <1>4, <1>5

\* Steps that handle no new message leave the table and the history alone.
LEMMA DingKeeps ==
    ASSUME DingInv, TypeOK, [DingNext]_allVars
    PROVE  DingInv'
  <1> USE DEF DingInv
  <1>1. CASE \E m \in Ask : DeliverAsk(m)
    <2>1. PICK m \in Ask : DeliverAsk(m)
      BY <1>1
    <2>2. m \in MsgId /\ Accept(m) /\ Remember(m) /\ handler' = handler
      BY <2>1 DEF DeliverAsk, MsgId
    <2>3. starting' \in [Ask -> Nat]
      BY <2>1 DEF DeliverAsk, DingTypeOK
    <2> QED
      BY <2>2, <2>3, AcceptKeeps DEF DingTypeOK
  <1>2. CASE \E m \in Confirmation, c \in asked, ok \in BOOLEAN : DeliverConfirmation(m, c, ok)
    <2>1. PICK m \in Confirmation : Accept(m) /\ Remember(m) /\ UNCHANGED <<starting, handler>>
      BY <1>2 DEF DeliverConfirmation
    <2> QED
      BY <2>1, AcceptKeeps DEF DingTypeOK, MsgId
  <1>3. CASE \E m \in Ask, c \in Chat : StartFails(m) \/ Post(m, c)
    <2>1. UNCHANGED <<seen, handled>> /\ starting' \in [Ask -> Nat]
          /\ handler' \in [Chat -> Ask \cup {None}]
      BY <1>3 DEF StartFails, Post, DingTypeOK
    <2> QED
      BY <2>1 DEF DingTypeOK, SeenInv, HandledOnce
  <1>4. CASE \E c \in Chat : Reply(c)
    <2>1. UNCHANGED <<seen, handled, starting>> /\ handler' \in [Chat -> Ask \cup {None}]
      BY <1>4 DEF Reply, DingTypeOK
    <2> QED
      BY <2>1 DEF DingTypeOK, SeenInv, HandledOnce
  <1>5. CASE UNCHANGED dingVars
    BY <1>5 DEF dingVars, DingTypeOK, SeenInv, HandledOnce
  <1>6. CASE \E m \in Ask : StartFails(m)
    <2>1. UNCHANGED <<seen, handled, handler>> /\ starting' \in [Ask -> Nat]
      BY <1>6 DEF StartFails, DingTypeOK
    <2> QED
      BY <2>1 DEF DingTypeOK, SeenInv, HandledOnce
  <1> QED
    BY <1>1, <1>2, <1>3, <1>4, <1>5, <1>6 DEF DingNext, DingTalk, allVars

\* However often DingTalk delivers a message, and whatever becomes of its chat,
\* it is handled again only after DedupMax other messages.
THEOREM NoDuplicateIsHandled == DingSpec => []HandledOnce
  <1>1. DingInit => DingInv
    <2> SUFFICES ASSUME DingInit PROVE DingInv
      OBVIOUS
    <2>1. Len(seen) = 0 /\ Len(handled) = 0
      BY DEF DingInit
    <2>2. DingTypeOK
      BY DEF DingInit, DingTypeOK
    <2> QED
      BY <2>1, <2>2, DedupAssumption DEF DingInv, SeenInv, HandledOnce
  <1>2. IInv => TypeOK
    BY DEF IInv
  <1>3. DingInv => HandledOnce
    BY DEF DingInv
  <1>4. DingInv /\ TypeOK /\ [DingNext]_allVars => DingInv'
    BY DingKeeps
  <1> QED
    BY <1>1, <1>2, <1>3, <1>4, DingTalkIsAClient, InductiveInvariant, PTL DEF DingSpec
=============================================================================
