------------------------------ MODULE ChatSession ------------------------------
(***************************************************************************)
(* The chats of one session, from the browser to the assistant and back:   *)
(* the event streams of api/v1/endpoints/agent.py, the receive loop and    *)
(* the work loop of zmq_bus/pa_daemon.py, the tool loop of                  *)
(* PersonalAssistant.reply_stream, and the confirmations of                *)
(* tools/tool_guard.py.                                                    *)
(*                                                                         *)
(* `socket' is what the broker has forwarded to the worker (what it loses  *)
(* on the way is the business of SchedulerBroker), in order.  The receive  *)
(* loop puts chats on a bounded queue and handles cancellations and        *)
(* confirmations itself; the work loop answers one chat at a time.         *)
(***************************************************************************)
EXTENDS Naturals, Sequences, FiniteSets

CONSTANTS
    Chat,       \* msg_ids; each one is used once
    None,       \* no chat
    MaxQueue,   \* the size of the task queue (256 in AgentDaemon)
    MaxRounds,  \* MAX_TOOL_ROUNDS, and MAX_PLAN_TOOL_ROUNDS: how often a chat
                \* may ask the model
    MaxAttempts,\* LLM_MAX_RETRIES + 1: how often a round calls the model
    MaxCalls,   \* bound: the tool calls of a chat
    MaxAnswers, \* bound: the answers to confirmations
    Prefix,     \* the beginnings of request ids that users type, each as the
                \* set of the confirmations whose ids begin that way
    Faults      \* what may go wrong, a subset of FaultKind

FaultKind == {
    "model",       \* the model call raises
    "database",    \* preparing the chat or saving the reply raises
    "disconnect"}  \* a browser leaves its stream

ASSUME ChatAssumption == None \notin Chat
ASSUME BoundAssumption ==
    /\ {MaxQueue, MaxAttempts} \subseteq Nat \ {0}
    /\ {MaxRounds, MaxCalls, MaxAnswers} \subseteq Nat
ASSUME PrefixAssumption == Prefix \subseteq SUBSET (Chat \X (0 .. MaxCalls))
ASSUME ChatFaultAssumption == Faults \subseteq FaultKind

VARIABLES
    stream,   \* the event stream of each chat
    over,     \* the chats whose done or error event was published
    socket,   \* the messages that wait for the receive loop
    queue,    \* the messages that wait for the work loop
    pa,       \* where the work loop is, with which chat and tool call; plan
              \* says whether plan mode answers the chat
    stop,     \* _cancelled of the assistant that answers
    verdict,  \* of the confirmation that is pending: approved, and its event
    asked,    \* the confirmations a browser has shown: <<chat, call>>
    answers   \* what users answered so far

vars == <<stream, over, socket, queue, pa, stop, verdict, asked, answers>>

Round == 0 .. MaxRounds
Attempt == 0 .. MaxAttempts
Call == 0 .. MaxCalls
Place == {"idle", "opening", "asking", "streaming", "choosing", "guarded",
          "approved", "trusted", "unguarded", "saving", "flushing"}

\* A tool call, which may ask for a confirmation.
ToolCall == Chat \X Call

\* The ids that may be sent in answer to c: the whole one, or a beginning.
Ids(c) == {{c}} \cup {p \in Prefix : c \in p}

\* An answer is given to a confirmation; what is sent is an id, which fits all
\* the confirmations whose ids begin with it, and the verdict.
Answer == {a \in [to : ToolCall, fits : SUBSET ToolCall, ok : BOOLEAN] :
              a.fits \in Ids(a.to)}

Message == [type : {"chat", "cancel", "resolve"}, chat : Chat, answer : Answer \cup {None}]
At(place, c) ==
    [at |-> place, chat |-> c, plan |-> FALSE, round |-> 0, attempt |-> 0, call |-> 0]
Idle == At("idle", None)

TypeOK ==
    /\ stream \in [Chat -> {"none", "sent", "open", "ended", "gone"}]
    /\ over \subseteq Chat
    /\ socket \in Seq(Message)
    /\ queue \in Seq(Message)
    /\ pa \in [at : Place, chat : Chat \cup {None}, plan : BOOLEAN, round : Round,
               attempt : Attempt, call : Call]
    /\ stop \in BOOLEAN
    /\ verdict \in {"none", "yes", "no"}
    /\ asked \subseteq ToolCall
    /\ answers \subseteq {a \in Answer : a.to \in asked}

Init ==
    /\ stream = [c \in Chat |-> "none"]
    /\ over = {}
    /\ socket = <<>>
    /\ queue = <<>>
    /\ pa = Idle
    /\ stop = FALSE
    /\ verdict = "none"
    /\ asked = {}
    /\ answers = {}

Msg(type, c, a) == [type |-> type, chat |-> c, answer |-> a]

-----------------------------------------------------------------------------
(* The browser and its event stream: _chat_via_zmq, EventSubscriber *)

\* The request goes out before the stream subscribes to the answer.
SendChat(c) ==
    /\ stream[c] = "none"
    /\ stream' = [stream EXCEPT ![c] = "sent"]
    /\ socket' = Append(socket, Msg("chat", c, None))
    /\ UNCHANGED <<over, queue, pa, stop, verdict, asked, answers>>

Subscribe(c) ==
    /\ stream[c] = "sent"
    /\ stream' = [stream EXCEPT ![c] = "open"]
    /\ UNCHANGED <<over, socket, queue, pa, stop, verdict, asked, answers>>

\* done or error of chat c: a stream that has not subscribed yet misses it.
Publish(c) ==
    /\ over' = over \cup {c}
    /\ stream' = [stream EXCEPT ![c] = IF @ = "open" THEN "ended" ELSE @]

\* The browser leaves.  A stream that is interrupted while it passes an event
\* on sends CHAT_CANCEL; one that waits for an event just ends, because
\* __anext__ turns the cancellation into the end of the iteration.
Disconnect(c) ==
    /\ "disconnect" \in Faults
    /\ stream[c] = "open"
    /\ stream' = [stream EXCEPT ![c] = "gone"]
    /\ \/ socket' = Append(socket, Msg("cancel", c, None))
       \/ UNCHANGED socket
    /\ UNCHANGED <<over, queue, pa, stop, verdict, asked, answers>>

\* Whoever has seen the request of a confirmation may answer it, more than once
\* and also too late; fits is what the id in the answer fits.
AnswerGuard(c, fits, ok) ==
    LET a == [to |-> c, fits |-> fits, ok |-> ok] IN
    /\ a \notin answers /\ Cardinality(answers) < MaxAnswers
    /\ answers' = answers \cup {a}
    /\ socket' = Append(socket, Msg("resolve", c[1], a))
    /\ UNCHANGED <<stream, over, queue, pa, stop, verdict, asked>>

-----------------------------------------------------------------------------
(* The receive loop: PADaemon._recv_loop *)

\* A chat has to wait for room in the queue, and whatever is behind it too.
Blocked ==
    /\ socket # <<>>
    /\ Head(socket).type = "chat"
    /\ Len(queue) >= MaxQueue

\* There is nothing left for the receive loop to do.
ReceivedAll == socket = <<>> \/ Blocked

\* Mutant: the answer goes to whichever confirmation is pending.
ResolveAny(m) ==
    verdict' = IF pa.at = "guarded" THEN IF m.answer.ok THEN "yes" ELSE "no"
                                    ELSE verdict

\* ToolGuardManager.resolve: the id fits the confirmation that is pending, whole
\* or as its beginning (a worker has one at a time, so no other fits as well),
\* or the answer finds nothing.
Resolve(m) ==
    verdict' = IF pa.at = "guarded" /\ <<pa.chat, pa.call>> \in m.answer.fits
               THEN IF m.answer.ok THEN "yes" ELSE "no"
               ELSE verdict

\* Mutant: confirmations wait in the queue like everything else.
ReceiveInOrder ==
    /\ socket # <<>>
    /\ ~Blocked
    /\ socket' = Tail(socket)
    /\ queue' = Append(queue, Head(socket))
    /\ UNCHANGED <<stream, over, pa, stop, verdict, asked, answers>>

\* CHAT_CANCEL stops the assistant that answers, whichever chat it answers.
Receive ==
    /\ socket # <<>>
    /\ ~Blocked
    /\ socket' = Tail(socket)
    /\ LET m == Head(socket) IN
       \/ /\ m.type = "chat"
          /\ queue' = Append(queue, m)
          /\ UNCHANGED <<stop, verdict>>
       \/ /\ m.type = "cancel"
          /\ stop' = (stop \/ pa.at \notin {"idle", "opening"})
          /\ UNCHANGED <<queue, verdict>>
       \/ /\ m.type = "resolve"
          /\ Resolve(m)
          /\ UNCHANGED <<queue, stop>>
    /\ UNCHANGED <<stream, over, pa, asked, answers>>

-----------------------------------------------------------------------------
(* The work loop: AgentDaemon._work_loop, PADaemon._handle_chat *)

Take ==
    /\ pa.at = "idle"
    /\ queue # <<>>
    /\ queue' = Tail(queue)
    /\ pa' = IF Head(queue).type = "chat" THEN At("opening", Head(queue).chat) ELSE pa
    /\ UNCHANGED <<stream, over, socket, stop, verdict, asked, answers>>

\* A new assistant, which nobody has cancelled.  What is said may start a plan,
\* or be about one: then the handlers of plan mode answer.
Open ==
    /\ pa.at = "opening"
    /\ \E plan \in BOOLEAN : pa' = [pa EXCEPT !.at = "asking", !.plan = plan]
    /\ stop' = FALSE
    /\ UNCHANGED <<stream, over, socket, queue, verdict, asked, answers>>

\* Mutant: the exception is logged and no error event is published.
FailSilently ==
    /\ \/ "model" \in Faults /\ pa.at = "streaming"
       \/ "database" \in Faults /\ pa.at \in {"opening", "asking", "saving"}
    /\ pa' = Idle
    /\ UNCHANGED <<stream, over, socket, queue, stop, verdict, asked, answers>>

\* An exception ends the chat with an error event.
Fail ==
    /\ \/ "model" \in Faults /\ pa.at = "streaming"
       \/ "database" \in Faults /\ pa.at \in {"opening", "asking", "saving"}
    /\ Publish(pa.chat)
    /\ pa' = Idle
    /\ UNCHANGED <<socket, queue, stop, verdict, asked, answers>>

\* The checkpoints of a reply; the handlers of plan mode have none.
Cancelled == stop /\ ~pa.plan

\* Checkpoint 1, at the start of each round.  Some handlers of plan mode answer
\* without the model, and none asks it again after a text.
AskModel ==
    /\ pa.at = "asking"
    /\ \/ /\ Cancelled \/ pa.plan \/ pa.round = MaxRounds
          /\ pa' = [pa EXCEPT !.at = "saving"]
       \/ /\ ~Cancelled /\ pa.round < MaxRounds
          /\ pa' = [pa EXCEPT !.at = "streaming", !.round = @ + 1, !.attempt = 1]
    /\ UNCHANGED <<stream, over, socket, queue, stop, verdict, asked, answers>>

\* The call fails, or its stream breaks off, with an error that may pass: the
\* whole request is made again, as long as the round has attempts left.
RetryModel ==
    /\ "model" \in Faults
    /\ pa.at = "streaming" /\ pa.attempt < MaxAttempts
    /\ pa' = [pa EXCEPT !.attempt = @ + 1]
    /\ UNCHANGED <<stream, over, socket, queue, stop, verdict, asked, answers>>

\* Checkpoint 2, and the end of the stream: the model wants tools or not.
ModelAnswers ==
    /\ pa.at = "streaming"
    /\ \E next \in {"choosing", "saving"} :
          pa' = [pa EXCEPT !.at = next, !.attempt = 0]
    /\ UNCHANGED <<stream, over, socket, queue, stop, verdict, asked, answers>>

\* ToolGuardManager.check: rules, levels and thresholds are the users' and may
\* change between any two calls, so each call may be trusted or not.  The loop
\* that collects what a plan needs runs its tools without a check.
Checked == IF pa.plan THEN {"unguarded"} ELSE {"trusted", "guarded"}

\* Checkpoint 3: another tool call of this round, or none.  The confirmation of
\* a call is shown by a stream that listens.
ChooseTool ==
    /\ pa.at = "choosing"
    /\ \/ /\ pa' = [pa EXCEPT !.at = "asking"]
          /\ UNCHANGED asked
       \/ \E checked \in Checked :
             /\ ~Cancelled /\ pa.call < MaxCalls
             /\ pa' = [pa EXCEPT !.at = checked, !.call = @ + 1]
             /\ asked' = IF checked = "guarded" /\ stream[pa.chat] = "open"
                         THEN asked \cup {<<pa.chat, pa.call + 1>>} ELSE asked
    /\ verdict' = "none"
    /\ UNCHANGED <<stream, over, socket, queue, stop, answers>>

\* The event of the confirmation is set; what counts is the last verdict.
GuardResolved ==
    /\ pa.at = "guarded"
    /\ verdict # "none"
    /\ pa' = [pa EXCEPT !.at = IF verdict = "yes" THEN "approved" ELSE "choosing"]
    /\ UNCHANGED <<stream, over, socket, queue, stop, verdict, asked, answers>>

\* Five minutes are long enough to receive everything that can be received; an
\* answer that is on its way when they end is one given after the timeout.
GuardTimesOut ==
    /\ pa.at = "guarded"
    /\ verdict = "none"
    /\ ReceivedAll
    /\ pa' = [pa EXCEPT !.at = "choosing"]
    /\ UNCHANGED <<stream, over, socket, queue, stop, verdict, asked, answers>>

ToolEnds ==
    /\ pa.at \in {"approved", "trusted", "unguarded"}
    /\ pa' = [pa EXCEPT !.at = "choosing"]
    /\ UNCHANGED <<stream, over, socket, queue, stop, verdict, asked, answers>>

\* The reply is committed, then done is published.
Save ==
    /\ pa.at = "saving"
    /\ Publish(pa.chat)
    /\ pa' = [pa EXCEPT !.at = "flushing"]
    /\ UNCHANGED <<socket, queue, stop, verdict, asked, answers>>

\* maybe_flush, after done; an error event it causes is for nobody.
Flush ==
    /\ pa.at = "flushing"
    /\ pa' = Idle
    /\ UNCHANGED <<stream, over, socket, queue, stop, verdict, asked, answers>>

-----------------------------------------------------------------------------

Work ==
    \/ Take \/ Open \/ Fail \/ AskModel \/ RetryModel \/ ModelAnswers \/ ChooseTool
    \/ GuardResolved \/ GuardTimesOut \/ ToolEnds \/ Save \/ Flush

Next ==
    \/ \E c \in Chat : SendChat(c) \/ Subscribe(c) \/ Disconnect(c)
    \/ \E c \in asked, ok \in BOOLEAN : \E fits \in Ids(c) : AnswerGuard(c, fits, ok)
    \/ Receive \/ Work

Spec == Init /\ [][Next]_vars

\* Both loops go on: model calls, tools and waits end, by timeouts if need be.
\* A stream that was asked for subscribes.
Fairness ==
    /\ WF_vars(Receive)
    /\ WF_vars(Work)
    /\ \A c \in Chat : WF_vars(Subscribe(c))

FairSpec == Spec /\ Fairness

-----------------------------------------------------------------------------
(* Properties *)

\* A user approved the call, or typed a beginning of an id that fits it as well.
Approved ==
    \E a \in answers :
        /\ a.ok
        /\ \/ a.to = <<pa.chat, pa.call>>
           \/ a.fits \in Prefix /\ <<pa.chat, pa.call>> \in a.fits

\* In a reply, a tool call that needs a confirmation runs only if a user approved
\* this very call, or answered another one with a beginning that their ids share:
\* neither silence nor any other answer starts it, however late answers arrive.
RunOnlyIfApproved == pa.at = "approved" => Approved

\* The answer of a user is heard: no confirmation runs into its timeout after
\* it was answered, because answers pass the queued chats by.
AnswerDecides ==
    [][GuardTimesOut => \A a \in answers : a.to # <<pa.chat, pa.call>>]_vars

\* Every chat that is sent ends with done or error, whatever the model, the
\* tools and the users do, and although all chats share one work loop.
EveryChatEnds == \A c \in Chat : stream[c] # "none" ~> c \in over

-----------------------------------------------------------------------------
(* The inductive invariant behind RunOnlyIfApproved *)

\* Every confirmation under way, and every verdict, was given by a user.
AnswerInv ==
    /\ \A i \in 1 .. Len(socket) :
          socket[i].type = "resolve" => socket[i].answer \in answers
    /\ pa.at = "guarded" /\ verdict = "yes" => Approved

\* The work loop has a chat when it works.
PlaceInv == pa.at # "idle" => pa.chat \in Chat

\* Only chats are queued.
QueueInv == \A i \in 1 .. Len(queue) : queue[i].type = "chat"

IInv == TypeOK /\ AnswerInv /\ PlaceInv /\ QueueInv /\ RunOnlyIfApproved

-----------------------------------------------------------------------------
(* The inductive invariant behind AnswerDecides *)

\* A chat waits in the messages.
Waits(messages, c) ==
    \E i \in 1 .. Len(messages) : messages[i].type = "chat" /\ messages[i].chat = c

\* No chat waits twice in the messages.
EachOnce(messages) ==
    \A i, j \in 1 .. Len(messages) :
        /\ messages[i].type = "chat" /\ messages[j].type = "chat"
        /\ messages[i].chat = messages[j].chat
        => i = j

\* A chat is in one place, if it was sent at all.
OnceInv ==
    /\ EachOnce(socket) /\ EachOnce(queue)
    /\ \A c \in Chat :
          /\ ~(Waits(socket, c) /\ Waits(queue, c))
          /\ stream[c] = "none" \/ pa.chat = c => ~Waits(socket, c) /\ ~Waits(queue, c)
          /\ stream[c] = "none" => pa.chat # c

\* The confirmations that were shown belong to chats that were begun, and to calls
\* that were chosen: none is shown, hence none is answered, beforehand.
AskedInv ==
    \A a \in asked :
        /\ stream[a[1]] # "none" /\ ~Waits(socket, a[1]) /\ ~Waits(queue, a[1])
        /\ pa.chat = a[1] => a[2] <= pa.call

\* While a confirmation is pending, an answer to it is still on its way.
HeardInv ==
    \A a \in answers :
        pa.at = "guarded" /\ verdict = "none" /\ a.to = <<pa.chat, pa.call>>
        => \E i \in 1 .. Len(socket) : socket[i] = Msg("resolve", pa.chat, a)

HearingInv == OnceInv /\ AskedInv /\ HeardInv

=============================================================================
