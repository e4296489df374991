---------------------------- MODULE DingTalkChat ----------------------------
(***************************************************************************)
(* The DingTalk worker (channels/dingtalk_stream_worker.py) as one more    *)
(* client of the chats of ChatSession.                                     *)
(*                                                                         *)
(* The SDK calls _handle_message for every message, concurrently, and      *)
(* acknowledges a message only when its handler has returned.  A handler   *)
(* waits for the whole reply, which takes minutes: DingTalk delivers the   *)
(* message again in the meantime.  The handlers share a table of the last  *)
(* DedupMax message ids (dingtalk_api.is_duplicate_msg), and a message     *)
(* whose id is in it is dropped.                                           *)
(***************************************************************************)
EXTENDS ChatSession

CONSTANTS
    Ask,          \* msgIds of messages to the assistant
    Confirmation, \* msgIds of messages that answer a confirmation
    WebChat,      \* msg_ids that the web interface uses; DingTalk uses the others
    DedupMax,     \* _DEDUP_MAX
    MaxHandled    \* bound: the messages that are handled

ASSUME IdAssumption == None \notin Ask /\ Ask \cap Confirmation = {} /\ WebChat \subseteq Chat
ASSUME DedupAssumption == DedupMax \in Nat \ {0} /\ MaxHandled \in Nat

VARIABLES
    seen,      \* _seen_msg_ids, the oldest first
    handled,   \* history: the messages that were handled, in order
    starting,  \* how many handlers of a message have not sent their chat yet
    handler    \* the message whose handler waits for the answer to a chat

dingVars == <<seen, handled, starting, handler>>
allVars == <<vars, dingVars>>

MsgId == Ask \cup Confirmation

DingTypeOK ==
    /\ seen \in Seq(MsgId)
    /\ handled \in Seq(MsgId)
    /\ starting \in [Ask -> Nat]
    /\ handler \in [Chat -> Ask \cup {None}]

DingInit ==
    /\ Init
    /\ seen = <<>>
    /\ handled = <<>>
    /\ starting = [m \in Ask |-> 0]
    /\ handler = [c \in Chat |-> None]

-----------------------------------------------------------------------------

IsDuplicate(m) == \E i \in 1 .. Len(seen) : seen[i] = m

\* The id goes into the table before the handler does anything else, and drives
\* the oldest one out when the table is full.
Remember(m) ==
    seen' = Append(IF Len(seen) >= DedupMax THEN Tail(seen) ELSE seen, m)

\* A message that is no duplicate.  Deliveries of a duplicate change nothing.
Accept(m) ==
    /\ ~IsDuplicate(m) /\ Len(handled) < MaxHandled
    /\ handled' = Append(handled, m)

\* Mutant: the id is remembered when the message has been answered.
DeliverAskForgetful(m) ==
    /\ Accept(m)
    /\ starting' = [starting EXCEPT ![m] = @ + 1]
    /\ UNCHANGED <<seen, handler, vars>>

\* A handler starts: the session's row is written and the worker ensured.
DeliverAsk(m) ==
    /\ Accept(m) /\ Remember(m)
    /\ starting' = [starting EXCEPT ![m] = @ + 1]
    /\ UNCHANGED <<handler, vars>>

\* The database or the scheduler refuses: the exception is logged, the message
\* acknowledged, and its next delivery is a duplicate.
StartFails(m) ==
    /\ "database" \in Faults
    /\ starting[m] > 0
    /\ starting' = [starting EXCEPT ![m] = @ - 1]
    /\ UNCHANGED <<seen, handled, handler, vars>>

\* The handler sends the message as a chat of the session.
Post(m, c) ==
    /\ starting[m] > 0 /\ c \notin WebChat
    /\ SendChat(c)
    /\ starting' = [starting EXCEPT ![m] = @ - 1]
    /\ handler' = [handler EXCEPT ![c] = m]
    /\ UNCHANGED <<seen, handled>>

\* done or error ends the wait; the text that was collected is sent back, and
\* the handler returns whether that succeeds or not.
Reply(c) ==
    /\ handler[c] # None /\ stream[c] = "ended"
    /\ handler' = [handler EXCEPT ![c] = None]
    /\ UNCHANGED <<seen, handled, starting, vars>>

\* "confirm <id>" and "cancel <id>" go past the chats.  (Bound: once per msgId,
\* a confirmation that was driven out of the table is not delivered again.)
\* DingTalk shows the beginning of an id; any beginning of it will do.
DeliverConfirmation(m, c, ok) ==
    /\ \A i \in 1 .. Len(handled) : handled[i] # m
    /\ Accept(m) /\ Remember(m)
    /\ \E fits \in Ids(c) : AnswerGuard(c, fits, ok)
    /\ UNCHANGED <<starting, handler>>

-----------------------------------------------------------------------------

DingTalk ==
    \/ \E m \in Ask : DeliverAsk(m) \/ StartFails(m)
    \/ \E m \in Ask, c \in Chat : Post(m, c)
    \/ \E c \in Chat : Reply(c)
    \/ \E m \in Confirmation, c \in asked, ok \in BOOLEAN : DeliverConfirmation(m, c, ok)

\* The web interface uses the same session: it is in the list of sessions.  It
\* answers with whole ids.
Browser ==
    \/ \E c \in WebChat : SendChat(c) \/ Disconnect(c)
    \/ \E c \in asked, ok \in BOOLEAN : AnswerGuard(c, {c}, ok)

DingNext ==
    \/ DingTalk
    \/ /\ Browser \/ (\E c \in Chat : Subscribe(c)) \/ Receive \/ Work
       /\ UNCHANGED dingVars

DingSpec == DingInit /\ [][DingNext]_allVars

FairDingSpec == DingSpec /\ Fairness

-----------------------------------------------------------------------------
(* Properties *)

\* A message is handled a second time only if DedupMax other messages were
\* handled since the first: neither a delivery while its chat goes on nor one
\* after a failure starts it again.
HandledOnce ==
    \A i, j \in 1 .. Len(handled) :
        i < j /\ handled[i] = handled[j] => j - i > DedupMax

-----------------------------------------------------------------------------
(* The inductive invariant behind HandledOnce *)

\* The table holds the last messages that were handled, and no others.
SeenInv ==
    /\ Len(seen) = IF Len(handled) < DedupMax THEN Len(handled) ELSE DedupMax
    /\ \A k \in 1 .. Len(seen) : seen[k] = handled[Len(handled) - Len(seen) + k]

DingInv == DingTypeOK /\ SeenInv /\ HandledOnce
=============================================================================
