--------------------------- MODULE MCDingTalkChat ---------------------------
(***************************************************************************)
(* Small instances of ChatSession with the DingTalk worker, for TLC.       *)
(***************************************************************************)
EXTENDS DingTalkChat, TLC

CONSTANTS c1, c2, m1, m3

TwoChats == {c1, c2}
OneWebChat == {c1}
OneAsk == {m1}
OneConfirmation == {m3}

\* The first calls of the two chats have ids that begin alike.
SharedPrefix == {{<<c1, 1>>, <<c2, 1>>}}
=============================================================================
