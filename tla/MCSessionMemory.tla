--------------------------- MODULE MCSessionMemory ---------------------------
(***************************************************************************)
(* Small instances of SessionMemory for TLC.                               *)
(***************************************************************************)
EXTENDS SessionMemory
=============================================================================
