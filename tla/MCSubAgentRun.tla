---------------------------- MODULE MCSubAgentRun ----------------------------
(***************************************************************************)
(* Small instances of SubAgentRun, and of SubAgentTask with it, for TLC.   *)
(***************************************************************************)
EXTENDS SubAgentRun

CONSTANT t1

OneTask == {t1}
=============================================================================
