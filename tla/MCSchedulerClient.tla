-------------------------- MODULE MCSchedulerClient --------------------------
(***************************************************************************)
(* Small instances of SchedulerClient for TLC.                             *)
(***************************************************************************)
EXTENDS SchedulerClient

CONSTANTS r1, r2, s1

TwoRequests == {r1, r2}
OneStream == {s1}
=============================================================================
