----------------------------- MODULE MCCronJobs -----------------------------
(***************************************************************************)
(* Small instances of CronJobs for TLC.                                    *)
(***************************************************************************)
EXTENDS CronJobs

CONSTANTS h, j1

TwoJobs == {h, j1}
=============================================================================
