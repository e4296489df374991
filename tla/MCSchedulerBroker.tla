------------------------- MODULE MCSchedulerBroker -------------------------
(***************************************************************************)
(* Small instances of SchedulerBroker for TLC.                             *)
(***************************************************************************)
EXTENDS SchedulerBroker, TLC

CONSTANTS pa, sub, cron, p1, p2

OnePA == {pa}
OneSub == {sub}
NoIdentity == {}
TwoProcs == {p1, p2}

\* Processes are interchangeable in the safety runs.
Symmetry == Permutations({p1, p2})
=============================================================================
