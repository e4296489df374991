----------------------------- MODULE MCSkillStore -----------------------------
(***************************************************************************)
(* Small instances of SkillStore for TLC.                                  *)
(***************************************************************************)
EXTENDS SkillStore

CONSTANTS q1, cli, v1, v2

TwoActors == {q1, cli}
OneElsewhere == {cli}
TwoVersions == {v1, v2}
=============================================================================
