------------------------- MODULE MCPromptDisclosure -------------------------
(***************************************************************************)
(* Small instances of PromptDisclosure for TLC.                            *)
(***************************************************************************)
EXTENDS PromptDisclosure, TLC

MCSections == {"memory", "plan_context"}

Ask(mode, plan, recalls) ==
    [mode |-> mode, mention |-> FALSE, plan |-> plan, recalls |-> recalls]
MCAsked == {Ask("normal", FALSE, FALSE), Ask("executing", TRUE, TRUE)}

Symmetry == Permutations(Builders)
=============================================================================
