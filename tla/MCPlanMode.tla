------------------------------ MODULE MCPlanMode ------------------------------
(***************************************************************************)
(* Small instances of PlanMode for TLC.                                    *)
(***************************************************************************)
EXTENDS PlanMode, TLC, FiniteSets

CONSTANTS p1, p2, p3

TwoPlans == {p1, p2}
ThreePlans == {p1, p2, p3}
OnePlan == {p1}

\* The ids of plans are interchangeable.
PlanSymmetry == Permutations(Plan)

\* Bound: what happens after something has gone wrong is followed up for two
\* plans and one step in flight.
FollowedUp ==
    \/ Undisturbed
    \/ /\ Cardinality({p \in Plan : status[p] # "none"}) <= 2
       /\ Cardinality({r \in Plan \X Step : flight[r[1]][r[2]] > 0}) <= 1
=============================================================================
