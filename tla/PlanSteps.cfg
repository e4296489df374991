SPECIFICATION Spec

CONSTANTS
    p1 = p1
    p2 = p2
    p3 = p3
    None = None
    Plan <- ThreePlans
    MaxSteps = 3
    MaxFlight = 2
    Faults <- FaultKind

SYMMETRY PlanSymmetry

CONSTRAINT FollowedUp

CHECK_DEADLOCK FALSE

INVARIANTS
    OneActivePlan
    OneStepAtATime
    StepsInOrder
    ActiveIsVisible
    StepsAreApproved

PROPERTIES
    CompletedIsFinal
