SPECIFICATION FairSpec

CONSTANTS
    p1 = p1
    p2 = p2
    p3 = p3
    None = None
    Plan <- TwoPlans
    MaxSteps = 2
    MaxFlight = 2
    Faults = {}

CHECK_DEADLOCK FALSE

PROPERTIES
    PlanEnds
