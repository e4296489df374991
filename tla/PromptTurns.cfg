SPECIFICATION Spec

CONSTANTS
    b1 = b1
    b2 = b2
    Builders = {b1, b2}
    Sections <- MCSections
    Versions = 2
    Asked <- MCAsked
    Stages = {0, 3}
    MaxFull = 1
    DefaultTTL = 2
    SummaryTTL = 1
    MaxTurns = 3
    MaxFailures = 1

INVARIANTS
    BudgetRespected
    ReminderWasIntroduced

SYMMETRY Symmetry
