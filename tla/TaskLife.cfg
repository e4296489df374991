SPECIFICATION RunSpec

CONSTANTS
    t1 = t1
    Task <- OneTask
    MaxRetries = 3
    MaxRounds = 3
    MaxAttempts = 4
    Faults <- FaultKind

CHECK_DEADLOCK FALSE

INVARIANTS
    WorksForARun
    DeliveredOnce
    DeliveredIsDone

PROPERTIES
    ImplementsTask
    EndedStaysEnded
    WorkEnds
