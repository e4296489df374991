SPECIFICATION Spec

CONSTANTS
    q1 = q1
    cli = cli
    v1 = v1
    v2 = v2
    Actor <- TwoActors
    Elsewhere <- OneElsewhere
    Version <- TwoVersions
    MAX_VERSIONS = 2
    MaxOps = 6
    MaxFaults = 1

CHECK_DEADLOCK FALSE

INVARIANTS
    SnapshotsBounded

PROPERTIES
    TogglesKept
    DeletedStaysDeleted
