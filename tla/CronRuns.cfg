SPECIFICATION FairSpec

CONSTANTS
    h = h
    j1 = j1
    Job <- TwoJobs
    Heartbeat = h
    MaxDue = 2
    MaxRounds = 2
    MaxEdits = 2
    MaxFaults = 1

CHECK_DEADLOCK FALSE

INVARIANTS
    OncePerDue
    ToldIsRecorded

PROPERTIES
    DueJobRuns
    RunsEnd
