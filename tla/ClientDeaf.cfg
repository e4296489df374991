SPECIFICATION Spec

CONSTANTS
    r1 = r1
    r2 = r2
    Request <- TwoRequests
    s1 = s1
    Stream <- OneStream
    MaxStarts = 3
    MaxCrashes = 2

CHECK_DEADLOCK FALSE

INVARIANTS
    UpMeansListening
