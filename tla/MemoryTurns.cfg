SPECIFICATION FairMemorySpec

CONSTANTS
    MaxRecords = 8
    MaxClears = 1
    MaxFaults = 2
    KEEP_RECENT = 1
    HistoryLimit = 4
    SqliteLimit = 5
    Threshold = 2
    Reset = 1

CHECK_DEADLOCK FALSE

INVARIANTS
    CompressedIsSummarised
    SummarisedOnce

PROPERTIES
    ClearedStaysCleared
    CompressionEnds
