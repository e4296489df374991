SPECIFICATION FairDingSpec

CONSTANTS
    c1 = c1
    c2 = c2
    m1 = m1
    m3 = m3
    None = None
    Chat <- TwoChats
    Ask <- OneAsk
    Confirmation <- OneConfirmation
    WebChat <- OneWebChat
    DedupMax = 1
    MaxHandled = 3
    MaxQueue = 1
    MaxRounds = 1
    MaxAttempts = 2
    MaxCalls = 1
    MaxAnswers = 2
    Prefix <- SharedPrefix
    Faults <- FaultKind

CHECK_DEADLOCK FALSE

INVARIANTS
    RunOnlyIfApproved
    HandledOnce

PROPERTIES
    AnswerDecides
    EveryChatEnds
