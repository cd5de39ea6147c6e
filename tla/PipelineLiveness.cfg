CONSTANTS
    w1 = w1
    w2 = w2
    None = None
    NoTime = NoTime
    NumRequests = 2
    Workers <- TwoWorkers
    Cap <- SmallCap
    DlqCap = 1
    WithDeadline <- NoDeadline
    SinkMayFail = FALSE
    FailureThreshold = 1
    SuccessNum = 1
    SuccessDen = 1
    Timeout = 0
    WindowSize = 1
    BackoffCap = 0
SPECIFICATION FairSpec
PROPERTIES
    EveryRequestResolved
    ClosingEndsAll
    ShutdownStops
