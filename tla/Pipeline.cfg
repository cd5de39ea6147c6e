CONSTANTS
    w1 = w1
    w2 = w2
    None = None
    NoTime = NoTime
    NumRequests = 2
    Workers <- TwoWorkers
    Cap <- OrderCap
    DlqCap = 1
    WithDeadline <- FirstTwo
    SinkMayFail = TRUE
    FailureThreshold = 1
    SuccessNum = 1
    SuccessDen = 1
    Timeout = 1
    WindowSize = 1
    BackoffCap = 0
SPECIFICATION Spec
SYMMETRY Symmetric
INVARIANTS
    Accounted
    DlqExact
PROPERTIES
    KeepsLedger
    NoOvertaking
