CONSTANTS
    c1 = c1
    c2 = c2
    c3 = c3
    Callers <- MCCallers
    FailureThreshold = 2
    SuccessNum = 1
    SuccessDen = 1
    Timeout = 2
    WindowSize = 2
    BackoffCap = 2
    NoTime = NoTime
SPECIFICATION FairSpec
INVARIANTS
    StatusSound
PROPERTIES
    OpenLastsTimeout
    RetryAfterHonest
    Recovers
