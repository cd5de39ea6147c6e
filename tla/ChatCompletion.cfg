CONSTANTS
    Callers = {c1, c2}
    Tasks = {t1}
    Regs = {r1}
    None = None
    Cancelled = Cancelled
    CacheResults = TRUE
    WithEmbedder = TRUE
    UnderPressure = TRUE
    MaxJoinAttempts = 2
    SpendCap = 1
SPECIFICATION FairSpec
INVARIANTS
    OvershootBounded
    SharedAnswersPaid
    FailureKnownToJoiners
PROPERTIES
    EveryCallerAnswered
