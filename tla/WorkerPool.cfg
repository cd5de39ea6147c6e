SPECIFICATION FairPoolSpec
CONSTANTS
    Workers = {w1, w2}
    MaxWorkers = 2
    NumItems = 3
    QueueCap = 2
    Submitters = {s1}
    MinWorkers = 1
    DepthPerWorker = 1
    UsizeRange = 6
CHECK_DEADLOCK FALSE
INVARIANTS
    CountersAccount
    DrainFinishesWork
PROPERTIES
    QueuedIsHandled
    DrainReturns
