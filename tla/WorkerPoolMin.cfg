SPECIFICATION PoolSpec
CONSTANTS
    Workers = {w1, w2, w3}
    MaxWorkers = 3
    NumItems = 1
    QueueCap = 1
    Submitters = {s1}
    MinWorkers = 1
    DepthPerWorker = 1
    UsizeRange = 6
CHECK_DEADLOCK FALSE
INVARIANT MinWorkersKept
