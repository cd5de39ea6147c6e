CONSTANTS
    a1 = a1
    a2 = a2
    NoLock = NoLock
    Empty = Empty
    None = None
    Agents <- TwoAgents
    NumTasks = 2
    Priority <- SecondFirst
    StaleSecs = 1
    TimeoutSecs = 2
    MaxFaults = 2
SPECIFICATION FairSpec
INVARIANTS
    FreshClaimExclusive
PROPERTIES
    NeverRerun
    PriorityFirst
    FleetFinishes
CHECK_DEADLOCK FALSE
