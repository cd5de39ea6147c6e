CONSTANTS
    n1 = n1
    n2 = n2
    None = None
    Nodes <- TwoNodes
    Ttl = 3
    MaxFaults = 2
SPECIFICATION FairSpec
INVARIANTS
    FreshLeaderExclusive
PROPERTIES
    LoserNotices
    SelfHealing
