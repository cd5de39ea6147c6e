CONSTANTS
    Clients = {c1, c2, c3}
    Regs = {r1, r2}
    None = None
    Cancelled = Cancelled
    CacheResults = TRUE
    AllowClones = FALSE
SPECIFICATION FairSpec
INVARIANTS
    SingleFlight
    NoOrphan
PROPERTIES
    WaitersWoken
