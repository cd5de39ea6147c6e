SPECIFICATION MCSpec
CONSTANTS
    c1 = c1
    c2 = c2
    c3 = c3
    n1 = n1
    n2 = n2
    NumEntries = 2
    Replayers = {r1, r2}
    Free = free
    SessionOf <- MCSessionOf
    MaxExponent = 2
    MaxBackoff = 2
    Files = {f1, bad}
    Valid = {f1}
    Nothing = nothing
    Times = {1, 2}
    Setters = {k1, k2}
    Subscribers = {u1}
    MaxEdits = 1
    MaxSets = 2
    Calls = {c1, c2, c3}
    NodeOf <- MCNodeOf
    Nobody = nobody
    Ttl = 2
    Members = {m1, m2}
    Loads = {0, 1}
    EvictionTimeout = 1
    MaxDelay = 1
    MaxInFlight = 2
    Deployments = {d1, d2}
    RolloutSteps <- MCRolloutSteps
    AutoPromote = TRUE
    MaxHistory = 1
    MaxCreated = 3
    Prompts = {p1, p2}
    Tokens = {1, 2, 3}
    MaxPerRequest = 2
    MaxPerPeriod = 2
    Period = 1
CHECK_DEADLOCK FALSE
INVARIANTS
    FreshClaimsApart
    NoRouteToTheDead
    OutcomesSound
    WindowBounded
PROPERTIES
    ReplayKeepsLedger
    EntriesRetried
    VersionAccounts
    ChangesArrive
    ClaimLapses
    DeadForgotten
