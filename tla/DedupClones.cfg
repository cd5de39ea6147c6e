CONSTANTS
    Clients = {c1, c2, c3}
    Regs = {r1, r2, r3}
    None = None
    Cancelled = Cancelled
    CacheResults = TRUE
    AllowClones = TRUE
SPECIFICATION Spec
SYMMETRY Symmetric
PROPERTIES
    LateCallsHarmless
