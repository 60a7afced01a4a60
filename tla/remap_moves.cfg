SPECIFICATION Spec
CONSTANTS
    Alias = {a1, a2}
    Proc = {p1, p2}
    MemoTTL = 1
    CacheTTL = 2
    Stall = 1
    MaxMoves = 2
    Outage = FALSE
    NoAlias = NoAlias
SYMMETRY RemapSymmetry
INVARIANTS
    Converged
    NothingLeft
    NothingBetrayed
    OpenAtRest
