SPECIFICATION TimeSpec
CONSTANTS
    i1 = i1
    i2 = i2
    b1 = b1
    b2 = b2
    Inst <- MCInst
    Biz <- OneBiz
    BizOf <- SameBiz
    Event = {e1, e2}
    WindowDuration = 1
    InflightTTL = 2
    MaxCount = 1
    PushDelay = 1
    Pass = {p1, p2}
    Prompt = FALSE
INVARIANTS
    NoStrayMark
PROPERTIES
    NothingLost
    FailureHandled
    NeverBlockedForever
