SPECIFICATION Spec
CONSTANTS
    i1 = i1
    i2 = i2
    b1 = b1
    b2 = b2
    Inst <- MCInst
    Biz <- TwoBiz
    BizOf <- BizEach
    Event = {e1}
    WindowDuration = 2
    InflightTTL = 4
    MaxCount = 2
    PushDelay = 1
    Pass = {p1, p2, p3}
    Prompt = TRUE
INVARIANTS
    NoDuplicateHandling
