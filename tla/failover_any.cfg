SPECIFICATION Spec
CONSTANTS
    a1 = a1
    a2 = a2
    p1 = p1
    p2 = p2
    p3 = p3
    i1 = i1
    i2 = i2
    b1 = b1
    h1 = h1
    h2 = h2
    Am <- MCAm
    Pass <- MCPass
    AmOf <- MCAmOf
    Inst <- TwoInst
    Biz = {b1}
    BizOf <- TwoInstBiz
    HostOf <- SameHost
    Event = {e1}
    Scope = "host"
    Prompt = FALSE
    WindowDuration = 0
    InflightTTL = 1
    MaxCount = 1
INVARIANTS
    OneProcessPerInstance
    TakenDownFirst
