SPECIFICATION Spec
CONSTANTS
    a1 = a1
    a2 = a2
    p1 = p1
    p2 = p2
    p3 = p3
    Am <- MCAm
    Pass <- MCPass
    AmOf <- MCAmOf
    Biz = {b1, b2}
    Session = {s1, s2, s3, s4, s5, s6}
    NoSession = NoSession
    NoAm = NoAm
    LeaseLoss = TRUE
SYMMETRY SessionSymmetry
INVARIANTS
    NoPhantomHold
