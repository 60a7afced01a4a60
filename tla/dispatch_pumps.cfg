SPECIFICATION Spec
CONSTANTS
    j1 = j1
    j2 = j2
    t1 = t1
    NoJob = NoJob
    Job <- TwoJobs
    Task = {t1}
    TaskOf <- SameTask
    MaxAdmitted = 2
    MaxReserved = 1
    MaxAttempts = 1
    MaxCount = 1
    Pump = {p1, p2}
    Worker = {w1, w2}
    MaxMail = 1
SYMMETRY DispatchSymmetry
CONSTRAINTS
    Calm
    Unpaused
    DriftAlone
    PlainOverlap
INVARIANTS
    SlotsBounded
    CountsOneSided
    NoDoubleExecution
PROPERTIES
    AcceptedKept
    AttemptsKept
