SPECIFICATION FairSpec
CONSTANTS
    j1 = j1
    j2 = j2
    t1 = t1
    NoJob = NoJob
    Job <- OneJob
    Task = {t1}
    TaskOf <- SameTask
    MaxAdmitted = 1
    MaxReserved = 1
    MaxAttempts = 1
    MaxCount = 0
    Pump = {p1}
    Worker = {w1}
    MaxMail = 1
PROPERTIES
    RefinesAdmittedJobs
