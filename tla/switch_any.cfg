SPECIFICATION FairSpec
CONSTANTS
    Req = {r1, r2}
    Inst = {"m", "s", "x", "y"}
    Cluster = {"c", "d"}
    Host <- MCHost
    ClusterOf <- MCClusterOf
    HostOf <- MCHostOf
    Role <- MCRole
    MaxInstance = 1
INVARIANTS
    ClusterLockInv
    NoSplitBrain
    NothingBeforeChecks
PROPERTIES
    SwitchComplete
    SingleCheckHolds
    RefinesMasterHandover
    EveryRequestEnds
