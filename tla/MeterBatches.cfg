\* Two users in two batches; Xray restarts between the batches.
SPECIFICATION Spec
CONSTANTS
    NUsers = 2
    BatchSize = 1
    Interval = 1
    MaxInt64 = 9
    None = None
    ProbeMayFail = FALSE
    RestartStages = {"probe"}
    MinUptime = 3
    MaxProc = 2
    MaxTime = 3
    MaxTransfers = 2
    MaxSkew = 0
CHECK_DEADLOCK FALSE
INVARIANTS NeverTwice NothingLost
