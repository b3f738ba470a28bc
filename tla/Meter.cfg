\* One user; restarts at any distance outside the reads, a corrected clock, small aggregates.
SPECIFICATION Spec
CONSTANTS
    NUsers = 1
    BatchSize = 1
    Interval = 2
    MaxInt64 = 2
    None = None
    ProbeMayFail = FALSE
    RestartStages = {"idle", "probe", "commit"}
    MinUptime = 0
    MaxProc = 2
    MaxTime = 3
    MaxTransfers = 3
    MaxSkew = 1
CHECK_DEADLOCK FALSE
INVARIANTS MeterTypeOK NeverTwice
