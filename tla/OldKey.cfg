\* A rotation and a port change overtaken by disable and enable.
SPECIFICATION ProjectionSpec
CONSTANTS
    Allocs = {a1}
    NoAlloc = NoAlloc
    Ports = {1, 2}
    Limits = {0}
    MaxUsage = 0
    Handlers = {h1}
    Workers = {w1}
    NoOwner = NoOwner
    MaxRevision = 5
    MaxUserRevision = 4
    Faults = {"unavailable"}
    MaxFaults = 1
    ProbeSees = TRUE
CHECK_DEADLOCK FALSE
INVARIANTS ServesDesiredKey
