\* One user on a TCP template with one port; two faults, none of them final. Revisions: 1 + 3 requests + 2 restarts.
SPECIFICATION FairProjectionSpec
CONSTANTS
    Allocs = {a1}
    NoAlloc = NoAlloc
    Ports = {1}
    Limits = {0}
    MaxUsage = 0
    Handlers = {h1}
    Workers = {w1}
    NoOwner = NoOwner
    MaxRevision = 6
    MaxUserRevision = 3
    Faults = {"timeout", "unavailable", "occupied", "xray", "panel", "store"}
    MaxFaults = 2
    ProbeSees = TRUE
CHECK_DEADLOCK FALSE
INVARIANTS ServesDesiredKey
PROPERTIES Converges
