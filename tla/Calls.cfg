\* Two users, two ports, every failing call; the port probe sees a listener (TCP templates).  Convergence has the restarts of Xray.
SPECIFICATION ProjectionSpec
CONSTANTS
    Allocs = {a1, a2}
    NoAlloc = NoAlloc
    Ports = {1, 2}
    Limits = {0}
    MaxUsage = 0
    Handlers = {h1}
    Workers = {w1}
    NoOwner = NoOwner
    MaxRevision = 3
    MaxUserRevision = 1
    Faults = {"timeout", "late", "internal", "rejected", "bind", "occupied", "panel", "store"}
    MaxFaults = 2
    ProbeSees = TRUE
CHECK_DEADLOCK FALSE
SYMMETRY Symmetry
INVARIANTS ProjectionTypeOK ManagedClientAlways AbsentMeansGone RotationLeavesNewKey NoSharedListener PortsExclusive
