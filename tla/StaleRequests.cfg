\* One user, two ports; a handler, the quota paths, the reconciler and one worker interleave.
SPECIFICATION Spec
CONSTANTS
    Allocs = {a1}
    NoAlloc = NoAlloc
    Ports = {1, 2}
    Limits = {0, 1}
    MaxUsage = 1
    Handlers = {h1}
    Workers = {w1}
    NoOwner = NoOwner
    MaxRevision = 3
    MaxUserRevision = 2
CHECK_DEADLOCK FALSE
INVARIANTS TypeOK SnapshotsCurrent IntentMatchesFacts QuotaCurrent LatestIntentOnly ProjectionHonest KeysUsable
PROPERTIES PortReleasedOnConfirm KeysDestroyedOnConfirm ImplementsRegister
