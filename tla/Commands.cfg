\* Two submissions at a time of four forms (create, edit, delete, reset), from two sessions.
SPECIFICATION Spec
CONSTANTS
    Requests = {r1, r2}
    Sessions = {s1, s2}
    Payloads = {p1}
    Creates = {create}
    Pinned = {create}
    Edits = {edit}
    Deletes = {delete}
    Resets = {reset}
    None = None
    MaxRevision = 1
    MaxCycle = 1
CHECK_DEADLOCK FALSE
INVARIANTS TakesEffectOnce AcknowledgedIsApplied RetryIsAnswered
