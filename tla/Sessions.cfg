\* Two requests and two sessions; limits 1 and 2 stand for 5 and 20; one tick is the idle limit and the window.
SPECIFICATION Spec
CONSTANTS
    Requests = {r1, r2}
    Tokens = {t1, t2}
    NoToken = NoToken
    Idle = 1
    Lifetime = 2
    Window = 1
    SourceLimit = 1
    GlobalLimit = 2
    MaxTime = 2
    MaxVersion = 2
CHECK_DEADLOCK FALSE
SYMMETRY Symmetry
INVARIANTS RevokedForGood CurrentPasswordOnly NeverPastDeadline AuditTellsSessions ThrottleHolds
