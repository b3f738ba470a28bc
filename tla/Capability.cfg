\* One template; one restart, and one request or fault, in any order.
SPECIFICATION Spec
CONSTANTS
    Templates = {t1}
    NoTemplate = NoTemplate
    Gap = 3
    MaxAge = 1
    MaxProc = 2
    MaxGeneration = 8
    MaxUpsets = 1
CHECK_DEADLOCK FALSE
INVARIANTS NoStaleEvidence VerdictFitsContract AdmittedByOpenGate
PROPERTY Settles
