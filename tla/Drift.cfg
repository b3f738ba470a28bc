\* One user, one foreign inbound; any three upsets.
SPECIFICATION FairSpec
CONSTANTS
    Users = {u1}
    Orphans = {o1}
    None = None
    Upsets = {"timeout", "rejected", "unavailable", "late", "xray", "panel", "alien", "orphan", "incompatible", "rotate", "edit"}
    MaxUpsets = 3
CHECK_DEADLOCK FALSE
INVARIANTS DriftTypeOK NeverLeftToStrangers
PROPERTIES ContractStaysWithInbounds Cleans
