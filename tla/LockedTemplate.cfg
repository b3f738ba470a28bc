\* One user; somebody adds one client to his inbound.
SPECIFICATION FairSpec
CONSTANTS
    Users = {u1}
    Orphans = {o1}
    None = None
    Upsets = {"alien"}
    MaxUpsets = 1
CHECK_DEADLOCK FALSE
PROPERTY Unlocks
