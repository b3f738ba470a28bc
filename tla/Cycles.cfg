\* Reset days 1 to 3 of months of 4 and 3 days; six months; one change of the policy or the zone.
SPECIFICATION Spec
CONSTANTS
    Zones <- MCZones
    ResetDays = {1, 2, 3}
    DayLen = 3
    LongMonth = 4
    ShortMonth = 3
    MaxTime = 50
    MaxCreation = 21
    MaxChanges = 1
CHECK_DEADLOCK FALSE
INVARIANTS OpenCycleHoldsNow EndsAtNextBoundary
