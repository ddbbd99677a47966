SPECIFICATION Spec
CONSTANTS
    Counts <- MCCounts
    TargetOf <- MCTargetOf
    Window <- MCWindow
    MaxStarts = 2
    MaxRows = 4
    MaxKills = 1
INVARIANTS CountedIsScored StopIsHonoured BatchInv
PROPERTIES RecencyKept RunsEnd
CHECK_DEADLOCK FALSE
