SPECIFICATION Spec
CONSTANTS
    Bases = {0, 1, 2, 3, 4, 5, 6, 7, 8}
    Newest = 9
    Early <- MCEarly
    Lost <- MCLost
    MaxCrashes = 2
INVARIANTS
    UpToDate
PROPERTIES
    RowsKept
    ComesUp
CHECK_DEADLOCK FALSE
