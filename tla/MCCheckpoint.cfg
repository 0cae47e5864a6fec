SPECIFICATION Spec
CONSTANTS
    Stride = 2
    Interval = 4
    MaxUpdates = 16
    NumValueOnly = 3
    MostRecentK = 2
    MaxRetries = 2
    MaxCrashes = 3
INVARIANTS
    LoadsMatch
    LostWorkBounded
CHECK_DEADLOCK FALSE
