CONSTANTS
    NumWorkers = 2
    Sessions = {s1, s2, s3, s4, s5}
    Requests = {r1, r2, r3, r4}
    MaxImbalance = 2
    MaxCached = 5
SYMMETRY Symmetry
SPECIFICATION RouterSpec
CHECK_DEADLOCK FALSE
INVARIANT CountsExact
