CONSTANTS
    Block = 4
    LogClamp = 2
    MaxInFlight = 2
    MaxPads = 1
    Cases <- MCCases
SPECIFICATION Spec
INVARIANTS
    OutputsOwn
    RoutingAligned
    ContextOwn
    UpdateIndependent
    TrustRegion
CHECK_DEADLOCK FALSE
