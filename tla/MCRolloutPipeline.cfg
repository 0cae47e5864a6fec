CONSTANTS
    Workers = {w1, w2}
    MaxRunning = 2
    GroupSize = 2
    Configs <- Both
    FilterZeroStd = TRUE
    MaxGlobalUpdates = 2
    EvalInterval = 1
    EvalOnStart = TRUE
    EvalRollouts = 2
    MaxSchedules = 2
CHECK_DEADLOCK FALSE
SPECIFICATION FairSpec
INVARIANTS GroupsWhole BoundedStaleness HandlesExact NoResultLost
PROPERTIES UsesTaskQueue FailureSurfaces
