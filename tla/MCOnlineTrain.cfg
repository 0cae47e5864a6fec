CONSTANTS
    Engines = {e1, e2}
    Clients = {c1, c2}
    Driver = Driver
    Slots = 3
    MaxPerEngine = 2
    MaxTotal = 2
    MaxNew = 2
    ContinueAfterAbort = TRUE
    ClearAfterAbort = FALSE
    Versions <- VersionsUpToLast
    Setups <- MCSetups
    SavedSteps = {0, 1}
    NumEpochs = 2
    NumValueOnly = 0
    UpdatesPerBatch = 1
    MaxGlobalUpdates = 2
    EvalOnStart = TRUE
SPECIFICATION FairSpec
CHECK_DEADLOCK FALSE
INVARIANTS PolicyServed QuietWhenPaused
PROPERTY CallsReturn
