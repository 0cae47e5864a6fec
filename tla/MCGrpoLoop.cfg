CONSTANTS
    BatchGroups = 2
    SyncGroups = 2
    GroupSize = 2
    SyncEvery = 1
    MaxConcurrent = 3
    MaxGlobalUpdates = 2
    EvalEvery = 2
    FilterZeroStd = TRUE
    CheckpointSteps = {1}
    Modes = {"train", "eval_only", "mismatch", "debug_train"}
    GroupIds = {1, 2, 3, 4}
SPECIFICATION Spec
CHECK_DEADLOCK FALSE
INVARIANTS TrainableBatch StoreExact OffPolicyBounded
PROPERTY StreamEnds
