SPECIFICATION Spec
CONSTANTS
    Configs <- MCConfigs
    SampleSets <- MCSampleSets
    TrainTokens = 3
    EvalTokens = 6
    TrainMicro = 1
    EvalMicro = 2
    PaddingLength = 1
    PadHandle = 90
    PrefetchDepth = 2
    WarmupForwards = 1
    ResetInitEvery = 2
    SpikeWarmup = 1
    SpikeRatio = 2
    HistoryWindow = 2
    GradNorms = {1, 3}
    MaxCalls = 2
    Restored = 100
INVARIANTS
    EachSampleOnce
    LogprobsAligned
    RoutingOwn
    SpikeReplays
PROPERTY
    CallReturns
CHECK_DEADLOCK FALSE
