CONSTANTS
    Sessions = {s1}
    Requests = {1, 2, 3}
    MaxModelCalls = 2
    MaxAttempts = 2
    LateHttp = {TRUE, FALSE}
    Bodies <- MCBodies
    Generations <- MCGenerations
    ToolParserConfig = "qwen"
    ReasoningParserConfig = "auto"
    DetectedParser = "qwen3"
SPECIFICATION FairSpec
CHECK_DEADLOCK FALSE
INVARIANT SessionsServed
PROPERTIES RuntimeAgrees RolloutEnds
