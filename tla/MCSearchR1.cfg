CONSTANTS
    Rollouts = {"r1", "r2"}
    Says <- MCSays
    Normal <- MCNormal
    Golden = {"gold"}
    Hits <- MCHits
    FormatScore = 1
    RetrievalScore = 20
    Score = 100
    Prompt = 2
    MessageLens = {2}
    SearchLimit = 1
    MaxLength = 12
    AnswerReserve = 3
    Servers <- MCServers
    TopK = 2
    MaxRetries = 1
    MaxConnections = 1
    NoQuery = "none"
    Raw <- MCRaw
SPECIFICATION Spec
INVARIANTS
    BudgetKept
    FormatFaithful
PROPERTIES
    SearchAnswered
    RolloutsEnd
CHECK_DEADLOCK FALSE
