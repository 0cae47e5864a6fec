SPECIFICATION Spec
CONSTANTS
    Align = 2
    Prompts <- MCPrompts
    Results <- MCResults
    Outputs <- MCOutputs
    Placeholder <- MCPlaceholder
    Boundary = 2
    MaxLength = 6
    MaxPacks = {4, 6}
    MaxTurns = 3
    MaxResults = 2
    MaxCompactions = 2
INVARIANTS
    RoutingExact
    PackingExact
CHECK_DEADLOCK FALSE
