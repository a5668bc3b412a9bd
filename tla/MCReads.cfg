SPECIFICATION Spec
CONSTANTS
    None = None
    Nodes <- MCNodes
    Labels = {1, 2}
    Keys <- MCKeys
    Hash <- MCHash
    Predicates <- MCPredicates
    RelProps <- MCRelProps
    Card <- MCCard
    Id <- MCId
    Display = {"name"}
    NamePreds = {}
    Pools <- MCPools
    MaxWrites = 4
    AllowedSets = {{}, {1}}
    Instants = {1, 2, 3}
    MaxDepth = 3
INVARIANTS
    MaskedAsNeverWritten
    AnswersOnlyVisible
    TimelineAgrees
    LookupExact
    ClosureExact
    NeighborhoodExact
    SearchScoped
CHECK_DEADLOCK FALSE
