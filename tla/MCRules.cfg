SPECIFICATION Spec
CONSTANTS
    None = None
    Nodes <- MCNodes
    Labels = {1}
    Keys <- MCKeys
    Hash <- MCHash
    Predicates <- MCPredicates
    RelProps <- MCRelProps
    Card <- MCCard
    Id <- MCId
    Display = {}
    NamePreds = {}
    Num <- MCNum
    Ints = {"i1", "i2"}
    Literal = {"when", "amt"}
    Names = {"T", "U", "owner", "lead", "when", "by", "amt"}
    Seed <- MCSeed
    Pools <- MCPools
    Rules <- MCRules
    Requests <- MCRequests
    Environments <- MCEnvironments
    Floors <- MCFloors
    AllowedSets = {{}}
    GapRule <- MCGapRule
    LogCap = 1
INVARIANTS
    MaintainedExact
    FollowerExact
    VerdictRestsOnVisible
CHECK_DEADLOCK FALSE
