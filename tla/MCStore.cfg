SPECIFICATION Spec
CONSTANTS
    None = None
    Refused = Refused
    Scenarios <- MCScenarios
    MaxCalls = 4
INVARIANTS
    RestartChangesNothing
    DurableFactsResolve
CHECK_DEADLOCK FALSE
