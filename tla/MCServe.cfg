SPECIFICATION PeersSpec
CONSTANTS
    None = None
    FeedCap = 1
    FeedBatchMax = 1
    LogCap = 1
    Hidden = {"n2"}
    Workers = {w1, w2}
    Names = {"a"}
    Default = "default"
    Rules = {"A", "B"}
    Tokens <- MCTokens
    MaxStreams = 1
    MaxWaits = 1
    MaxConnects = 2
    MaxStalls = 2
    Viewers <- MCViewers
    Scenarios <- MCScenarios
    Stopping <- MCStopping
INVARIANTS
    StreamComplete
    OpenedOnce
    SlotsExact
    EntitledWrites
PROPERTIES
    EveryRequestAnswered
CHECK_DEADLOCK FALSE
