SPECIFICATION Spec
CONSTANTS
    None = None
    Keys <- MCKeys
    Nodes = {1}
    Labels = {2, 3}
    Hash <- MCHash
    FeedCap = 0
    FeedBatchMax = 1
    Card <- MCCard
    Lines <- MCLines
    Environments = {{"retract", "watch", "compact", "embed", "crash", "reset"},
                    {"line", "backlog", "compact"}}
    FlushAt = 2
    NMax = 2
    MaxSeqno = 5
    MaxRetracts = 1
INVARIANTS
    TypeOK
    SuppressionLosesNothing
    MirrorsExact
    ReturnsClean
