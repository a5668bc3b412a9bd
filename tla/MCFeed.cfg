SPECIFICATION FeedSpec
CONSTANTS
    None = None
    Keys <- MCKeys
    Nodes = {1, 2}
    Labels = {2, 3}
    Hash <- MCHash
    FeedCap = 2
    FeedBatchMax = 1
    Card <- MCCard
    Lines <- MCLines
    Environments = {{"retract", "line", "backlog", "crash"},
                    {"retract", "watch", "compact", "embed", "crash"}}
    FlushAt = 2
    NMax = 2
    MaxSeqno = 4
    MaxRetracts = 1
    Allowed = {2}
INVARIANTS
    FeedComplete
    JournalOrdered
    PublishedExact
