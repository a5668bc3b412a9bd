SPECIFICATION Spec
CONSTANTS
    None = None
    Keys <- MCKeys
    Nodes = {1}
    Labels = {2, 3}
    Hash <- MCHash
    Replicas = {r1, r2}
    Streams <- MCStreams
INVARIANTS
    TypeOK
    Converged
    IncrementalExact
    MergeIsJoin
PROPERTIES
    ErasureIsFinal
