SPECIFICATION Spec
CONSTANTS
    Writes = {w1, w2}
    Torn = Torn
    NoFile = NoFile
    NoSnap = NoSnap
    NMax = 2
    MaxSeqno = 3
    MaxFrames = 5
    Faults = {"write", "rename"}
PROPERTIES
    OnlyWritesChangeReads
