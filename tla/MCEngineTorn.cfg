SPECIFICATION Spec
CONSTANTS
    Writes = {w1}
    Torn = Torn
    NoFile = NoFile
    NoSnap = NoSnap
    NMax = 2
    MaxSeqno = 2
    MaxFrames = 3
    Faults = {"power", "kill", "torn", "swap", "rename"}
PROPERTIES
    CrashCutsUnsyncedOnly
