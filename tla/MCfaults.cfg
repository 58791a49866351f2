CONSTANTS
    MaxDev = 1
    MaxDoors = 1
    ClearBlocks = 1
    StoredTokens = 0
    MaxTimeouts = 0
    RxRoom = 2
    MaxLine = 2
    MaxQueue = 0
    Faults = {"write", "read"}
    AppCalls = {"open"}
    CardKinds = {"known"}
SPECIFICATION Spec
INVARIANTS TypeOK ArmedIffOpen
PROPERTY ServiceSpec
