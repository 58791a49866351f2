CONSTANTS
    MaxDev = 1
    MaxDoors = 0
    ClearBlocks = 1
    StoredTokens = 0
    MaxTimeouts = 0
    RxRoom = 3
    MaxLine = 4
    MaxQueue = 0
    Faults = {"loss"}
    AppCalls = {}
    CardKinds = {}
SPECIFICATION Spec
PROPERTY PortKept
