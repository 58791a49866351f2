CONSTANTS
    MaxDev = 1
    MaxDoors = 0
    ClearBlocks = 1
    StoredTokens = 0
    MaxTimeouts = 0
    RxRoom = 2
    MaxLine = 2
    MaxQueue = 0
    Faults = {"write"}
    AppCalls = {}
    CardKinds = {}
SPECIFICATION Spec
INVARIANT NeverExits
