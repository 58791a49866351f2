CONSTANTS
    MaxDev = 1
    MaxDoors = 2
    ClearBlocks = 1
    StoredTokens = 0
    MaxTimeouts = 0
    RxRoom = 2
    MaxLine = 2
    MaxQueue = 0
    Faults = {}
    AppCalls = {"open"}
    CardKinds = {"known"}
SPECIFICATION FairSpec
PROPERTIES ServiceSpec DoorSettles PortKept
