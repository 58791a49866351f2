CONSTANTS
    NumCards = 2
    MaxDev = 2
    Start = 1
    Limit = 2
    Width = 3
    Block = 1
    MaxQueue = 1
    Faults = {"loss", "silence"}
    AppCalls = {"token", "clear", "reset", "reload"}
SPECIFICATION Spec
CHECK_DEADLOCK FALSE
PROPERTY LedgerSpec
