CONSTANTS
    NumCards = 3
    MaxDev = 1
    Start = 1
    Limit = 1
    Width = 2
    Block = 2
    MaxQueue = 1
    Faults = {"stop", "put", "sync"}
    AppCalls = {"cid", "token", "direct"}
SPECIFICATION Spec
CHECK_DEADLOCK FALSE
INVARIANTS TypeOK OwnerHasToken
PROPERTY NeverReassigned
