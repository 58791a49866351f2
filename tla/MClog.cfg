CONSTANTS
    Kinds = {1, 2}
    Ring = 3
    Batch = 2
    MaxLog = 3
    MaxQueue = 1
    Faults = {"loss", "bad", "restart", "reset"}
SPECIFICATION FairSpec
CHECK_DEADLOCK FALSE
INVARIANTS TypeOK EachReported
PROPERTIES FeedSpec AllRead
