CONSTANTS
    Bytes = {245}
    MaxData = 2
    MaxAnswers = 3
    Own = 244
    BufLen = 18
    Noise = {245}
    Behind <- MCBehind
SPECIFICATION Spec
CHECK_DEADLOCK FALSE
INVARIANT EveryRead
