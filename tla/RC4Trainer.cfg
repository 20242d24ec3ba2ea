SPECIFICATION FairSpec
CONSTANTS
    any = any
    Data <- MCData
    Rssi <- MCRssi
    RssiLimit = 0
    StartCount = 2
    MaxBuffer = 3
    StartSpread = 2
    TrainSpread = 3
    FreshLimit = 1
    StartWindow = 1
    GapLimit = 1
    ResetLimit = 2
    BufferSpan = 1
    RxLag = 1
    PollLimit = 1
    Wrap = 1000
    MaxTime = 9
    MaxRxTime = 4
INVARIANTS TypeOK BufferNonEmpty SessionContiguous
PROPERTIES LeavesForCause StartsFresh SessionsGoOn
CHECK_DEADLOCK FALSE
