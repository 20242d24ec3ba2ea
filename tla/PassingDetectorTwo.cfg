SPECIFICATION FairSpec
CONSTANTS
    opn = opn
    amb = amb
    Keys <- MCTwo
    HitLimit = 2
    MsgLimit = 2
    QuietTime = 2
    Margin = 4
    Wrap = 1000
    BufferSpan = 1
    RxLag = 1
    MaxTime = 9
    MaxRxTime = 2
    MaxFrames = 3
PROPERTIES Settled LedgerSpec
CHECK_DEADLOCK FALSE
