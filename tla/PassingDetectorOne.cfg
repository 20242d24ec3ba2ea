SPECIFICATION Spec
CONSTANTS
    opn = opn
    amb = amb
    Keys <- MCOne
    HitLimit = 2
    MsgLimit = 3
    QuietTime = 2
    Margin = 4
    Wrap = 1000
    BufferSpan = 1
    RxLag = 1
    MaxTime = 6
    MaxRxTime = 5
    MaxFrames = 4
INVARIANTS TypeOK Conservation QuietGap NotWhilePresent TimesyncOnce

CHECK_DEADLOCK FALSE
