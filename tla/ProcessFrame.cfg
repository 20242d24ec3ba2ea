SPECIFICATION Spec
CONSTANTS
    ghost = ghost
    status = status
    other = other
    low = low
    high = high
    Ids <- MCIds
    Bytes <- MCBytes
    Msb8 <- MCMsb8
    Window = 1
    Period = 1
    BufferSpan = 1
    RxLag = 0
    MaxTime = 2
    MaxFrames = 3
INVARIANTS TypeOK SuppressedForCause GhostStopped EveryFrameOnce
CHECK_DEADLOCK FALSE
