SPECIFICATION FairSpec
CONSTANTS
    Captures <- MCCaptures
    Limit = 2
    Wrap = 1000
    Gap = 2
    Quiet = 1
    Flush = 2
    MaxSignals = 2
    MaxLost = 4
    MaxTime = 7
PROPERTIES SignalStops
CHECK_DEADLOCK FALSE
