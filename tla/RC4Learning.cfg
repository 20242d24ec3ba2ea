SPECIFICATION Spec
CONSTANTS
    hybrid = hybrid
    pure = pure
    Cars <- MCCars
    RealId <- MCRealId
    AutoBase = 1
    AutoTop = 4
    QuietTime = 0
    RssiLimit = 0
    StartCount = 1
    MaxBuffer = 3
    StartSpread = 2
    TrainSpread = 3
    FreshLimit = 0
    StartWindow = 1
    GapLimit = 0
    ResetLimit = 1
    RxLag = 1
    PollLimit = 2
    Wrap = 1000
    MaxTime = 4
    MaxRxTime = 3
PROPERTIES IdFromSession AloneIsItself TrainerSpec
CHECK_DEADLOCK FALSE
