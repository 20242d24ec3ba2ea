SPECIFICATION Spec
CONSTANTS
    SamplesPerSymbol = 2
    PreambleLength = 2
    FseqHalflen = 2
    PayloadSizes <- MCPayloads
    BufferSizes <- MCBuffers
    StatsThreshold = 2
    MaxSamples = 40
INVARIANTS TypeOK InBounds FrameContiguous TimecodeIsPosition NoiseIsNoise PayloadFits
CHECK_DEADLOCK FALSE
