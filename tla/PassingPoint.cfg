SPECIFICATION Spec
CONSTANTS
    Levels <- MCLevels
    Gaps <- MCGaps
    MaxHits = 7
    HitLimit = 2
    FewHits = 4
    Grid = 8
    Taps <- MCTaps
    DipProminence = 3
    PeakProminence = 1
    Below = 6
    Weight <- MCWeight
    SampleRate = 5
    UsecPerSecond = 2
    Fine = 16
    Precision = 100
INVARIANTS PointInside PeaksApart Mirrored
