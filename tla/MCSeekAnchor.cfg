CONSTANTS
    Snapshots = {s1, s2}
    None = None
    Silent = Silent
    MaxGeneration = 1
    kRenderSpanCapacity = 2
    kExactPlaybackEpochCapacity = 2
    SourceLength = 3
    PeriodFrames = 2
    Discontinuities = {0, 1}
    MaxOutput = 5
    SeekFrames = {1}
    MaxCalls = 3
SPECIFICATION Spec
INVARIANT PlayKeepsSeekAnchor
SYMMETRY SnapshotSymmetry
CHECK_DEADLOCK FALSE
