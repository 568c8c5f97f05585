CONSTANTS
    Cards <- MCCards
    CardSize = 1
    Identity <- MCIdentity
    kMaxPayloadSize = 13
    MaxScans = 2
    Requests <- MCRequests
    Noisy <- MCNoisy
    MaxFrames = 2
    WriteSizes = {3, 300}
    ReadSizes = {6, 300}

    Callers = {t1, t2}
    FileHandles = {1, 2}
    HttpHandles = {3, 4, 5}
    TableSizes <- MCTableSizes
    kLogAggregateWindowMs = 1
    kSlowLogRateWindowMs = 1
    kSlowLogRateLimit = 1
    kSlowLogRecordMs = 1
    MaxCalls = 4
    MaxHttpCalls = 5
    MaxNow = 2
SPECIFICATION ServicesSpec
INVARIANTS
    IntactFrameHandled
    WholeReplies
    CardAccounted
    RequestsTold
SYMMETRY MCSymmetry
CHECK_DEADLOCK FALSE
