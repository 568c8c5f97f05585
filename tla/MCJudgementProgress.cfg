CONSTANTS
    left = left
    Controls = {left}
    Pairs <- MCPairs
    Times <- MCTimes
    Capacity = 2
    MaxU64 = 3
    Quantum = 1
    HistoryCapacity = 2
    UnresolvedCapacity = 2
    DrainBatch = 1
    ProtectedReady = 1
    HeartbeatLimit = 2
    Backend = "asio"
    PlayOrigin = 1
    AnchorCapacity = 1
    Positions = {}
    MaxAnchors = 0
    MaxQpc = 4
    MaxEpochs = 1
SPECIFICATION FairSchedulerSpec
PROPERTY CatchesUp
CHECK_DEADLOCK FALSE
