CONSTANTS
    left = left
    Controls = {left}
    Pairs <- MCPairs
    Times <- MCTimes
    Capacity = 2
    MaxU64 = 3
    Quantum = 2
    HistoryCapacity = 2
    UnresolvedCapacity = 2
    DrainBatch = 1
    ProtectedReady = 1
    HeartbeatLimit = 1
    Backend = "wasapi_exclusive"
    PlayOrigin = 1
    AnchorCapacity = 1
    Positions = {1, 2}
    MaxAnchors = 2
    MaxQpc = 3
    MaxEpochs = 2
SPECIFICATION SchedulerSpec
INVARIANTS
    NoOrderFault
    InFlightChain
    Conservation
    JudgedForward
PROPERTIES
    CleanupDropsAreTheBacklog
    LateOnlyIfRaced
CONSTRAINT
    MCOneThing
CHECK_DEADLOCK FALSE
