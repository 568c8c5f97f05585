CONSTANTS
    left = left
    right = right
    Controls <- MCControls
    Pairs <- MCPairs
    Quantum = 2
    HistoryCapacity = 3
    MaxTime = 9
    Backs = {0, 1, 4}
    Directions <- MCDirections
    ObservedTimes = {0, 1, 8, 9}
    MaxEntries = 3
SPECIFICATION Spec
INVARIANTS
    QueriesTransparent
    AgeSinceAcceptedRise
CHECK_DEADLOCK FALSE
