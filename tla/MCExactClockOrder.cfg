CONSTANTS
    Capacity = 2
    ReadAttempts = 1
    UnitsPerTick = 2
    ClockFrequency = 1
    OutputRate = 1
    PacketFrames = 4
    GapWindow = 9
    DeviceSteps <- MCUneven
    ClockLags <- MCOnTime
    TimeLags <- MCOnTime
    QueryTimes <- MCLateTimes
    MaxQpc = 4
SPECIFICATION LoopSpec
INVARIANT
    ResolvedInOrder
CHECK_DEADLOCK FALSE
