CONSTANTS
    Capacity = 2
    ReadAttempts = 2
    UnitsPerTick = 3
    ClockFrequency = 3
    OutputRate = 2
    PacketFrames = 2
    GapWindow = 12
    DeviceSteps <- MCBurst
    ClockLags <- MCLate
    TimeLags <- MCOld
    QueryTimes <- MCEarlyTimes
    MaxQpc = 3
SPECIFICATION LoopSpec
INVARIANT
    ChronicMeansThreeGaps
PROPERTIES
    AnswersFromLog
    OwnPublicationsAccepted
CHECK_DEADLOCK FALSE
