CONSTANTS
    FailureStages <- MCStages
    Callbacks = {first, second}
    Installed <- MCInstalled
    PreferredFrames = {64}
    SupportedRates = {44100}
    Rates = {44100, 11025}
    Names = {"studio", "kanji"}
    Frames = {80}
    Bases = {1}
    MaxEdits = 3
    MaxOperations = 2
SPECIFICATION HostingSpec
INVARIANTS
    ReportsInOrder
    StaleClockOnlyAfterFailure
    CallbackHasSession
    ToolTruthful
PROPERTIES
    FailureEndsProcess
    WaitsEnd
    ToolAnswers
CHECK_DEADLOCK FALSE
