CONSTANTS
    Cells = {1, 2, 3, 4, 5, 6, 7, 8, 9}
    Operations <- MCOperations
    Plans <- MCPlans
    RuntimeFeatures = {"judge", "wide"}
    Exports <- MCExports
    Images <- MCImages
    Clients = {a, b}
    Words = {none_held, button}
    Released = none_held
    MaxOpens = 2
    MinimumOffset = 0
    MaximumOffset = 1
    StartFiles <- MCStartFiles
    MaxAttempts = 2
    Malformed = Malformed
    Lost = Lost
    Partial = Partial
    MaxStarts = 2
SPECIFICATION ProcessSpec
INVARIANTS
    LiveDetoursHaveOriginals
    RunningIsComplete
    TouchedOnlyWhenProven
    NothingHeldWithoutWorker
    OneOwnedWorker
    StopsOnlyWhenUnused
    SettingsKept
PROPERTY CallsReturn
CHECK_DEADLOCK FALSE
