CONSTANTS
    Capacity = 2
    MaxU64 = 3
    Controls = {"left"}
    Times = {1}
    Actions = {"left", "test"}
    GameplayActions = {"left"}
    KeyboardBindings <- MCKeyboardBindings
    Settings <- MCSettings
    Descriptors <- MCDescriptors
    PadStates <- MCPadStates
    MaxStarts = 1
SPECIFICATION WorkerSpec
INVARIANTS
    ContiguousWindow
    TransportFollowsInput
    HeldIsReported
PROPERTY ChannelSpec
CHECK_DEADLOCK FALSE
