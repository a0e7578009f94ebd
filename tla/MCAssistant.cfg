SPECIFICATION FairSpec
CONSTANTS
    Parts = {"models", "chat", "setup", "think"}
    MaxFaults = 1
    HostModels = {"m1"}
    Admins = {"a1", "a2"}
    Attempts = 2
    MaxWork = 2
    ModelsAsked = 3
    ChatModels = {"m1", "m2"}
    Largest = "m1"
    ChatSessions = 2
    ChatSends = 2
    ChatMoves = 2
    Tiers = {"t1"}
    SetupModels = {"m1"}
    SetupClicks = 5
    Symbol = {"<", "t", "/", "a"}
    Open <- MCOpen
    Close <- MCClose
    MaxStream = 7
    MaxChunk = 3
INVARIANTS TypesOK ShownIsSo
PROPERTIES Settles
CHECK_DEADLOCK FALSE
