SPECIFICATION Spec
CONSTANTS
    p1 = p1
    p2 = p2
    p3 = p3
    NoPrompt = NoPrompt
    Prompt = {p1, p2}
    Slash = {}
    MaxTakes = 1
    MaxStops = 1
    MaxPaneTurns = 0
    MaxAsks = 3
    MissedTakes = TRUE
    StaleTakes = TRUE
SYMMETRY Symmetry
CHECK_DEADLOCK FALSE
INVARIANTS
    NothingStuck
    FilesFollow
    HeldInOrder
    TakenBackUnread
PROPERTIES
    ReturnedIsFinal
