SPECIFICATION FairSpec
CONSTANTS
    p1 = p1
    p2 = p2
    p3 = p3
    NoPrompt = NoPrompt
    Prompt = {p1, p2, p3}
    Slash = {p3}
    MaxTakes = 2
    MaxStops = 0
    MaxPaneTurns = 1
    MaxAsks = 2
    MissedTakes = FALSE
    StaleTakes = FALSE
CHECK_DEADLOCK FALSE
INVARIANTS
    TypeOK
    ConfirmedWasRead
    HeldNotLost
    ReadOnce
PROPERTIES
 HeldReaches
