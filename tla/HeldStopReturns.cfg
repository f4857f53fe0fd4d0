SPECIFICATION Spec
CONSTANTS
    p1 = p1
    p2 = p2
    p3 = p3
    NoPrompt = NoPrompt
    Prompt = {p1, p2}
    Slash = {}
    MaxTakes = 2
    MaxStops = 1
    MaxPaneTurns = 1
    MaxAsks = 3
    MissedTakes = FALSE
    StaleTakes = FALSE
SYMMETRY Symmetry
CHECK_DEADLOCK FALSE
INVARIANTS
    UpNeverReached
