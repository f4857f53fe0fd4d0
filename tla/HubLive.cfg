SPECIFICATION FairSpec
CONSTANTS
    c1 = c1
    c2 = c2
    c3 = c3
    x1 = x1
    x2 = x2
    s1 = s1
    s2 = s2
    None = None
    one = one
    other = other
    Sid = {c1, c2}
    Pane = {x1, x2}
    Session = {s1, s2}
    Prompt = {}
    Cap = 3
    Races = TRUE
    MaxEnds = 1
    MaxRenames = 1
    MaxStops = 0
    MaxRestarts = 0
INVARIANTS StampFollows
PROPERTIES OwnerArrives
CHECK_DEADLOCK FALSE
