SPECIFICATION Spec
CONSTANTS
    c1 = c1
    c2 = c2
    c3 = c3
    x1 = x1
    x2 = x2
    None = None
    one = one
    other = other
    Sid = {c1, c2, c3}
    Pane = {x1, x2}
    Session = {s1, s2}
    s1 = s1
    s2 = s2
    Prompt = {one, other}
    Cap = 2
    Races = FALSE
    MaxEnds = 2
    MaxRenames = 1
    MaxStops = 1
    MaxRestarts = 1
SYMMETRY Symmetry
CONSTRAINT Troubles
INVARIANTS OneHolder GivenOnce NotLost StateFollows
PROPERTIES Leased
CHECK_DEADLOCK FALSE
