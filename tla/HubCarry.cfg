SPECIFICATION Spec
CONSTANTS
    c1 = c1
    c2 = c2
    c3 = c3
    x1 = x1
    x2 = x2
    None = None
    one = one
    other = other
    Sid = {c1, c2, c3}
    Pane = {x1, x2}
    Session = {s1, s2}
    s1 = s1
    s2 = s2
    Prompt = {one}
    Cap = 2
    Races = FALSE
    MaxEnds = 2
    MaxRenames = 0
    MaxStops = 0
    MaxRestarts = 0
SYMMETRY Symmetry
INVARIANTS SentOnce
CHECK_DEADLOCK FALSE
