SPECIFICATION FairSpec
CONSTANTS
    Tasks = 2
    Answer = {a1}
    Scopes <- Both
INVARIANTS ResultIsOwn ResultIsFinal
PROPERTIES TaskEnds DialogReported
CHECK_DEADLOCK FALSE
