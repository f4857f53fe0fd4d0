SPECIFICATION FairSpec
CONSTANTS
    Lines = 2
    Rungs = 2
    MaxCuts = 1
    MaxPollsLost = 1
    MaxRehellos = 1
    MaxRefusals = 1
    MaxReloads = 1
    MaxRestarts = 1
INVARIANTS TypeOK SentOnce NotYetSentNothing LinesInOrder AcceptedArrives
PROPERTY Settles
CHECK_DEADLOCK FALSE
