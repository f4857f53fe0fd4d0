SPECIFICATION FairSpec
CONSTANTS
    Sweep = {"sweep"}
    Restart = {"restart"}
    Open = {"open"}
    Alone = {"restart"}
    MaxLaunches = 4
    MaxFails = 2
    MaxCrashes = 2
INVARIANTS TypeOK MarkResumable SessionSurvives
PROPERTIES MarkedUnlessLate RespawnedUnlessLate NeverStranded
