SPECIFICATION FairSpec
CONSTANTS
    Ids = {1, 2}
    PolicyLimit = 30
    Default = 4
    Requests <- MCRequests
    Faults = {"crash", "noDisk", "noRow", "console"}
    Torn = Torn
    Missing = Missing
    MaxUpdates = 2
    MaxStops = 2
INVARIANTS
    TypeOK
    SpotsAreSaved
    RequestHonoured
    LimitsConverge
    SettingsAgree
PROPERTY StartsAgain
CHECK_DEADLOCK FALSE
