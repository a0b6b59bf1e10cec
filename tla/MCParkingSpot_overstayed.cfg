SPECIFICATION FairSpec
CONSTANTS
    Spots = {0, 1}
    Limits = {1, 2}
    Reservations = {}
    SensorFlags = {FALSE}
    EnterCounts = {1}
    ExitCounts = {1}
    DebugKeys = FALSE
    MaxStays = 2
    MaxIncarnations = 1
PROPERTY
    RunningTimerRefusesUpdate
