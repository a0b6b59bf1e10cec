SPECIFICATION FairSpec
CONSTANTS
    Spots = {0}
    Limits = {2}
    Reservations = {}
    SensorFlags = {FALSE}
    EnterCounts = {2}
    ExitCounts = {1}
    DebugKeys = FALSE
    MaxStays = 2
    MaxIncarnations = 1
INVARIANT
    Hysteresis
PROPERTIES
    Debounced
    OverstayIsReported
    DepartureIsNoticed
    ArrivalIsNoticed
