SPECIFICATION Spec
CONSTANTS
    Spots = {0}
    Limits = {1}
    Reservations = {1}
    SensorFlags = {TRUE}
    EnterCounts = {1}
    ExitCounts = {1}
    DebugKeys = TRUE
    MaxStays = 2
    MaxIncarnations = 2
INVARIANTS
    TypeOK
    CancelledIsLate
    OverCountsFromEntry
PROPERTIES
    KeepsContract
