SPECIFICATION Spec
CONSTANTS
    Bytes = {0, 27, 99, 228, 255}
    MaxLen = 5
INVARIANTS
    RoundTrip
    WellFormed
CHECK_DEADLOCK FALSE
