SPECIFICATION MCFairSpec
CONSTANTS
    Hazards = {"fails"}
    MaxUpdates = 1
INVARIANT
    ReleasedAfterUpdate
CHECK_DEADLOCK FALSE
