SPECIFICATION MCFairSpec
CONSTANTS
    Hazards = {"overtakes"}
    MaxUpdates = 1
PROPERTY
    DetectionGoesOn
CHECK_DEADLOCK FALSE
