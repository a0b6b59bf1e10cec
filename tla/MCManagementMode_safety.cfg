SPECIFICATION MCFairSpec
CONSTANTS
    Hazards = {"senderWakes", "receiverWakes", "fails", "overtakes", "ends"}
    MaxUpdates = 4
INVARIANTS
    TypeOK
    MutualExclusion
    WholeUpdates
    BetweenUpdates
PROPERTIES
    CalmUpdateCompletes
    CalmDetectionGoesOn
CHECK_DEADLOCK FALSE
