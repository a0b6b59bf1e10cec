SPECIFICATION FairSpec
CONSTANTS
    Holding = 2
    Search = 1
    Limit = 1
    Faults = {"back", "over", "hangs"}
    MaxTime = 3
    MaxBack = 3
INVARIANTS
    TypeOK
    IndexIsBounded
    SearchEnds
PROPERTIES
    BlankHasReason
    FramesArrive
    ShutdownCompletes
CHECK_DEADLOCK FALSE
