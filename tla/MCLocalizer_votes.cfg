SPECIFICATION FairSpec
CONSTANTS
    ROI <- MCROI
    XLines <- MCXLines
    YLines <- MCYLines
    Confs = {1, 2}
    Faults = {"python"}
    MaxBoxes = 3
INVARIANTS
    TypeOK
    RemovedWasBeaten
    VehicleIsSeen
    VoteIsDeserved
PROPERTY FilterEnds
CHECK_DEADLOCK FALSE
