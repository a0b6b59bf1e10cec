SPECIFICATION Spec
CONSTANTS
    mMaxSize = 2
    Kinds = {"update", "sync"}
    Faults = {"saveFails", "sameName", "loadFails", "removeFails", "serverFails", "replyLost", "restart"}
    MaxMessages = 4
    MaxReceptions = 6
    MaxRestarts = 1
INVARIANTS
    TypeOK
    Accounted
    Fifo
