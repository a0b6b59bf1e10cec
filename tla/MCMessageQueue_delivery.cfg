SPECIFICATION FairSpec
CONSTANTS
    mMaxSize = 2
    Kinds = {"update"}
    Faults = {"serverFails", "replyLost"}
    MaxMessages = 5
    MaxReceptions = 6
    MaxRestarts = 0
INVARIANT
    StoredIsCounted
PROPERTY
    Delivers
