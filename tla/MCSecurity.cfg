CONSTANTS
    WindowSize <- Window
    MaxSeq <- Largest
    Ids = {"v1", "v2"}
    Suffixes = {"s"}
    Makers = {1}
    KeyTTLs = {0, 1}
    MaxKeys = 3
    MaxNow = 3
SPECIFICATION SecuritySpec
INVARIANTS
    SeenIsWindow
    RefusalHasCause
    LiveKeyInReach
PROPERTIES
    GuardSpec
    UsableUntilRetired
