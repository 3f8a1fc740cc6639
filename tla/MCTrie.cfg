SPECIFICATION Spec
CONSTANTS
    Terminator = 3
    Keys <- MCKeys
    Values <- MCValues
    Deletable <- MCDeletable
    Stored <- MCStored
    CacheLimit = 4
    MaxOps = 4
INVARIANTS TypeOK  SyncIsDurableUnlessLost 
CHECK_DEADLOCK FALSE
