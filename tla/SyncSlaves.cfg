SPECIFICATION SyncFairSpec
CONSTANTS
    NodeCount = 3
    MaxFile = 2
    MaxPos = 2
    Failures = {"stop", "die", "no_status"}
INVARIANTS
    SyncedInSameFile
    SyncedWithoutRotation
PROPERTIES
    SyncReturns
CHECK_DEADLOCK FALSE
