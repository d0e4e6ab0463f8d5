SPECIFICATION FairSpec
CONSTANTS
    Timeouts <- MCTimeouts
    CopyTimeout = 2
    Results <- MCResults
    MaxResult = 1
    ReplNodes = {"r0"}
    GaleraNodes = {"g0"}
    CopyMayHang = TRUE
INVARIANTS
    FiresOnTime
    DisabledNeverFires
    BackendRestored
PROPERTIES
    HangIsCutShort
    DestructionEnds
