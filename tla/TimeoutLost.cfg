SPECIFICATION FairSpec
CONSTANTS
    Timeouts <- MCTimeouts
    CopyTimeout = 2
    Results <- MCResults
    MaxResult = 0
    ReplNodes = {"r0"}
    GaleraNodes = {"g0"}
    CopyMayHang = FALSE
PROPERTIES
    ArmedTimeoutTerminates
