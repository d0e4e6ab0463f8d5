SPECIFICATION Spec
CONSTANTS
    N = 2
    MaxCalls = 3
    MaxFailures = 2
    MaxOthers = 1
INVARIANTS
    FlagTellsState
    LeftRejecting
CHECK_DEADLOCK FALSE
