SPECIFICATION FairSpec
CONSTANTS
    N = 2
    MaxFailures = 3
INVARIANTS
    CreatedIsComplete
    RollbackLeavesGateway
    DeletedIsGone
PROPERTIES
    DeleteEnds
CHECK_DEADLOCK FALSE
