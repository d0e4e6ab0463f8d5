SPECIFICATION FairSpec
CONSTANTS
    Replies <- Texts4
    ChunkMax = 3
    Kinds = {"get_param", "execute"}
INVARIANTS
    WholeAnswer
    StoredIsSeen
PROPERTIES
    CallReturns
CHECK_DEADLOCK FALSE
