SPECIFICATION FairSpec
CONSTANTS
    Known <- MCKnown
    Tests <- MCTests
    Code <- MCCode
    Handles <- MCHandles
    ViaMaxScale <- MCViaMaxScale
    NodeArrays <- MCNodeArrays
    Marks <- MCMarks
    Unblocked <- MCUnblocked
    Repaired <- MCRepaired
    Forgetful <- MCForgetful
    Leaves <- MCLeaves
    Unchecked <- MCUnchecked
    Misuses <- MCMisuses
    Abandoning <- MCAbandoning
    Idle <- MCIdle
    Unguarded <- MCUnguarded
INVARIANTS NoMisuse NoResidue NoOrphans WaitsAreWatched
PROPERTIES StartedToWork KeepsContract EveryTestEnds
CHECK_DEADLOCK FALSE
