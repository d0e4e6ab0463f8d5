SPECIFICATION FairSpec
CONSTANTS
    StartVal = 1
    max_inserted_val = 4
    MaxSplits = 2
INVARIANTS InsertedOnce LockStep
 
