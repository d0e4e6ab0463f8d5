SPECIFICATION Spec
CONSTANTS
    Options <- MCOptions
    MaxTests = 3
    MaxFaults = 2
    MaxWaits = 2
INVARIANTS StartsClean RunsOwnConfig SkippedForCause
