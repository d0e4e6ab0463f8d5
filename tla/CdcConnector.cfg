SPECIFICATION ConnectorSpec
CONSTANTS
    Types = 2
    Values = 3
    MaxFaults = 4
INVARIANTS InStep PassedIsCompared
PROPERTIES TestEnds
