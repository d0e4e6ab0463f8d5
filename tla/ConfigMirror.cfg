SPECIFICATION ConfigSpec
CONSTANTS
    N = 2
    Monitors = {"MySQL-Monitor"}
    MaxLost = 2
PROPERTIES ResetRestores
