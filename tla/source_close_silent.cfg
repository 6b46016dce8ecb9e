SPECIFICATION FairSpec
CONSTANTS
    MaxOpens = 1
    MaxReqs = 1
    MaxFrames = 1
    MaxParts = 2
    MaxBurst = 2
    CloseAnyTime = FALSE
PROPERTIES
    CloseReturns
CHECK_DEADLOCK FALSE
