SPECIFICATION AnsweringSpec
CONSTANTS
    MaxOpens = 2
    MaxReqs = 2
    MaxFrames = 4
    MaxParts = 2
    MaxBurst = 2
    CloseAnyTime = FALSE
INVARIANTS
    SslFreeSafe
    RepliesInStep
PROPERTIES
    CloseReturnsIfAnswered
CHECK_DEADLOCK FALSE
