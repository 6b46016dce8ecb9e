SPECIFICATION ViewSpec
CONSTANTS
    MaxReady = 2
    MaxNals = 3
    MaxWire = 1
    Buffers = 1
    MaxEnums = 1
INVARIANTS
    WholeUnits
    ThreadsBeforeClose
    UnloadSafe
PROPERTIES
    EndReported
    StopReturns
    PauseDelivers
    GraphReturns
CHECK_DEADLOCK FALSE
