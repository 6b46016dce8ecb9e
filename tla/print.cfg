SPECIFICATION FairSpec
CONSTANTS
    Chunks = 2
    MaxPolls = 2
INVARIANTS
    OrderedIsStored
    CancelledNotPrinted
PROPERTIES
    JobEnds
CHECK_DEADLOCK FALSE
