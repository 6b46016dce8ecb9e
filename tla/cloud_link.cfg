SPECIFICATION FairSpec
CONSTANTS
    Ui = {ui}
    Workers = {w}
    Devs = {d1, d2}
    MayFail = TRUE
    MaxSessions = 2
INVARIANTS
    SubscriptionsInStep
    OneConnection
PROPERTIES
    EventuallySubscribed
CHECK_DEADLOCK FALSE
