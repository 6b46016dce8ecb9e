SPECIFICATION FairSpec
CONSTANTS
    Ui = {u1, u2}
    Senders = {}
    Devs = {d1}
    None = None
    MaxSessions = 3
PROPERTIES
    CallsReturn
CHECK_DEADLOCK FALSE
