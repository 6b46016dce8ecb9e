SPECIFICATION FairSpec
CONSTANTS
    Ui = {u1, u2}
    Senders = {w}
    Devs = {d1, d2}
    None = None
    MaxSessions = 2
INVARIANTS
    SessionsOwned
    CertifiedTrusted
PROPERTIES
    CallsReturnUnlessReplaced
CHECK_DEADLOCK FALSE
