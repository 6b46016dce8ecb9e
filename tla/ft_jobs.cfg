SPECIFICATION AnsweringSpec
CONSTANTS
    Hosts = {h1}
    Jobs = {j1, j2}
    None = None
    CmdTypes = {"ability", "upload", "download", "unknown"}
    CbMayShutdown = TRUE
    ConnectMayFail = TRUE
    MaxHostCalls = 2
INVARIANTS
    NoUseAfterFree
PROPERTIES
    SessionStableDuringIo
    ResultStable
    ImplementsApi
    JobsComplete
    TunnelReclaimed
CHECK_DEADLOCK FALSE
