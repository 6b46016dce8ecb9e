SPECIFICATION FairSpec
CONSTANTS
    Cmds = {"ability", "upload", "download", "list", "sub"}
    FileSizes = {4}
    ChunkSizes = {0, 2}
    Offsets = {1, 4}
    Parts = 2
    MaxBurst = 2
    MaxSkips = 4
    MaxTries = 2
    MaxAttempts = 4
    Cancellable = {"upload", "download"}
    MaxOps = 3
    MaxDials = 2
INVARIANTS
    ChunksTile
    UploadStored
    SubFileOwn
    DownloadIntact
PROPERTIES
    ExchangeEnds
CHECK_DEADLOCK FALSE
