CONSTANTS
    None = None
    ZeroAddr = ZeroAddr
    alice = alice
    bob = bob
    carol = carol
    Parties = {alice, bob, carol}
    PageSize = 2
    MaxMigrationPages = 2
    MaxPauseDuration = 2
    MinStreamDuration = 2
    MaxStreamDuration = 9
    MaxI128 = 1000000
    MaxBatchSize = 2
    BatchLimit = 2
    Histories <- IndexHistories
    Flags = {}
    ForeignSender <- NoForeign
    Requests <- IndexRequests
    Batches <- IndexBatches
    PageCounts = {0, 1, 3}
    Configs <- WideConfigs
    Hashes = {h1}
    Delegates = {}
    Cancelable = {}
    Gifts = {}
    MaxTime = 0
    MaxStreams = 7
    MaxCancelled = 0
    MaxDonated = 0
SPECIFICATION Spec
INVARIANTS
    ListingsComplete
    PagesRefreshed
    WalkerCovers
CHECK_DEADLOCK FALSE
