CONSTANTS
    None = None
    ZeroAddr = ZeroAddr
    alice = alice
    bob = bob
    carol = carol
    Parties = {alice, bob, carol}
    PageSize = 2
    MaxMigrationPages = 2
    MaxPauseDuration = 2
    MinStreamDuration = 2
    MaxStreamDuration = 9
    MaxI128 = 1000000
    MaxBatchSize = 2
    BatchLimit = 6
    Histories <- CountHistories
    Flags <- LegacyFlags
    ForeignSender <- OneForeign
    Requests <- CountRequests
    Batches <- CountBatches
    PageCounts = {}
    Configs <- CountConfigs
    Hashes = {h1}
    Delegates = {bob}
    Cancelable = {FALSE}
    Gifts = {1}
    MaxTime = 3
    MaxStreams = 2
    MaxCancelled = 3
    MaxDonated = 1
SPECIFICATION Spec
INVARIANTS
    FactoryTypeOK
    ActiveBounds
    LiveStreamsCounted
    EscrowComplete
PROPERTIES
    NoCreationWhileHalted
CHECK_DEADLOCK FALSE
