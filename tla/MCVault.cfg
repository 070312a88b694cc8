CONSTANTS
    None = None
    ZeroAddr = ZeroAddr
    DefaultToken = d
    Addrs = {alice, bob}
    Tokens = {d, e}
    MaxI128 = 2
    MaxU64 = 20
    MaxVaultDeposit = 2
    MaxPauseDuration = 1
    OwnerProposalTtl = 1
    MigrationTimelock = 1
    Owners = {alice}
    Amounts = {1, 2}
    Splits <- OneSplit
    Limits = {1, 2}
    Operators = {bob}
    Candidates = {bob, ZeroAddr}
    Ttls = {20}
    Destinations = {alice, bob}
    Gifts = {1}
    MaxTime = 1
    MaxCalls = 6
    MaxHeld = 2
    MaxCredit = 4
SPECIFICATION Spec
INVARIANTS
    ExposureBounded
    SnapshotCurrent
    OperatorTakesOwn
    PendingFromOwner
    MigrationAnnounced
PROPERTIES
    HaltFreezes
CHECK_DEADLOCK FALSE
