SPECIFICATION KeeperSpec
CONSTANTS
  None = None
  sender = sender
  alice = alice
  bob = bob
  carol = carol
  zero = zero
  self = self
  StreamAddr = self
  gold = gold
  silver = silver
  euro = euro
  Sender = sender
  ZeroAddr = zero
  Addrs <- MCAddrs
  MaxI128 = 1000
  MaxU64 = 1000
  MinStreamDuration = 2
  MaxStreamDuration = 6
  MaxPauseSecs = 2
  ForceCancelPauseSecs = 2
  EmergencyMaxPause = 2
  InitArgs <- MCInitArgs
  Amounts = {3}
  Gifts = {}
  Rates = {2}
  Extensions = {}
  Cliffs <- CliffChoices
  Splits <- SplitChoices
  Intervals = {2}
  Delegates = {carol}
  Payees = {bob, self, zero}
  Cancelable = {FALSE}
  EmergencyCallers = {carol}
  MaxTime = 3
  MaxEvents = 4
  MaxFunded = 14
  RewardTokens = {gold, silver}
  StreamToken = euro
  Rewards <- MCRewards
  PoolAmounts = {2}
  RewardGifts = {1}
  Keepers = {carol}
  MinTtlLedgers = 2
  MaxHeld = 3
INVARIANTS
  PoolMatchesHoldings
  PayoutsReachPayees
  ForwardOfRecipient
PROPERTIES
  SequenceTracksTerms
CHECK_DEADLOCK FALSE
