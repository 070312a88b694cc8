SPECIFICATION Spec
CONSTANTS
  None = None
  Absent = Absent
  Never = Never
  admin = admin
  ann = ann
  ben = ben
  feed = feed
  xlm = xlm
  usd = usd
  btc = btc
  eur = eur
  Accounts = {admin, ann, ben}
  Roles <- OracleRoles
  MaxPauseDuration = 2
  External = {feed}
  AddressPairs <- MCAddressPairs
  SymbolPairs <- MCSymbolPairs
  MaxSubmitters = 2
  MaxTwapObservations = 2
  MaxPairReporters = 2
  PairReportFreshness = 1
  HardDeviationBps = 5000
  Admins = {admin}
  InitialFeeders = {{ann, ben}}
  InitialConfigs <- MCInitialConfigs
  LegacyScalars = {7}
  GrantRoles = {"PriceFeeder"}
  Expiries = {2}
  Configs <- MCConfigs
  Updates <- MCUpdates
  Prices = {4, 6}
  PairQuotes = {3, 9}
  Stalenesses = {2}
  Deviations = {2500}
  Heartbeats = {2}
  FeedChoices = {feed}
  FeedPairs <- MCFeedPairs
  Replies <- MCReplies
  MaxTime = 3
  Budgets <- MCBudgets
INVARIANTS
  OracleBooksExact
  OneScale
  StatusPredictsRead
  TwapAveragesSeconds
  PairAnswersBacked
PROPERTIES
  HaltFreezesPrices
CHECK_DEADLOCK FALSE
