SPECIFICATION Spec
CONSTANTS
  None = None
  Absent = Absent
  Never = Never
  ZeroAddr = ZeroAddr
  alice = alice
  bob = bob
  Accounts = {alice, bob}
  Roles <- GovernorRoles
  MaxPauseDuration = 1
  MaxI128 = 5
  InitialConfig <- MCInitialConfig
  MinExecutionDelay = 1
  Authorities = {alice}
  GrantRoles = {"Admin", "Executor"}
  Candidates = {bob, ZeroAddr}
  Expiries = {1}
  Fees = {0, 10001}
  Recipients = {alice}
  Durations = {0, 2, 3}
  Rates <- MCRates
  Quorums = {5000}
  Supplies = {4}
  StakeTokens = {gold, silver}
  Stakes = {0, 1}
  Windows = {0, 1}
  Weights = {1}
  MaxTime = 2
  MaxCalls = 6
  MaxProposals = 2
  MaxVotes = 2
INVARIANTS
  RoleBookExact
  AlwaysAnAdmin
  ConfigConsistent
  ProposalBooksExact
CHECK_DEADLOCK FALSE
