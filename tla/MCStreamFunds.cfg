SPECIFICATION LiveSpec
CONSTANTS
  None = None
  sender = sender
  alice = alice
  bob = bob
  carol = carol
  zero = zero
  self = self
  StreamAddr = self
  Sender = sender
  ZeroAddr = zero
  Addrs <- MCAddrs
  MaxI128 = 1000
  MaxU64 = 1000
  MinStreamDuration = 2
  MaxStreamDuration = 6
  MaxPauseSecs = 2
  ForceCancelPauseSecs = 3
  EmergencyMaxPause = 2
  InitArgs <- BothArgs
  Amounts = {1, 3}
  Gifts = {2}
  Rates = {3}
  Extensions = {2}
  Cliffs = {}
  Splits = {}
  Intervals = {}
  Delegates = {}
  Payees = {self}
  Cancelable = {}
  EmergencyCallers = {}
  MaxTime = 5
  MaxEvents = 5
  MaxFunded = 9
INVARIANTS
  Accounting
  ScheduleOK
  NeverOverpaid
PROPERTIES
  ClaimNeverShrinks
  AccruesBySecond
  KeepsPromise
  PauseEnds
CHECK_DEADLOCK FALSE
