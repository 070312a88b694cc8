SPECIFICATION Spec
CONSTANTS
  None = None
  sender = sender
  alice = alice
  bob = bob
  carol = carol
  zero = zero
  self = self
  StreamAddr = self
  Sender = sender
  ZeroAddr = zero
  Addrs <- MCAddrs
  MaxI128 = 1000
  MaxU64 = 1000
  MinStreamDuration = 2
  MaxStreamDuration = 6
  MaxPauseSecs = 2
  ForceCancelPauseSecs = 2
  EmergencyMaxPause = 2
  InitArgs <- BothArgs
  Amounts = {1}
  Gifts = {}
  Rates = {}
  Extensions = {2}
  Cliffs <- CliffChoices
  Splits = {}
  Intervals = {}
  Delegates = {}
  Payees = {}
  Cancelable = {}
  EmergencyCallers = {}
  MaxTime = 7
  MaxEvents = 6
  MaxFunded = 14
PROPERTIES
  PausedTimeExcluded
CHECK_DEADLOCK FALSE
