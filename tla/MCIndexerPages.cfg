CONSTANTS
    Workers = {w1, w2}
    Streams = {s1}
    Ballots = {b1}
    BallotChoices = {yes}
    Recipients = {r1, r2}
    Amounts = {1}
    NoOne = NoOne
    Limit = 3
    Attempts = 1
    MaxLedger = 2
    MaxPerLedger = 2
    MaxFaults = 0
    MaxSessionLoss = 1
SPECIFICATION Spec
SYMMETRY WorkerSymmetry
INVARIANTS
    OnlyTailsLost
    AmountsAgree
    LockKeepsOrder
CHECK_DEADLOCK FALSE
