CONSTANTS
    Workers = {w1, w2}
    Streams = {s1}
    Ballots = {}
    BallotChoices = {yes}
    Recipients = {r1}
    Amounts = {1}
    NoOne = NoOne
    Limit = 2
    Attempts = 2
    MaxLedger = 3
    MaxPerLedger = 1
    MaxFaults = 2
    MaxSessionLoss = 0
SPECIFICATION LiveSpec
INVARIANTS
    OnlyTailsLost
PROPERTIES
    CatchesUp
CHECK_DEADLOCK FALSE
