CONSTANTS
    Workers = {w1, w2}
    Streams = {s1}
    Ballots = {}
    BallotChoices = {yes, no}
    Recipients = {r1, r2}
    Amounts = {1}
    NoOne = NoOne
    Limit = 2
    Attempts = 2
    MaxLedger = 2
    MaxPerLedger = 2
    MaxFaults = 0
    MaxSessionLoss = 0
SPECIFICATION Spec

INVARIANTS
    NoEventSkipped
CHECK_DEADLOCK FALSE
