CONSTANTS
    a = a
    b = b
    NoJob = NoJob
    Jobs = {a, b}
    NextLink <- MCChain
    Workers = {w1, w2}
    Operators = {}
    MaxAttempts = 2
    MaxId = 4
    MaxStops = 1
    MaxFaults = 0
SPECIFICATION Spec
SYMMETRY MCSymmetry
INVARIANTS
    TypeOK
    NoJobLost
    ChainOrder
    RecordedAfterMaxAttempts
    ReservedIsHeld
PROPERTY Delivers
CHECK_DEADLOCK FALSE
