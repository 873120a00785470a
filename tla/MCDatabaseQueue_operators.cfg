CONSTANTS
    a = a
    b = b
    NoJob = NoJob
    Jobs = {a, b}
    NextLink <- MCChain
    Workers = {w1}
    Operators = {o1, o2}
    MaxAttempts = 2
    MaxId = 4
    MaxStops = 1
    MaxFaults = 1
SPECIFICATION Spec
SYMMETRY MCSymmetry
INVARIANTS
    AttemptsBounded
    DeletersSecured
CHECK_DEADLOCK FALSE
