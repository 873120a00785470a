CONSTANTS
    a = a
    b = b
    NoJob = NoJob
    Jobs = {a, b}
    NextLink <- MCChain
    Workers = {w1}
    Operators = {}
    Producers = {p1}
    MaxAttempts = 2
    MaxId = 5
    MaxStops = 1
    MaxFaults = 1
SPECIFICATION FairSpec
INVARIANT AttemptsBounded
PROPERTIES
    Delivers
    Drains
CHECK_DEADLOCK FALSE
