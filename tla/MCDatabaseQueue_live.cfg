CONSTANTS
    a = a
    b = b
    NoJob = NoJob
    Jobs = {a}
    NextLink <- MCSingle
    Workers = {w1, w2}
    Operators = {}
    MaxAttempts = 2
    MaxId = 4
    MaxStops = 2
    MaxFaults = 1
SPECIFICATION FairSpec
PROPERTY Drains
CHECK_DEADLOCK FALSE
