CONSTANTS
    a = a
    b = b
    NoJob = NoJob
    Jobs = {a}
    NextLink <- MCSingle
    Workers = {w1, w2}
    Operators = {}
    Producers = {p1}
    MaxAttempts = 2
    MaxId = 3
    MaxStops = 0
    MaxFaults = 0
SPECIFICATION FairSpec
PROPERTY ExhaustedIsRecorded
CHECK_DEADLOCK FALSE
