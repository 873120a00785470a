CONSTANTS
    a = a
    b = b
    NoJob = NoJob
    Jobs = {a}
    NextLink <- MCSingle
    Workers = {w1, w2}
    Operators = {o1}
    Producers = {p1}
    MaxAttempts = 2
    MaxId = 3
    MaxStops = 1
    MaxFaults = 0
SPECIFICATION Spec
SYMMETRY MCSymmetry
INVARIANTS
    TypeOK
    NoJobStranded
    RecordedAfterMaxAttempts
CHECK_DEADLOCK FALSE
