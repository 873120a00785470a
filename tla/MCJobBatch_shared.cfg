CONSTANTS
    NoJob = NoJob
    BatchJobs = {j1, j2, j3}
    Workers = {w1, w2}
    MaxRuns = 5
SPECIFICATION Spec
SYMMETRY MCSymmetry
INVARIANTS
    TypeOK
    PendingNeverTooLow
    FinishedEarlyOnlyByRerun
    SuccessFinishes
PROPERTY CancelFreezes
CHECK_DEADLOCK FALSE
