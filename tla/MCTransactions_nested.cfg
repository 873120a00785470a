CONSTANTS
    t1 = t1
    t2 = t2
    w1 = w1
    File = File
    Tasks = {t1, t2}
    Nesting = {t1}
    Writers = {w1}
    Pool = 2
    MaxWrites = 2
SPECIFICATION Spec
INVARIANTS
    TypeOK
    AllOrNothing
PROPERTY TransactionsEnd
CHECK_DEADLOCK FALSE
