CONSTANTS
    c1 = c1
    c2 = c2
    c3 = c3
    p = p
    q = q
    NoOwner = NoOwner
    Clients = {c1, c2, c3}
    Blocking = {c1, c2, c3}
    Processes = {p, q}
    procOf <- MCTwoAndOne
    AtomicAdd = FALSE
SPECIFICATION MCFairSpec
PROPERTIES
    CallsSettle
    SettledLeave
CHECK_DEADLOCK FALSE
