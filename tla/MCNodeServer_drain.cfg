CONSTANTS
    r1 = r1
    r2 = r2
    r3 = r3
    c1 = c1
    c2 = c2
    web = web
    api = api
    Requests = {r1, r2, r3}
    Routes = {web, api}
    routeOf <- MCRouteOf
    Awaiting <- MCAwaiting
    Bound = {api}
    PoolSize = 1
    Lazy = 1
    needs <- MCNeeds
    Conns = {c1, c2}
    connOf <- MCConnOf
SPECIFICATION FairSpec
INVARIANTS
    TypeOK
    KeepsItsRequest
    BootsOnce
    NoCutOff
PROPERTY ShutdownEnds
CHECK_DEADLOCK FALSE
