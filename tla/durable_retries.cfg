SPECIFICATION Spec
CONSTANTS
    t1 = t1
    t2 = t2
    a1 = a1
    x1 = x1
    x2 = x2
    p1 = p1
    p2 = p2
    NoValue = NoValue
    Tenants = {t1}
    Agents = {a1}
    Ids = {x1}
    Payloads = {p1, p2}
    Results = {v1, v2}
    Instances = {i1, i2}
    ReconcileBatch = 1
    Requests = {r1, r2, r3}
    Operators = {}
    Calls <- RetryCalls
    Orders <- NoOrders
    TiersOf <- AlwaysGreen
    Mode = "enforce"
    RateLimits = FALSE
    Overlap = TRUE
    StorageFaults = TRUE
SYMMETRY RetrySymmetry
INVARIANTS
    AtMostOneAttempt
    IntentBehindAttempt
    OneTerminalStage
    ResultsAreTheUpstreams
PROPERTY KeepsPromise
CHECK_DEADLOCK FALSE
