SPECIFICATION FairSpec
CONSTANTS
    t1 = t1
    t2 = t2
    a1 = a1
    x1 = x1
    x2 = x2
    p1 = p1
    p2 = p2
    NoValue = NoValue
    Agents = {a1}
    Tenants = {t1}
    Ids = {x1, x2}
    Payloads = {p1}
    Results = {v1}
    Instances = {i1, i2}
    ReconcileBatch = 2
    Requests = {r1, r2}
    Operators = {}
    Calls <- TwoKeyCalls
    Orders <- NoOrders
    TiersOf <- AlwaysRed
    Mode = "observe"
    RateLimits = FALSE
    Overlap = TRUE
    StorageFaults = TRUE
INVARIANT OneTerminalStage
PROPERTY AbandonedAreClassified
CHECK_DEADLOCK FALSE
