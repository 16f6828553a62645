SPECIFICATION Spec
CONSTANTS
    t1 = t1
    t2 = t2
    a1 = a1
    x1 = x1
    x2 = x2
    p1 = p1
    p2 = p2
    NoValue = NoValue
    Agents = {a1}
    Tenants = {t1, t2}
    Ids = {x1}
    Payloads = {p1}
    Results = {v1}
    Instances = {i1}
    ReconcileBatch = 1
    Requests = {r1, r2}
    Operators = {o1, o2}
    Calls <- ReviewCalls
    Orders <- ReviewOrders
    TiersOf <- AnyTier
    Mode = "enforce"
    RateLimits = TRUE
    Overlap = FALSE
    StorageFaults = TRUE
SYMMETRY ReviewSymmetry
INVARIANTS
    TypeOK
    AttemptIsAuthorized
    PendingIsBacked
    AuditTellsTheDecision
    DecisionFollowsReview
    OneDecider
    QueueIsTheWork
    GraduationIsTruthful
PROPERTY LedgerOnlyGrows
CHECK_DEADLOCK FALSE
