SPECIFICATION Spec
CONSTANTS
    t1 = t1
    t2 = t2
    n1 = n1
    u = u
    v = v
    d1 = d1
    d2 = d2
    NoValue = NoValue
    Null = Null
    Tenants = {t1, t2}
    Names = {n1}
    Ids = {1, 2}
    Tools = {u, v}
    Definitions = {d1, d2}
    Instances = {i1, i2}
    Requests = {r1, r2, r3}
    Calls <- ListCalls
    Answers <- ListAnswers
    Adapter = "mcp-jsonrpc-v1"
    StorageFaults = TRUE
SYMMETRY Symmetry
INVARIANTS
    UnrecordedAgree
    AlarmIsTrue
CHECK_DEADLOCK FALSE
