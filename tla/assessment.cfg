SPECIFICATION BoundedSpec
CONSTANTS
    a1 = a1
    a2 = a2
    NoValue = NoValue
    Agents = {a1, a2}
    Requests = {r1, r2, r3}
    Calls <- MixedCalls
    Window = 1
    Limit = 1
    Panics = TRUE
    Horizon = 3
SYMMETRY Symmetry
INVARIANTS
    BreakerHolds
    TrackerIsTheWindow
    PermitFollowsTask
    VerdictIsOwn
CHECK_DEADLOCK FALSE
