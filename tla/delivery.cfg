SPECIFICATION Spec
CONSTANTS
    i1 = i1
    i2 = i2
    hil = hil
    evil = evil
    NoValue = NoValue
    NoQuery = NoQuery
    Segments = {hil, evil}
    Queries = {NoQuery}
    Reviews = {r1}
    Instances = {i1, i2}
    Permits = 2
    MaxHops = 3
    Allowlist <- Allowlists
    Headers <- AskedFor
    Locations <- Redirects
    AnswerLists <- Lookups
    Slack = TRUE
    Webhook = TRUE
INVARIANTS
    PermitsAreConserved
    CallbackTellsDecision
    HopsStayAllowed
    NeverInward
    WalkIsBounded
PROPERTY
    DropsOnlyAtLimit
CHECK_DEADLOCK FALSE
