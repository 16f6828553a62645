SPECIFICATION Spec
CONSTANTS
    k1 = k1
    k2 = k2
    short = short
    empty = empty
    t1 = t1
    t2 = t2
    n1 = n1
    Tokens = {k1, k2, short, empty}
    LongTokens = {k1, k2}
    EmptyToken = empty
    Tenants = {t1, t2}
    Names = {n1}
    Legacy = legacy
    BearerAgent = bearer
    Anonymous = anonymous
    None = None
    Configurations <- AllConfigurations
INVARIANTS
    HostedIsClosed
    DutiesAreSeparate
    TokensNameOneIdentity
    HostedTouchesOnlyTheMount
CHECK_DEADLOCK FALSE
