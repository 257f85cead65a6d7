CONSTANTS
    None = None
    c1 = c1
    c2 = c2
    h1 = h1
    h2 = h2
    b1 = b1
    b2 = b2
    q1 = q1
    q2 = q2
    k1 = k1
    k2 = k2
    Client = {c1, c2}
    Handle = {h1, h2}
    Breaker = {b1, b2}
    Notify = {q1, q2}
    Key = {k1, k2}
    Plans <- MCPlans
SPECIFICATION FairSpec
INVARIANTS TypeOK BreakingIsNotified CompletionNamesPending
PROPERTIES BreaksTakeEffect NotifyAnswered
CHECK_DEADLOCK FALSE
