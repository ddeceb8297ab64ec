SPECIFICATION FairSpec
CONSTANTS
    b1 = b1
    t1 = t1
    t2 = t2
    r1 = r1
    r2 = r2
    u = u
    d = d
    Buyers = {b1}
    Tiers = {t1, t2}
    Requests = {r1, r2}
    Jobs = {u, d}
    Topic <- MCTopic
    None = None
    PageTtl = 2
    LockTtl = 1
    MaxPolls = 1
    MaxAttempts = 2
    MaxChanges = 1
INVARIANTS
    TypeOK
    OneBuilder
PROPERTY PagesSettle
CHECK_DEADLOCK FALSE
