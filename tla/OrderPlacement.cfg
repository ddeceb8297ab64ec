SPECIFICATION FairSpec
CONSTANTS
    r1 = r1
    r2 = r2
    r3 = r3
    NoLimit = NoLimit
    Requests = {r1, r2, r3}
    Amount <- MCAmount
    Invoiced <- MCInvoiced
    MinOrder = 2
    Limits <- MCLimits
    CodeUsers <- MCCodeUsers
    MaxUses = 1
    CasRetries = 3
    Faults = {"reserve", "tier", "draft", "complete", "ambiguous", "persist", "apply", "release", "crash"}
INVARIANTS
    TypeOK
    CheckedUnderLock
    AcceptedOrderHeld
    CreditConserved
PROPERTIES
    AtomicAccount
    EveryRequestAnswered
CHECK_DEADLOCK FALSE
