SPECIFICATION FairSpec
CONSTANTS
    i1 = i1
    i2 = i2
    e1 = e1
    Invoices = {i1, i2}
    Total <- MCTotal
    DueMonth <- MCDueMonth
    Payments = {1, 2}
    Events = {e1}
    OrderOf <- MCOrderOf
    MaxAttempts = 2
    CasRetries = 2
    LastMonth = 1
    Faults = {"crash", "casExhausted"}
INVARIANTS
    TypeOK
    CollectedWithinTotal
    CreditConserved
    BucketWithinLedger
PROPERTIES
    AccrualMatchesCollection
    CollectionIsFinal
    PaidOrderCollected
    PastDueIsNoticed
CHECK_DEADLOCK FALSE
