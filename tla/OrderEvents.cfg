SPECIFICATION FairSpec
CONSTANTS
    c = c
    u = u
    f = f
    w1 = w1
    w2 = w2
    Events = {c, u, f}
    Topic <- MCTopic
    Workers = {w1, w2}
    NoEvent = NoEvent
    MaxAttempts = 2
    MaxStalls = 1
    MaxEvents = 2
    MaxFaults = 3
INVARIANTS
    TypeOK
    InvoicedOnce
    ProcessedIsDone
 
CHECK_DEADLOCK FALSE
