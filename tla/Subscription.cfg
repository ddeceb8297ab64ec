SPECIFICATION Spec
CONSTANTS
    s1 = s1
    s2 = s2
    f1 = f1
    f2 = f2
    p1 = p1
    sub = sub
    t1 = t1
    t2 = t2
    t3 = t3
    r1 = r1
    Events = {s1, s2, f1, f2, p1}
    Kind <- MCKind
    Subject <- MCSubject
    At <- MCAt
    Stamped = {s1, s2, f1}
    Deliveries <- MCDeliveries
    EventOf <- MCEventOf
    Requests = {r1}
    Overlap = 2
    Threshold = 2
    Faults = {"crash", "refuse"}
INVARIANTS
    TypeOK
    RedeliveryIsInert
    LateEventIsDropped
PROPERTY SuspensionIsEarned
CHECK_DEADLOCK FALSE
