SPECIFICATION Spec
CONSTANTS
    r1 = r1
    r2 = r2
    r3 = r3
    k1 = k1
    k2 = k2
    p1 = p1
    p2 = p2
    Requests = {r1, r2, r3}
    Keys = {k1, k2}
    Payloads = {p1, p2}
    None = None
    Faults = {"crash", "network", "finalize"}
INVARIANT RetryNeverDoubleCreates
CHECK_DEADLOCK FALSE
