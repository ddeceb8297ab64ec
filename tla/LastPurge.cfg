SPECIFICATION Spec
CONSTANTS
    m1 = m1
    m2 = m2
    b1 = b1
    b2 = b2
    Merchants = {m1, m2}
    Leavers = {m1, m2}
    Rows = {b1}
    NoRow = NoRow
    Retention = 1
    Overlap = 1
    MaxFaults = 0
INVARIANTS
    LastPurgeAnonymizes
CHECK_DEADLOCK FALSE
