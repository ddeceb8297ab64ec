SPECIFICATION FairSpec
CONSTANTS
    m1 = m1
    m2 = m2
    b1 = b1
    b2 = b2
    Merchants = {m1, m2}
    Leavers = {m1}
    Rows = {b1, b2}
    NoRow = NoRow
    Retention = 1
    Overlap = 2
    MaxFaults = 1
INVARIANTS
    TypeOK
    ErasedIsUnlinked
PROPERTIES
    RedactIsComplete
    RedactedStaysUnlinked
    PurgeRespectsReinstall
    UninstallEndsInPurge
CHECK_DEADLOCK FALSE
