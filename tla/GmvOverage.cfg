SPECIFICATION Spec
CONSTANTS
    p1 = p1
    p2 = p2
    starter = starter
    pro = pro
    Pods = {p1, p2}
    LastMonth = 2
    Sales = {1, 2}
    MaxGmv = 2
    Tiers = {starter, pro}
    NoTier = NoTier
    Fee <- MCFee
    Faults = {"open", "ambiguous", "release", "anchor", "crash", "lag", "churn"}
INVARIANTS
    NoDoubleCharge
    ChargeOnRecord
    OnlyClosedMonths
PROPERTY PromiseKept
CHECK_DEADLOCK FALSE
