SPECIFICATION FairSpec
CONSTANTS
    Paths = {p1, p2, p3}
    Data = {d1, d2}
    None = None
    Keys = {k1}
    Plans <- PlannerPlans
    MaxFaults = 2
    LateFaults = FALSE
    p1 = p1
    p2 = p2
    p3 = p3
    d1 = d1
    d2 = d2
INVARIANTS TypeOK RollbackRestores
PROPERTIES BatchIsAtomic JournalResolved
CHECK_DEADLOCK FALSE
