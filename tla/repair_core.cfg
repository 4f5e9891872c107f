SPECIFICATION RepairSpec
CONSTANTS
    None = None
    Ops = {o1}
    Workers = {w1, w2}
    Controls = {c1}
    Starting = {}
    Generation <- OneGeneration
    Request <- SameRequest
    MaxLive = 1
    MaxSpawns = 2
    MaxFaults = 1
    ReapMayFail = FALSE
    Operator = op
SYMMETRY Interchangeable
INVARIANTS AtMostOneExecution ChildHoldsItem
PROPERTY ImplementsLifecycle
CHECK_DEADLOCK FALSE
