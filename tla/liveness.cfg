SPECIFICATION FairSpec
CONSTANTS
    None = None
    w1 = w1
    w2 = w2
    w3 = w3
    Ops = {o1}
    Workers = {w1, w2}
    Controls = {c1}
    Starting = {}
    Generation <- OneGeneration
    Request <- SameRequest
    MaxLive = 1
    MaxSpawns = 1
    MaxFaults = 1
    ReapMayFail = FALSE
PROPERTIES OperationSettles
CHECK_DEADLOCK FALSE
