SPECIFICATION Spec
CONSTANTS
    None = None
    w1 = w1
    w2 = w2
    w3 = w3
    Ops = {o1}
    Workers = {w1, w2}
    Controls = {c1}
    Starting = {c1}
    Generation <- OneGeneration
    Request <- SameRequest
    MaxLive = 1
    MaxSpawns = 2
    MaxFaults = 1
    ReapMayFail = FALSE
INVARIANT StrayChildNamed
CHECK_DEADLOCK FALSE
