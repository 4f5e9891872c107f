SPECIFICATION Spec
CONSTANTS
    Paths = {a, b, c}
    Data <- PlainFiles
    Bytes = {b1, b2}
    Modes = {m644}
    DefaultMode = m644
    Heads <- TwoHeads
    MaxOps = 4
    None = None
    a = a
    b = b
    c = c
    b1 = b1
    b2 = b2
    m644 = m644
INVARIANT AcceptedPlanIsNetChange
