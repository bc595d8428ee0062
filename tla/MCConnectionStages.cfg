SPECIFICATION Spec
CONSTANTS
    None = None
    c1 = c1
    s0 = s0
    s1 = s1
    s2 = s2
    n1 = n1
    n2 = n2
    m = m
    x = x
    a = a
    q = q
    b = b
    Keys <- MCKeys
    Conns = {c1}
    Stages = {s0, s1, s2}
    Sizes = {3}
    Counts = {1, 2}
    Claims = {}
    Bindings <- MCOneResponse
    Seeds = {}
    Expected = {}
    Tags = {t}
    MaxEpoch = 0
    MaxFrames = 1
    MaxLog = 8
    MaxTerminals = 1
    Losses = 0
    MarkersFail = FALSE
    Faults = {"nothing"}
SYMMETRY MCSymmetry
CHECK_DEADLOCK FALSE
INVARIANTS
    RangesDisjoint
    LedgerAgrees
