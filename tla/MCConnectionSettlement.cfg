SPECIFICATION Spec
CONSTANTS
    None = None
    c1 = c1
    s0 = s0
    s1 = s1
    s2 = s2
    n1 = n1
    n2 = n2
    m = m
    x = x
    a = a
    q = q
    b = b
    Keys <- MCKeys
    Conns = {c1}
    Stages = {s0}
    Sizes = {2}
    Counts = {1, 2}
    Claims = {1}
    Bindings <- MCOneResponse
    Seeds <- MCSeeds
    Expected = {0, 1}
    Tags = {t}
    MaxEpoch = 2
    MaxFrames = 1
    MaxLog = 11
    MaxTerminals = 1
    Losses = 0
    MarkersFail = FALSE
    Faults = {}
SYMMETRY MCSymmetry
CHECK_DEADLOCK FALSE
INVARIANTS
    AccountsExact
    ClaimsVerifiedInOrder
