SPECIFICATION Spec
CONSTANTS
    None = None
    c1 = c1
    s0 = s0
    s1 = s1
    s2 = s2
    n1 = n1
    n2 = n2
    m = m
    x = x
    a = a
    q = q
    b = b
    Keys <- MCKeys
    Conns = {c1}
    Stages = {s0}
    Sizes = {1}
    Counts = {1}
    Claims = {}
    Bindings <- MCX4Responses
    Seeds = {}
    Expected = {}
    Tags = {t}
    MaxEpoch = 0
    MaxFrames = 1
    MaxLog = 5
    MaxTerminals = 2
    Losses = 1
    MarkersFail = TRUE
    Faults = {"nothing", "torn", "prefix", "unsynced"}
SYMMETRY MCSymmetry
CHECK_DEADLOCK FALSE
INVARIANTS
    FreshnessOnce
    AuthorizedExposure
    ExposureJournaled
PROPERTIES
    BurnStops
