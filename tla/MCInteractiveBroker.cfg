SPECIFICATION Spec
CONSTANTS
    m1 = m1
    m2 = m2
    p1 = p1
    p2 = p2
    fp = fp
    query = query
    Moves = {m1, m2}
    Kinds = {fp, query}
    Payloads = {p1, p2}
    RawCount = 2
    MaxMaskEvents = 1
    MaxChallenges = 3
    MaxLives = 3
    Modes = {"durable", "duplex"}
    FaultModes = {{"process"}, {"power"}}
SYMMETRY MCSymmetry
CHECK_DEADLOCK FALSE
INVARIANTS
    TypeOK
    OneMovePerChallenge
    ReleasedJournaled
    SealedOnce
