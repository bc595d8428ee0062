SPECIFICATION Spec
CONSTANTS
    Programs <- MCPrograms
    Longer = 1
    Failures = {"error", "lost"}
CHECK_DEADLOCK FALSE
INVARIANTS
    LaneOrder
    ResponsesExact
PROPERTIES
    LanesEnd
    ImplementsLockstep
