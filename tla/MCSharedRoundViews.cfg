SPECIFICATION Spec
CONSTANTS
    Programs <- MCPrograms
    Longer = 1
CHECK_DEADLOCK FALSE
INVARIANTS
    ViewsMatch
