SPECIFICATION Spec
CONSTANTS
    Limit = 2
    Pool <- MCPool
    Counts = {0, 1, 2}
    MaxRows = 2
CHECK_DEADLOCK FALSE
INVARIANTS
    ReservationsLive
    SidecarAccounts
PROPERTIES
    ImplementsTape
