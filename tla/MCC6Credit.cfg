SPECIFICATION Spec
CONSTANTS
    h1 = h1
    h2 = h2
    b1 = b1
    b2 = b2
    Handles = {h1}
    Bodies = {b1, b2}
    Counts = {1}
    Entropy = {e}
    Coordinate = {0, 1}
    Capacity = 2
    MaxSlots = 2
    SlotFaults = {"torn", "unsynced"}
    LosesPower = {}
SYMMETRY MCSymmetry
CHECK_DEADLOCK FALSE
INVARIANTS
    CreditUsable
