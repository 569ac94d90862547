SPECIFICATION Spec
CONSTANTS
    r1 = r1
    r2 = r2
    p1 = p1
    Requests = {r1, r2}
    Slots = {1, 2}
    Orders = {p1}
    Outflows = {"sale", "ship", "fulfill", "unreceive", "relink"}
    MaxUnits = 2
    MaxOut = 4
SYMMETRY Swap
INVARIANTS EveryUnitAccounted 
PROPERTIES DrawsInOrder
CHECK_DEADLOCK FALSE
