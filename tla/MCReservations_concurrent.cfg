SPECIFICATION Spec
CONSTANTS
    o1 = o1
    o2 = o2
    b1 = b1
    b2 = b2
    l1 = l1
    l2 = l2
    l3 = l3
    r1 = r1
    r2 = r2
    Orders = {o1, o2}
    Lines = {l1, l2}
    Bins = {b1}
    Requests = {r1, r2}
    OrderOf <- MCOrderOf
    BinOf <- MCBinOf
    Quantity <- MCQuantity
    Later = {}
    FloorSample <- MCFloorSample
    Handlers = {"reserve", "confirm", "fulfill", "transfer", "adjust"}
    MaxOnHand = 1
    MaxHold = 1
    MaxQuantity = 1
    NoOrder = NoOrder
INVARIANTS NeverAheadOfGoods
PROPERTIES NoOversell
CHECK_DEADLOCK FALSE
