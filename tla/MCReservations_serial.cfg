SPECIFICATION Spec
CONSTANTS
    o1 = o1
    o2 = o2
    b1 = b1
    b2 = b2
    l1 = l1
    l2 = l2
    l3 = l3
    r1 = r1
    r2 = r2
    Orders = {o1, o2}
    Lines = {l1, l2}
    Bins = {b1}
    Requests = {r1}
    OrderOf <- MCOrderOf
    BinOf <- MCBinOf
    Quantity <- MCQuantity
    Later = {l2}
    FloorSample <- MCFloorSample
    Handlers = {"reserve", "confirm", "payment", "release", "releaseLine", "removeLine", "addLine", "editLine", "move", "cancel", "fulfill", "complete", "allocatePending", "autoRelease", "print"}
    MaxOnHand = 2
    MaxHold = 1
    MaxQuantity = 2
    NoOrder = NoOrder
INVARIANTS TypeOK LevelMatchesHolders ClosedHoldsNothing
PROPERTIES ClosedIsFinal
CHECK_DEADLOCK FALSE
