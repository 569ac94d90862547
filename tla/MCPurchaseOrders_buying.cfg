SPECIFICATION Spec
CONSTANTS
    p1 = p1
    p2 = p2
    l1 = l1
    l2 = l2
    o1 = o1
    o2 = o2
    d1 = d1
    t1 = t1
    Pos = {p1}
    Lines = {l1}
    PoOf <- OneEach
    Stock = {o1, o2}
    Direct = {d1}
    Drafts = {t1}
    Wanted <- Needs
    MaxUnits = 2
    MaxCancelled = 1
INVARIANTS StagesInOrder   
CHECK_DEADLOCK FALSE
