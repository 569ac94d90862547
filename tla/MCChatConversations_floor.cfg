SPECIFICATION DeskSpec
CONSTANTS
    c1 = c1
    c2 = c2
    a1 = a1
    a2 = a2
    k1 = k1
    k2 = k2
    Conversations = {c1, c2}
    Agents = {a1, a2}
    Keys = {k1, k2}
    Capacity <- OneEach
    Managers = {a1}
    ViewTeam = {}
    SharedInbox = TRUE
    AutoAssign = TRUE
    MaxMessages = 2
    Helpers = {}
    Sides = {}
    Callbacks = {}
    Nobody = Nobody
PROPERTIES AssignmentRespectsCapacity 
SYMMETRY Swap
CHECK_DEADLOCK FALSE
