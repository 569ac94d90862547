SPECIFICATION FairDeskSpec
CONSTANTS
    c1 = c1
    c2 = c2
    a1 = a1
    a2 = a2
    k1 = k1
    k2 = k2
    Conversations = {c1}
    Agents = {a1, a2}
    Keys = {k1}
    Capacity <- OneEach
    Managers = {a1}
    ViewTeam = {a1}
    SharedInbox = FALSE
    AutoAssign = TRUE
    MaxMessages = 1
    Helpers = {a2}
    Sides = {"staff"}
    Callbacks = {c1}
    Nobody = Nobody
INVARIANTS CallbackSurvives
PROPERTIES QueueMoves
CHECK_DEADLOCK FALSE
