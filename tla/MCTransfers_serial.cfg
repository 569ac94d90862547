SPECIFICATION Spec
CONSTANTS
    x1 = x1
    x2 = x2
    x3 = x3
    i1 = i1
    i2 = i2
    m1 = m1
    m2 = m2
    r1 = r1
    r2 = r2
    Transfers = {x1, x2, x3}
    Items = {i1}
    Manifests = {m1}
    Requests = {r1}
    AsIs = {x3}
    Stock <- MCStock
    TicketGate = TRUE
    MaxUnits = 2
    Handlers = {"create", "complete", "ship", "receive", "closeShort", "cancel", "build", "removeTransfer", "completeManifest", "cancelManifest"}
    NoTransfer = NoTransfer
    NoManifest = NoManifest
INVARIANTS TypeOK NoUnitLost HeldForDrafts ArrivedIsClosed ManifestHasLeft
PROPERTIES RemainderIsScheduled
SYMMETRY Swap
CHECK_DEADLOCK FALSE
