SPECIFICATION FairSpec
CONSTANTS
    e1 = e1
    e2 = e2
    e3 = e3
    w1 = w1
    w2 = w2
    Events = {e1, e2}
    Pushes = {e2}
    Workers = {w1, w2}
    MaxAttempts = 2
    MaxFaults = 1
    MaxRevivals = 1
    None = None
INVARIANTS OneVerdict EveryAttemptMade
PROPERTIES OutboxPromise EveryEventEnds
CHECK_DEADLOCK FALSE
