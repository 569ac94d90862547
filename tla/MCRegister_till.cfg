SPECIFICATION Spec
CONSTANTS
    g1 = g1
    s1 = s1
    s2 = s2
    r1 = r1
    r2 = r2
    Cards = {g1}
    Sales = {s1}
    Registers = {r1, r2}
    MaxAmount = 2
    MaxAdjusts = 1
    UsageLimit = 1
    Expiring = {g1}
    Failures = TRUE
    NoCard = NoCard
SYMMETRY Swap
INVARIANTS EmptyIsRedeemed LedgerReplays 
CHECK_DEADLOCK FALSE
