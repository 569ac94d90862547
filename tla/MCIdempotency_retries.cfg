SPECIFICATION KeySpec
CONSTANTS
    a1 = a1
    a2 = a2
    a3 = a3
    a4 = a4
    a5 = a5
    x = x
    y = y
    Attempts = {a1, a2, a3, a4}
    Bodies = {x, y}
    BodyOf <- MCBodyOf
    Faults = {"crash", "slow", "lostReply"}
    NoOne = NoOne
INVARIANTS CommitsOnce ReplayFaithful OneRunner AnswersAreTrue
CHECK_DEADLOCK FALSE
