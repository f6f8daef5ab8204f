CONSTANTS
    read = read
    w1 = w1
    w2 = w2
    MaxToolRounds = 2
    EvalMaxRetries = 1
    PlanGate = FALSE
    Reads = {read}
    Writes = {w1}
    MaxTurns = 2
    MaxLosses = 1
    ProtectFirst = {0, 1, 2}
    ProtectLast = {1, 2}
SPECIFICATION FairSpec
INVARIANTS
    RequestWellFormed
PROPERTIES
    TurnEnds
CHECK_DEADLOCK FALSE
