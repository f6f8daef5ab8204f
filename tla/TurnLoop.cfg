CONSTANTS
    read = read
    w1 = w1
    w2 = w2
    MaxToolRounds = 1
    EvalMaxRetries = 1
    PlanGate = TRUE
    Reads = {read}
    Writes = {w1, w2}
    MaxTurns = 3
    MaxLosses = 1
    ProtectFirst = {0, 1, 2}
    ProtectLast = {1, 2}
SPECIFICATION Spec
SYMMETRY Symmetry
INVARIANTS
    MutationConsent
    RejectedStaysRejected
    RerunOnlyAfterLoss
    ResultsAnswerCalls
PROPERTIES
    ImplementsConsent
CHECK_DEADLOCK FALSE
