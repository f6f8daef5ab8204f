CONSTANTS
    Jobs = {j1, j2}
    N = 2
    MaxErrors = 1
    MaxCancels = 2
    MaxCrashes = 1
SPECIFICATION Spec
INVARIANTS
    VerdictAgrees
PROPERTIES
    CancelHolds
    JobsEnd
