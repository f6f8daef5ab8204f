SPECIFICATION Spec
CONSTANTS
    Turns = 2
    MaxLiveEvents = 5
    MaxFaults = 2
    Calls <- TwoThenNone
    MaxParallel = 2
INVARIANTS
    OwnEvents
    InOrderOnce
PROPERTIES
    StreamCatchesUp
