CONSTANTS
    s1 = s1
    Sessions = {s1}
    Codes = {"b1", "b2"}
    Bots <- TwoBots
    Prior = {"b2"}
    PhaseA <- PostMarketA
    PerStock <- PostMarketStock
    Optional <- OptionalTools
    Backfill = FALSE
    ChecksPhase = TRUE
    Overlap = FALSE
    SavesFail = TRUE
    MaxCrashes = 1
SPECIFICATION Spec
INVARIANTS
    DuplicatesHaveCause
    CreatedAfterCheck
    NoStockForgotten
    PassMeansDelivered
PROPERTY
    AtMostOneStepLost
