SPECIFICATION Spec
CONSTANTS
    j1 = j1
    j2 = j2
    Jobs = {j1, j2}
    SkillMarket <- OwnMarket
    NeedsSynthesis = {j2}
    MaxRetries = 1
    FileFails = TRUE
    MaxTicks <- TwoAndOne
    MaxCrashes = 1
INVARIANTS
    RetryBudget
    HonestFile
PROPERTY
    ChainsEnd
