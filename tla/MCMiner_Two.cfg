CONSTANTS
    Task = {t1}
    Calls <- MCNoCalls
    Foreign = {}
    SameLineage = {}
    FaceValue <- MCFaceValue
    Opening <- MCOpening
    MaxDepth = 2
    MaxAmount = 2
    GapLimit = 1
    MaxMerge = 0
    Faults = FALSE
    MaxLate = 1
    Mining = {m1, m2}
    Reward = {1}
    Subsidy = {0, 1}
    Alone = {FALSE}
SPECIFICATION MinerSpec
INVARIANTS
    SecretsNotShared
