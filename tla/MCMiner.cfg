CONSTANTS
    Task = {t1}
    Calls <- MCEveryCall
    Foreign = {f1}
    SameLineage = {f1}
    FaceValue <- MCFaceValue
    Opening <- MCOpening
    MaxDepth = 2
    MaxAmount = 2
    GapLimit = 1
    MaxMerge = 2
    Faults = TRUE
    MaxLate = 1
    Mining = {m1}
    Reward = {1}
    Subsidy = {0, 1}
    Alone = {TRUE, FALSE}
SPECIFICATION MinerSpec
CONSTRAINT MCBound
INVARIANTS
    MinerInv
    RecoverCompletesAlone
