CONSTANTS
    t1 = t1
    t2 = t2
    Task = {t1, t2}
    Calls <- MCFiniteMoney
    Foreign = {f1, f2}
    SameLineage = {f1}
    FaceValue <- MCFaceValue
    Opening <- MCOneOutput
    MaxDepth = 3
    MaxAmount = 3
    GapLimit = 1
    MaxMerge = 2
    Faults = FALSE
    MaxLate = 0
SPECIFICATION FairSpec
PROPERTIES
    EveryCallReturns
