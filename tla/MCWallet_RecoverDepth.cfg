CONSTANTS
    t1 = t1
    t2 = t2
    Task = {t1, t2}
    Calls <- MCRecoverAside
    Foreign = {f1}
    SameLineage = {}
    FaceValue <- MCFaceValue
    Opening <- MCSmallOpening
    MaxDepth = 1
    MaxAmount = 3
    GapLimit = 1
    MaxMerge = 2
    Faults = FALSE
    MaxLate = 0
SPECIFICATION Spec
PROPERTIES
    RecoverOnlyAdvances
