CONSTANTS
    t1 = t1
    t2 = t2
    Task = {t1, t2}
    Calls <- MCPayAside
    Foreign = {}
    SameLineage = {}
    FaceValue <- MCFaceValue
    Opening <- MCSmallOpening
    MaxDepth = 1
    MaxAmount = 2
    GapLimit = 1
    MaxMerge = 2
    Faults = TRUE
    MaxLate = 1
SPECIFICATION Spec
INVARIANTS
    CoverInv
    RowsInv
    Recoverable
PROPERTIES
    SpentStaysSpent
