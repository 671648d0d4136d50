CONSTANTS
    t1 = t1
    t2 = t2
    Task = {t1, t2}
    Calls <- MCMoneyCalls
    Foreign = {f1}
    SameLineage = {}
    FaceValue <- MCFaceValue
    Opening <- MCOpening
    MaxDepth = 2
    MaxAmount = 4
    GapLimit = 1
    MaxMerge = 2
    Faults = FALSE
    MaxLate = 0
SPECIFICATION Spec
SYMMETRY MCSymmetry
INVARIANTS
    TypeOK
    ChainsContiguous
    RowsBacked
    BooksInv
    BooksAgree
    NextSecretFresh
PROPERTIES
    PurseSpec
    PaymentIsLive
    DepthsNeverRegress
CHECK_DEADLOCK FALSE
