CONSTANTS
    Task = {t1}
    Calls <- MCCalls
    Foreign = {}
    SameLineage = {}
    FaceValue <- MCFaceValue
    Opening <- MCOpening
    MaxDepth = 1
    MaxAmount = 1
    GapLimit = 1
    MaxMerge = 2
    Faults = TRUE
    MaxLate = 0
    SparseDepths = TRUE
    AtRestOnly = TRUE
    OneFile = TRUE
SPECIFICATION BackupSpec
INVARIANTS
    BackupInv
    RecoverCompletes
PROPERTIES
    SnapshotCovers
