CONSTANTS
    Faults = {"crash", "torn", "keyring"}
    MaxSeeds = 2
    MaxCommits = 1
    MaxKeys = 2
    MaxLocks = 2
    s1 = s1
    s2 = s2
    s3 = s3
    Seed = {s1, s2, s3}
    Given = {s1}
    MaxDepth = 2
    GapLimit = 1
    Careless = FALSE
SYMMETRY MCSymmetry
SPECIFICATION MCSpec
INVARIANTS
    CloseKeeps
    WalletSurvives
    RowsFromSeed
    SeedReaches
PROPERTIES
    CopyRemoved
CHECK_DEADLOCK FALSE
