CONSTANTS
    Faults = {}
    MaxSeeds = 1
    MaxCommits = 1
    MaxKeys = 1
    MaxLocks = 1
    s1 = s1
    s2 = s2
    s3 = s3
    Seed = {s1, s2, s3}
    Given = {}
    MaxDepth = 1
    GapLimit = 1
    Careless = FALSE
SPECIFICATION MCSpec
INVARIANTS
    SamePasswordDecrypts
CHECK_DEADLOCK FALSE
