CONSTANTS
    Flow = {p1, p2}
    Operations = {"insert", "pay", "merge", "mine", "recover", "reimport"}
    Foreign = {}
    SameLineage = {}
    FaceValue <- MCFaceValue
    MaxDepth = 1
    MaxAmount = 2
    MaxMerge = 2
    Reward = {1}
    RecoverApart = TRUE
    Faults = TRUE
    MaxLost = 1
    Base = 3
    Decimals = 2
    MaxInt = 31
    Precision = 256
    MaxPower = 3
    MaxExp = 4
    Typed <- MCTyped
    Held <- MCHeld
SPECIFICATION MCSpec
SYMMETRY MCSymmetry
INVARIANTS
    EntriesBacked
    OneEntryEach
    BrowserInv
    BooksAgree
    TypeOK
    ParsersAgree
    ExponentExact
    OutputsBacked
PROPERTIES
    RoundTrip
