CONSTANTS
    Only = t1
    a = a
    b = b
    c = c
    Row = {a, b, c}
    MaxEntries = 2
    MaxSaves = 2
    Thread = {t1}
    Batches <- MCRecover
    Kinds = {"json"}
    Apart = FALSE
SPECIFICATION StoresSpec
INVARIANTS
    OneEntryEach
