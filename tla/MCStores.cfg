CONSTANTS
    Only = t1
    a = a
    b = b
    c = c
    Row = {a, b, c}
    MaxEntries = 2
    MaxSaves = 2
    Thread = {t1, t2}
    Batches <- MCCalls
    Kinds = {"sqlite", "crate_sqlite", "crate_json", "json", "page"}
    Apart = TRUE
SPECIFICATION StoresSpec
INVARIANTS
    IInv
    AnsweredOnDisk
    FlushedAtRest
    AnsweredSaved
PROPERTIES
    TxSpec
    AllOrNothing
