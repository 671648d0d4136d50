------------------------------- MODULE Stores -------------------------------
(***************************************************************************)
(* The stores a wallet can be opened on, one per behaviour: the two SQLite *)
(* stores, shared by threads; the two JSON stores (the storage crate's is  *)
(* its memory store with a file), of one thread, which is all their        *)
(* callers may rely on; and the store of a page.                           *)
(***************************************************************************)
EXTENDS SqliteStore

CONSTANTS
    Only,        \* the thread of a store that one thread has
    Kinds,       \* the stores to look at
    Apart,       \* of CrateSqliteStore
    MaxEntries,  \* bound: of JsonStore
    MaxSaves     \* bound: of PageStore

VARIABLES
    kind,                     \* the store of this behaviour
    path, mem, copy, left,    \* JSON, memory or SQLite, storage crate; in a page
    state, text,              \* JSON, wallet; in a page
    file, asked, told, stage  \* either of those

crateVars == <<path, mem, copy, left>>
walletVars == <<state, text>>
fileVars == <<file, asked, told, stage>>

CrateSqlite == INSTANCE CrateSqliteStore
                 WITH conn <- work, owner <- holder, abandoned <- path
CrateJson == INSTANCE CrateJsonStore
               WITH Thread <- {Only}, call <- asked, answer <- told, todo <- left
Json == INSTANCE JsonStore
          WITH Thread <- {Only}, call <- asked, answer <- told
Page == INSTANCE PageStore
          WITH Thread <- {Only}, disk <- file, saves <- text, staged <- copy

\* The variables of a store that is not at work keep one value.
NoSqlite == Init /\ rows = [r \in Row |-> "none"]

NoCrateJson == path = FALSE /\ mem = {} /\ copy = {} /\ left = {}

NoJson == state = {} /\ text = {}

NoFile == file = {} /\ asked = {} /\ told = {} /\ stage = {}

StoresInit ==
    /\ kind \in Kinds
    /\ \/ kind = "sqlite" /\ Init /\ NoCrateJson /\ NoJson /\ NoFile
       \/ kind = "crate_sqlite" /\ CrateSqlite!Init
          /\ NoCrateJson /\ NoJson /\ NoFile
       \/ kind = "crate_json" /\ NoSqlite /\ CrateJson!Init /\ NoJson
       \/ kind = "json" /\ NoSqlite /\ NoCrateJson /\ Json!Init
       \/ kind = "page" /\ NoSqlite /\ Page!Init
          /\ path = FALSE /\ left = {} /\ state = {} /\ asked = {} /\ stage = {}

StoresNext ==
    /\ UNCHANGED kind
    /\ \/ kind = "sqlite" /\ Next
          /\ UNCHANGED <<crateVars, walletVars, fileVars>>
       \/ kind = "crate_sqlite" /\ CrateSqlite!Next
          /\ UNCHANGED <<mem, copy, left, walletVars, fileVars>>
       \/ kind = "crate_json" /\ CrateJson!Next
          /\ UNCHANGED <<vars, walletVars>>
       \/ kind = "json" /\ Json!Next
          /\ UNCHANGED <<vars, crateVars>>
       \/ kind = "page" /\ Page!Next
          /\ UNCHANGED <<vars, path, left, state, asked, stage>>

storesVars == <<kind, vars, crateVars, walletVars, fileVars>>

StoresSpec == StoresInit /\ [][StoresNext]_storesVars

----------------------------------------------------------------------------
(* The properties of each store, where it is the one at work.  IInv and     *)
(* TxSpec are those of SqliteStore: the storage crate's store keeps them    *)
(* too, to threads that make no single call while a transaction is open.    *)

\* The storage crate's JSON store has every answered call in its file.
AnsweredOnDisk == kind = "crate_json" => CrateJson!AnsweredOnDisk

\* Its memory and JSON stores take a call whole or not at all.
AllOrNothing ==
    [][kind = "crate_json" => CrateJson!WholeOrNothing]_<<kind, crateVars, fileVars>>

\* The wallet's JSON store has its state in the file whenever it is at rest.
FlushedAtRest == kind = "json" => Json!FlushedAtRest

\* A page that is loaded again finds what its answered saves have reported.
AnsweredSaved == kind = "page" => Page!AnsweredSaved

\* A secret the wallet's JSON store is given again has one entry still.
OneEntryEach == kind = "json" => Json!OneEntryEach
============================================================================
