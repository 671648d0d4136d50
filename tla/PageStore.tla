----------------------------- MODULE PageStore -----------------------------
(***************************************************************************)
(* MemStore of src/src/wallet/store.rs, the store of a wallet in a page,   *)
(* and save_to_idb, which keeps its state in IndexedDB.  A call of the     *)
(* store is one step, since a page has one thread; atomic() just runs its  *)
(* closure.  A save makes its text when it is called, then opens the       *)
(* database, puts the text and is answered; other calls and saves go on    *)
(* meanwhile.  IndexedDB (external) opens, and runs the transactions of    *)
(* one object store, in the order they were asked for.                     *)
(***************************************************************************)
EXTENDS StoreCalls, Sequences

CONSTANT MaxSaves  \* bound: saves in progress

VARIABLES
    mem,     \* the state in memory
    disk,    \* what is committed in IndexedDB
    saves,   \* the texts of the saves in progress, in the order of the calls
    staged,  \* the text of a put that succeeded and is not committed yet
    told     \* auxiliary: the texts of the saves answered since the page loaded

vars == <<mem, disk, saves, staged, told>>

Init ==
    /\ mem \in Rows
    /\ disk = mem
    /\ saves = <<>>
    /\ staged = {}
    /\ told = {}

\* Mutant: a row is inserted over one that is there.
RunReplacing(b) ==
    /\ mem' = Applied(mem, b)
    /\ UNCHANGED <<disk, saves, staged, told>>

\* A closure marks before it inserts; an insert that is refused ends it and
\* nothing is taken back.
Run(b) ==
    /\ mem' = IF CanInsert(mem, b.insert)
              THEN Applied(mem, b)
              ELSE mark_spent(mem, b.mark)
    /\ UNCHANGED <<disk, saves, staged, told>>

Save ==
    /\ Len(saves) < MaxSaves
    /\ saves' = Append(saves, mem)
    /\ UNCHANGED <<mem, disk, staged, told>>

\* Mutant: the save is answered when the database is open.
PutUnawaited ==
    /\ saves # <<>> /\ staged = {}
    /\ told' = told \cup {Head(saves)}
    /\ staged' \in {{}, {Head(saves)}}
    /\ saves' = Tail(saves)
    /\ UNCHANGED <<mem, disk>>

\* The put succeeds, which is what the save awaits.
Put ==
    /\ saves # <<>> /\ staged = {}
    /\ staged' = {Head(saves)}
    /\ told' = told \cup staged'
    /\ saves' = Tail(saves)
    /\ UNCHANGED <<mem, disk>>

\* The put, or opening the database, fails: an error is answered.
PutFails ==
    /\ saves # <<>> /\ staged = {}
    /\ saves' = Tail(saves)
    /\ UNCHANGED <<mem, disk, staged, told>>

\* The put's transaction commits by itself, after its answer.
Complete ==
    /\ staged # {}
    /\ disk' \in staged
    /\ staged' = {}
    /\ UNCHANGED <<mem, saves, told>>

\* The page is gone, and opens again with open_from_idb.
Reload ==
    /\ mem' = disk
    /\ saves' = <<>> /\ staged' = {} /\ told' = {}
    /\ UNCHANGED disk

Next ==
    \/ \E b \in Batches : Run(b)
    \/ Save \/ Put \/ PutFails \/ Complete \/ Reload

Spec == Init /\ [][Next]_vars

----------------------------------------------------------------------------
(* Properties *)

Rank == [none |-> 0, unspent |-> 1, spent |-> 2]

\* Every row of y is as far along in x: it is there, and spent if it was.
Holds(x, y) == \A r \in Row : Rank[x[r]] >= Rank[y[r]]

\* What the page finds when it is loaded again, once the transaction in progress
\* is through.
Persisted == IF staged = {} THEN {disk} ELSE staged

\* The wallet never loses a row, nor takes a spent one for spendable, that an
\* answered save has reported as kept: whatever saves and calls overlap, what
\* is persisted holds all that was in memory at the call of each answered save.
AnsweredSaved == \A s \in told, p \in Persisted : Holds(p, s)
============================================================================
