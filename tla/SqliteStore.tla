----------------------------- MODULE SqliteStore -----------------------------
(***************************************************************************)
(* SqliteStore of src/src/wallet/store.rs, the wallet's own store, shared  *)
(* by threads.  A call takes the connection's mutex for its whole length:  *)
(* atomic() holds the guard across BEGIN, the closure and COMMIT, and the  *)
(* closure works on a SqliteTxStore.  A single statement commits itself.   *)
(***************************************************************************)
EXTENDS StoreCalls

VARIABLES
    rows,    \* the database: what is committed
    call, answer,
    holder,  \* the thread that has the mutex, if any
    work,    \* the table its transaction sees
    todo     \* what is left of its closure

vars == <<rows, call, answer, holder, work, todo>>

Init ==
    /\ rows \in Rows
    /\ call = [t \in Thread |-> Nothing]
    /\ answer = [t \in Thread |-> "none"]
    /\ holder = {}
    /\ work = rows
    /\ todo = Nothing

Call(t, b) ==
    /\ answer[t] # "pending"
    /\ call' = [call EXCEPT ![t] = b]
    /\ answer' = [answer EXCEPT ![t] = "pending"]
    /\ UNCHANGED <<rows, holder, work, todo>>

\* Mutant: the mutex is not held across the closure.
BeginUnlocked(t) ==
    /\ answer[t] = "pending" /\ t \notin holder
    /\ holder' = holder \cup {t}
    /\ work' = rows
    /\ todo' = call[t]
    /\ UNCHANGED <<rows, call, answer>>

\* self.connection()? and conn.transaction()
Begin(t) ==
    /\ answer[t] = "pending" /\ holder = {}
    /\ holder' = {t}
    /\ work' = rows
    /\ todo' = call[t]
    /\ UNCHANGED <<rows, call, answer>>

MarkSpent(t, r) ==
    /\ t \in holder /\ r \in todo.mark
    /\ work' = mark_spent(work, {r})
    /\ todo' = [todo EXCEPT !.mark = @ \ {r}]
    /\ UNCHANGED <<rows, call, answer, holder>>

InsertOutput(t, r) ==
    /\ t \in holder /\ r \in todo.insert
    /\ CanInsert(work, {r})
    /\ work' = insert_output(work, {r})
    /\ todo' = [todo EXCEPT !.insert = @ \ {r}]
    /\ UNCHANGED <<rows, call, answer, holder>>

Commit(t) ==
    /\ t \in holder /\ todo = Nothing
    /\ rows' = work
    /\ answer' = [answer EXCEPT ![t] = "ok"]
    /\ holder' = {}
    /\ UNCHANGED <<call, work, todo>>

\* Mutant: a dropped transaction commits.
DropCommits(t) ==
    /\ t \in holder
    /\ rows' = work
    /\ answer' = [answer EXCEPT ![t] = "error"]
    /\ holder' = {}
    /\ UNCHANGED <<call, work, todo>>

\* The closure returns an error, of a statement or its own, or COMMIT fails:
\* the transaction is dropped and rolls back.
Rollback(t) ==
    /\ t \in holder
    /\ answer' = [answer EXCEPT ![t] = "error"]
    /\ holder' = {}
    /\ UNCHANGED <<rows, call, work, todo>>

Crash ==
    /\ call' = [t \in Thread |-> Nothing]
    /\ answer' = [t \in Thread |-> "none"]
    /\ holder' = {}
    /\ UNCHANGED <<rows, work, todo>>

Next ==
    \/ \E t \in Thread, b \in Batches : Call(t, b)
    \/ \E t \in Thread : Begin(t) \/ Commit(t) \/ Rollback(t)
    \/ \E t \in Thread, r \in Row : MarkSpent(t, r) \/ InsertOutput(t, r)
    \/ Crash

Spec == Init /\ [][Next]_vars

----------------------------------------------------------------------------
(* Properties *)

\* Every variable has its type.
TypeOK ==
    /\ rows \in Rows /\ work \in Rows
    /\ call \in [Thread -> Batches \cup {Nothing}]
    /\ answer \in [Thread -> Answer]
    /\ holder \subseteq Thread
    /\ todo \in Batch

\* What the closure of t has done so far.
Part(t) == [mark   |-> call[t].mark \ todo.mark,
            insert |-> call[t].insert \ todo.insert]

\* One thread is inside a transaction at a time, and its table is the committed
\* one with the statements run so far applied to it: no other thread's
\* statement, committed or not, is mixed in.
Isolated ==
    /\ \A t, u \in holder : t = u
    /\ \A t \in holder :
         /\ answer[t] = "pending"
         /\ todo.mark \subseteq call[t].mark /\ todo.insert \subseteq call[t].insert
         /\ work = Applied(rows, Part(t))
         /\ CanInsert(rows, Part(t).insert)

\* The inductive invariant behind TxSpec.
IInv == TypeOK /\ Isolated

Tx == INSTANCE TxStore

\* The store keeps the promise of TxStore: calls of any number of threads are
\* linearised, rolled back whole, and survive a stopped process once answered.
TxSpec == Tx!Spec
============================================================================
