-------------------------- MODULE CrateSqliteStore --------------------------
(***************************************************************************)
(* SqliteStore of src/crates/storage/src/sqlite.rs, shared by threads.     *)
(* The connection's mutex is taken for one statement at a time: atomic()   *)
(* executes BEGIN, drops the guard, runs the closure on the store itself   *)
(* and executes COMMIT or ROLLBACK, once.  There is one connection, so     *)
(* whatever any thread executes in between belongs to that transaction.    *)
(***************************************************************************)
EXTENDS StoreCalls

CONSTANT Apart  \* whether callers hold back single calls while a transaction is open

VARIABLES
    rows,       \* what is committed
    call, answer,
    conn,       \* what the connection sees
    owner,      \* the thread whose transaction is open on it, if any
    abandoned,  \* whether one is open that its thread has left
    todo        \* what is left of its closure

vars == <<rows, call, answer, conn, owner, abandoned, todo>>

InTransaction == owner # {} \/ abandoned

Init ==
    /\ rows \in Rows
    /\ call = [t \in Thread |-> Nothing]
    /\ answer = [t \in Thread |-> "none"]
    /\ conn = rows
    /\ owner = {}
    /\ abandoned = FALSE
    /\ todo = Nothing

Call(t, b) ==
    /\ answer[t] # "pending"
    /\ call' = [call EXCEPT ![t] = b]
    /\ answer' = [answer EXCEPT ![t] = "pending"]
    /\ UNCHANGED <<rows, conn, owner, abandoned, todo>>

Returns(t, a) ==
    /\ answer' = [answer EXCEPT ![t] = a]
    /\ UNCHANGED call

\* Mutant: the statement is left to a later transaction to commit.
StatementUncommitted(t) ==
    /\ answer[t] = "pending" /\ IsStatement(call[t])
    /\ Apart => ~InTransaction
    /\ IF CanInsert(conn, call[t].insert)
       THEN conn' = Applied(conn, call[t]) /\ Returns(t, "ok")
       ELSE Returns(t, "error") /\ UNCHANGED conn
    /\ UNCHANGED <<rows, owner, abandoned, todo>>

\* A single statement commits itself, unless a transaction is open.
Statement(t) ==
    /\ answer[t] = "pending" /\ IsStatement(call[t])
    /\ Apart => ~InTransaction
    /\ IF CanInsert(conn, call[t].insert)
       THEN conn' = Applied(conn, call[t]) /\ Returns(t, "ok")
       ELSE Returns(t, "error") /\ UNCHANGED conn
    /\ rows' = IF InTransaction THEN rows ELSE conn'
    /\ UNCHANGED <<owner, abandoned, todo>>

\* BEGIN inside an open transaction is an error: the closure is not run.
Begin(t) ==
    /\ answer[t] = "pending" /\ ~IsStatement(call[t]) /\ t \notin owner
    /\ IF InTransaction
       THEN Returns(t, "error") /\ UNCHANGED <<owner, todo>>
       ELSE owner' = {t} /\ todo' = call[t] /\ UNCHANGED <<call, answer>>
    /\ UNCHANGED <<rows, conn, abandoned>>

MarkSpent(t, r) ==
    /\ t \in owner /\ r \in todo.mark
    /\ conn' = mark_spent(conn, {r})
    /\ todo' = [todo EXCEPT !.mark = @ \ {r}]
    /\ UNCHANGED <<rows, call, answer, owner, abandoned>>

InsertOutput(t, r) ==
    /\ t \in owner /\ r \in todo.insert
    /\ CanInsert(conn, {r})
    /\ conn' = insert_output(conn, {r})
    /\ todo' = [todo EXCEPT !.insert = @ \ {r}]
    /\ UNCHANGED <<rows, call, answer, owner, abandoned>>

Commit(t) ==
    /\ t \in owner /\ todo = Nothing
    /\ rows' = conn
    /\ owner' = {}
    /\ Returns(t, "ok")
    /\ UNCHANGED <<conn, abandoned, todo>>

\* The closure returned an error, of a statement or its own; or COMMIT failed
\* and SQLite rolled back by itself.
Rollback(t) ==
    /\ t \in owner
    /\ conn' = rows
    /\ owner' = {}
    /\ Returns(t, "error")
    /\ UNCHANGED <<rows, abandoned, todo>>

\* COMMIT or ROLLBACK failed, and atomic() returns before anything ends the
\* transaction: every BEGIN from now on is refused.
EndFails(t) ==
    /\ t \in owner
    /\ owner' = {} /\ abandoned' = TRUE
    /\ Returns(t, "error")
    /\ UNCHANGED <<rows, conn, todo>>

Crash ==
    /\ call' = [t \in Thread |-> Nothing]
    /\ answer' = [t \in Thread |-> "none"]
    /\ conn' = rows
    /\ owner' = {} /\ abandoned' = FALSE
    /\ UNCHANGED <<rows, todo>>

Next ==
    \/ \E t \in Thread, b \in Batches : Call(t, b)
    \/ \E t \in Thread :
         Statement(t) \/ Begin(t) \/ Commit(t) \/ Rollback(t) \/ EndFails(t)
    \/ \E t \in Thread, r \in Row : MarkSpent(t, r) \/ InsertOutput(t, r)
    \/ Crash

Spec == Init /\ [][Next]_vars

----------------------------------------------------------------------------
(* Properties *)

Tx == INSTANCE TxStore

\* The promise of TxStore.  It holds if no thread makes a single call while
\* another's atomic() runs, or after one could not end its transaction: a second
\* atomic() meanwhile is refused by BEGIN.
TxSpec == Tx!Spec
============================================================================
