----------------------------- MODULE StoreCalls -----------------------------
(***************************************************************************)
(* The calls of the Store trait that change it, as the store modules see   *)
(* them.  A call is a batch: the rows its closure marks spent and the rows *)
(* it inserts; a single statement is a batch of one.  Inserting a row that *)
(* exists is an error (UNIQUE secret_hash), marking one that does not is   *)
(* not.                                                                    *)
(***************************************************************************)
EXTENDS Naturals, FiniteSets

CONSTANTS
    Thread,  \* threads that share the store
    Row,     \* secret hashes
    Batches  \* the batches callers run

RowState == {"none", "unspent", "spent"}

Rows == [Row -> RowState]

Batch == [mark : SUBSET Row, insert : SUBSET Row]

\* No caller marks what it inserts, so the order of its statements is immaterial.
ASSUME BatchesAssumption ==
    /\ Batches \subseteq Batch
    /\ \A b \in Batches : b.mark \cap b.insert = {}

\* A call of one statement is made without atomic().
IsStatement(b) == Cardinality(b.mark) + Cardinality(b.insert) = 1

Nothing == [mark |-> {}, insert |-> {}]

\* "none" before the first call, "pending" until a call has returned.
Answer == {"none", "pending", "ok", "error"}

mark_spent(table, S) ==
    [r \in Row |-> IF r \in S /\ table[r] # "none" THEN "spent" ELSE table[r]]

CanInsert(table, S) == \A r \in S : table[r] = "none"

insert_output(table, S) ==
    [r \in Row |-> IF r \in S THEN "unspent" ELSE table[r]]

Applied(table, b) == insert_output(mark_spent(table, b.mark), b.insert)
============================================================================
