------------------------------ MODULE StoreOps ------------------------------
(***************************************************************************)
(* The wallet's store as a value, and the statements of the Store trait    *)
(* that the money operations use, as functions from a store to a store.    *)
(* Each is one SQL statement of SqliteStore (or SqliteTxStore); whether a  *)
(* sequence of them is one transaction is decided by the caller.           *)
(***************************************************************************)
EXTENDS Coins

RowState == {"none", "unspent", "spent"}

Store == [row    : [Secret -> RowState],  \* unspent_outputs, UNIQUE by secret
          amt    : [Secret -> Amount],    \* its amount column, 0 without a row
          hashes : SUBSET Secret,         \* spent_hashes
          depth  : [Chain -> Nat]]        \* walletdepths

Stored(st, s) == st.row[s] # "none"

Unspent(st) == {s \in Secret : st.row[s] = "unspent"}

\* The statement fails, leaving the store alone, where this does not hold.
CanInsert(st, s) == ~Stored(st, s)

insert_output(st, s, a) ==
    [st EXCEPT !.row = [@ EXCEPT ![s] = "unspent"],
               !.amt = [@ EXCEPT ![s] = a]]

\* mark_spent and insert_spent_hash for every input in turn.
mark_spent(st, S) ==
    [st EXCEPT !.row = [s \in Secret |-> IF s \in S /\ Stored(st, s)
                                         THEN "spent" ELSE st.row[s]],
               !.hashes = @ \cup S]

set_depth(st, c, d) == [st EXCEPT !.depth = [@ EXCEPT ![c] = d]]

\* Rows come largest amount first; rows of equal amount in either order.
\* S is one of the possible sets of the first rows.
IsTop(st, S) ==
    /\ S \subseteq Unspent(st)
    /\ \A s \in S, u \in Unspent(st) \ S : st.amt[s] >= st.amt[u]
============================================================================
