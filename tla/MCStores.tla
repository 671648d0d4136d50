------------------------------ MODULE MCStores ------------------------------
(***************************************************************************)
(* The stores on small instances: the SQLite stores under two threads.     *)
(***************************************************************************)
EXTENDS Stores, TLC

CONSTANTS a, b, c

\* Spend a and keep change b; spend a and b and keep c; store b, or mark a
\* spent, without atomic().
MCCalls == {[mark |-> {a}, insert |-> {b}], [mark |-> {a, b}, insert |-> {c}],
            [mark |-> {}, insert |-> {b}], [mark |-> {a}, insert |-> {}]}

\* What a recover() that finds a runs, each time.
MCRecover == {[mark |-> {}, insert |-> {a}]}
============================================================================
