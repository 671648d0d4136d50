---------------------------- MODULE WalletPurse ----------------------------
(***************************************************************************)
(* Wallet as an implementation of Purse.  The purse holds what the store   *)
(* has as unspent, and what an insert has replaced and not stored yet; a   *)
(* pay takes effect with its transaction, when its payment is handed out.  *)
(***************************************************************************)
EXTENDS Wallet

\* What the server has made for an insert that has not stored it yet.
Arriving ==
    UNION {Listed(task[t].new) : t \in {u \in Task : task[u].pc = "insert_replaced"}}

\* What the wallet can spend, or will once it has stored it.
Held ==
    SumFunctionOnSet(store.amt, Unspent(store)) + SumFunctionOnSet(worth, Arriving)

Claim == Foreign \cup ({"PAY"} \X Depth)

\* What others can redeem: foreign secrets, and payments handed out.
Outside ==
    [s \in Claim |->
        IF s \in Foreign \cup paid /\ srv[s] = "unspent" /\ ~Stored(store, s)
        THEN worth[s] ELSE 0]

Promise ==
    INSTANCE Purse
      WITH held <- Held, outside <- Outside

\* While no reply is lost and nothing is recovered, calls that race for the
\* same rows and depths do what they would do one after the other, each in one
\* step: a pay takes from the balance what it hands out and a refused one takes
\* nothing, an insert adds what it takes in, a merge changes nothing.
PurseSpec == Promise!Spec
============================================================================
