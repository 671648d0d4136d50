------------------------------ MODULE MCWallet ------------------------------
(***************************************************************************)
(* Wallet on small instances.                                              *)
(***************************************************************************)
EXTENDS WalletPurse, TLC

CONSTANTS t1, t2

\* A foreign secret is worth 1.
MCFaceValue == [s \in Foreign |-> 1]

\* The wallet opens with outputs of 2 and 1, or with one of them.
MCOpening == <<2, 1>>

MCSmallOpening == <<2>>

MCOneOutput == <<1>>

\* Both tasks insert, pay and merge.
MCMoneyCalls == [t \in Task |-> {"insert", "pay", "merge"}]

\* One task inserts and pays while the other recovers.
MCRecoverAside == (t1 :> {"insert", "pay"}) @@ (t2 :> {"recover"})

\* One task pays while the other inserts or recovers.
MCPayAside == (t1 :> {"pay"}) @@ (t2 :> {"insert", "recover"})

\* One task inserts and merges while the other recovers.  Nothing paid out can be
\* recovered and paid again, so the coins there are bound the depths used.
MCFiniteMoney == (t1 :> {"insert", "merge"}) @@ (t2 :> {"recover"})

MCSymmetry == Permutations(Task)
============================================================================
