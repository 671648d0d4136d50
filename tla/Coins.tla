------------------------------- MODULE Coins -------------------------------
(***************************************************************************)
(* The vocabulary shared by the wallet, its store and the server.          *)
(*                                                                         *)
(* A webcash is a secret together with an amount.  A wallet derives its    *)
(* own secrets from the master secret, a chain and a depth; every other    *)
(* secret was made by somebody else.  SHA-256 and the HD derivation are    *)
(* abstracted to injectivity: a derived secret IS the pair <<chain, depth>>*)
(* and its hash identifies it.                                             *)
(***************************************************************************)
EXTENDS Naturals, FiniteSets, FiniteSetsExt

CONSTANTS
    Foreign,     \* secrets made by others, offered to this wallet
    MaxDepth,    \* bound: derivation depths are 0 .. MaxDepth
    MaxAmount    \* bound: every amount is at most the whole supply

ASSUME MaxDepthAssumption == MaxDepth \in Nat
ASSUME MaxAmountAssumption == MaxAmount \in Nat

Chain == {"RECEIVE", "PAY", "CHANGE", "MINING"}

Depth == 0 .. MaxDepth

Derived == Chain \X Depth

ASSUME ForeignAssumption == Foreign \cap Derived = {}

Secret == Derived \cup Foreign

Amount == 0 .. MaxAmount

\* A list of webcash: what it holds of each secret, 0 where it lists none.
Coins == [Secret -> Amount]

NoCoins == [s \in Secret |-> 0]

Listed(coins) == {s \in Secret : coins[s] > 0}

Total(coins) == SumFunctionOnSet(coins, Listed(coins))

CoinsOf(S, amt) == [s \in Secret |-> IF s \in S THEN amt[s] ELSE 0]

Coin(s, a) == [NoCoins EXCEPT ![s] = a]

\* new overrides old on the secrets it lists.
Updated(old, new) ==
    [s \in Secret |-> IF s \in Listed(new) THEN new[s] ELSE old[s]]
============================================================================
