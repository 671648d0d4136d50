------------------------------- MODULE Purse -------------------------------
(***************************************************************************)
(* What a wallet is to its owner: an amount held, and claims outside, which *)
(* are webcash strings somebody else can spend.  Taking one in and giving  *)
(* one out are single steps, money is neither made nor lost in either, and *)
(* nothing else changes what is held: the abstract specification the       *)
(* wallet's operations are held against.                                   *)
(***************************************************************************)
EXTENDS Naturals

CONSTANT Claim  \* secrets that may be in circulation

VARIABLES
    held,    \* what the wallet can spend
    outside  \* what each claim is worth to whoever has it, 0 once redeemed

Init ==
    /\ held \in Nat
    /\ outside \in [Claim -> Nat]

TakeIn(s) ==
    /\ outside[s] > 0
    /\ outside' = [outside EXCEPT ![s] = 0]
    /\ held' = held + outside[s]

\* For as much as it is worth, which is something.
GiveOut(s) ==
    /\ outside[s] = 0 /\ outside'[s] > 0
    /\ outside' = [outside EXCEPT ![s] = outside'[s]]
    /\ held = held' + outside'[s]

\* Somebody else redeems a claim.
Redeem(s) ==
    /\ outside[s] > 0
    /\ outside' = [outside EXCEPT ![s] = 0]
    /\ held' = held

Next == \E s \in Claim : TakeIn(s) \/ GiveOut(s) \/ Redeem(s)

Spec == Init /\ [][Next]_<<held, outside>>
============================================================================
