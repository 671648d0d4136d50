------------------------------ MODULE MCBrowser ------------------------------
(***************************************************************************)
(* BrowserWallet and Amounts on small instances, one of them per           *)
(* behaviour: what becomes of the page's state, and of an amount between   *)
(* the browser, the native wallet and the server.                          *)
(***************************************************************************)
EXTENDS BrowserWallet, Amounts

VARIABLE kind  \* "state" or "amount"

\* A foreign secret is worth 1.
MCFaceValue == [s \in Foreign |-> 1]

MCSymmetry == Permutations(Flow)

\* Bound: two digits before the point, or just in and out of range; three behind.
MCWhole ==
    [named : {"none"}, sign : Sign, digits : {TRUE}, whole : 0 .. 3^2 - 1 \cup 31 .. 33]
    \cup [named : {"none", "inf", "nan"}, sign : Sign, digits : {FALSE}, whole : {0}]

MCFraction ==
    {f \in [points : {1}, fsign : Sign, len : 0 .. 3, frac : 0 .. 3^3 - 1] :
        f.frac < 3^f.len}
    \cup [points : {0, 2}, fsign : {""}, len : {0}, frac : {0}]

\* Either prefix or none, or an exponent, of each kind there is: one that is
\* read, is infinite, makes the number vanish, or is refused.
MCRest ==
    [prefix : {"none", "e", "won"}, exps : {0}, exp : {0}]
    \cup [prefix : {"none"}, exps : {1}, exp : -6 .. 5]

MCTyped ==
    {x \in
        {[prefix |-> r.prefix, named |-> w.named, sign |-> w.sign,
          digits |-> w.digits, whole |-> w.whole, points |-> f.points,
          fsign |-> f.fsign, len |-> f.len, frac |-> f.frac,
          exps |-> r.exps, exp |-> r.exp] :
            w \in MCWhole, f \in MCFraction, r \in MCRest} : WellFormed(x)}

MCHeld == {1, 8, 9, 17, 31}

\* The variables of the one that is not followed keep their first values.
MCInit ==
    /\ BrowserInit /\ Init
    /\ kind \in {"state", "amount"}
    /\ kind = "state" => text = Plain

\* An amount may stay what it is, a page goes on.
MCNext ==
    /\ UNCHANGED kind
    /\ \/ kind = "state" /\ BrowserNext /\ UNCHANGED vars
       \/ kind = "amount" /\ (Next \/ UNCHANGED vars) /\ UNCHANGED browserVars

MCSpec == MCInit /\ [][MCNext]_<<kind, browserVars, vars>>
============================================================================
