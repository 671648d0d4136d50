----------------------------- MODULE MCLifecycle -----------------------------
(***************************************************************************)
(* Lifecycle and Seeds on small instances, one of them per behaviour: what *)
(* becomes of a wallet's file, and of its seed, over sessions.             *)
(***************************************************************************)
EXTENDS Lifecycle, Seeds, TLC

CONSTANTS s1, s2, s3

VARIABLE kind  \* "file" or "seed"

\* The seeds that are generated are interchangeable.
MCSymmetry == Permutations({s2, s3})

\* The variables of the one that is not followed keep their first values.
MCInit == kind \in {"file", "seed"} /\ Init /\ SeedInit

MCNext ==
    /\ UNCHANGED kind
    /\ \/ kind = "file" /\ Next /\ UNCHANGED seedVars
       \/ kind = "seed" /\ SeedNext /\ UNCHANGED vars

MCSpec == MCInit /\ [][MCNext]_<<kind, vars, seedVars>>
============================================================================
