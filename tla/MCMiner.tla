------------------------------ MODULE MCMiner ------------------------------
(***************************************************************************)
(* Miner on small instances.                                               *)
(***************************************************************************)
EXTENDS Miner, TLC

MCFaceValue == [s \in Foreign |-> 1]

MCOpening == <<>>

MCEveryCall == [t \in Task |-> Operation]

MCNoCalls == [t \in Task |-> {}]

\* Bound: of the caller that makes every call two depths of each chain are
\* followed, and nothing that outlives it; of a miner beside a recover() three
\* depths and no foreign secret.
MCBound ==
    IF alone
    THEN /\ late = {} /\ reported = {}
         /\ \A c \in Chain : ~Known(<<c, 2>>) /\ store.depth[c] <= 2
    ELSE \A s \in Foreign : ~Known(s)
============================================================================
