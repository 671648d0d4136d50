------------------------------- MODULE Ledger -------------------------------
(***************************************************************************)
(* The webcash server, as the wallet uses it: what POST /replace and POST  *)
(* /health_check do to and say about each secret.  The server is not part  *)
(* of the repository; docs/PROTOCOL.md and the client code describe it.    *)
(***************************************************************************)
EXTENDS Coins

CONSTANTS
    SameLineage  \* foreign secrets the server will only replace by themselves

ASSUME SameLineageAssumption == SameLineage \subseteq Foreign

VARIABLES
    srv,     \* status the server reports for a secret
    worth    \* amount the server recorded when the secret was created

ledgerVars == <<srv, worth>>

Status == {"unknown", "unspent", "spent"}

\* A /replace request: the coins it spends and the coins it creates.
Request == [ins : Coins, new : Coins]

Known(s) == srv[s] # "unknown"

\* The server replaces all or nothing: live inputs, fresh outputs, equal sums.
Replaceable(req) ==
    /\ \A s \in Listed(req.ins) : srv[s] = "unspent" /\ worth[s] = req.ins[s]
    /\ \A s \in Listed(req.new) : ~Known(s)
    /\ Total(req.ins) = Total(req.new)
    /\ Listed(req.ins) \cap SameLineage = {}

\* "can only be replaced by itself"
RefusedAsSameLineage(req) ==
    \E s \in Listed(req.ins) \cap SameLineage : Known(s)

Replace(req) ==
    /\ srv' = [s \in Secret |-> IF s \in Listed(req.ins) THEN "spent"
                                ELSE IF s \in Listed(req.new) THEN "unspent"
                                ELSE srv[s]]
    /\ worth' = Updated(worth, req.new)

\* Somebody else who knows the secret replaces it by one of their own.
SpentElsewhere(s) ==
    /\ srv[s] = "unspent"
    /\ srv' = [srv EXCEPT ![s] = "spent"]
    /\ UNCHANGED worth
============================================================================
