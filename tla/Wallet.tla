------------------------------- MODULE Wallet -------------------------------
(***************************************************************************)
(* The money operations of a wallet: insert, pay, merge and recover of     *)
(* src/src/wallet/operations.rs, run by several tasks that share the       *)
(* wallet (every operation takes &self) against one server.                *)
(*                                                                         *)
(* A task is a call in progress.  Every store access is a step of its own, *)
(* because the store is locked per access only; so is every answer of the  *)
(* server.  A call can lose its reply (the HTTP client gives up after 30   *)
(* seconds), its request may still be travelling then, and the process may *)
(* stop between any two steps: the store and the server survive.           *)
(***************************************************************************)
EXTENDS Ledger, StoreOps, Sequences

CONSTANTS
    Task,       \* calls that can be in progress at once
    Calls,      \* operations each task's caller uses
    FaceValue,  \* amount printed on each foreign secret
    Opening,    \* amounts received before the behaviour starts, in order
    GapLimit,   \* window of recover()
    MaxMerge,   \* max_outputs of merge()
    Faults,     \* whether replies are lost and the process stops
    MaxLate     \* bound: abandoned requests that may still reach the server

Operation == {"insert", "pay", "merge", "recover"}

ASSUME WalletAssumption ==
    /\ Calls \in [Task -> SUBSET Operation]
    /\ FaceValue \in [Foreign -> Amount \ {0}]
    /\ Opening \in Seq(Amount \ {0})
    /\ Len(Opening) <= MaxDepth + 1
    /\ GapLimit \in Nat \ {0}
    /\ MaxMerge \in Nat
    /\ Faults \in BOOLEAN
    /\ MaxLate \in Nat

VARIABLES
    store,  \* the wallet database
    task,   \* what each call in progress knows
    late,   \* requests whose caller has given up, not yet at the server
    paid    \* payment secrets returned to a caller of pay

vars == <<srv, worth, store, task, late, paid>>

----------------------------------------------------------------------------
(* Calls in progress *)

\* Waiting for the answer to a /replace request.
Sent == {"insert_sent", "pay_sent", "merge_sent"}

\* The server has replaced, the wallet has not recorded all of it.
Replaced == {"insert_replaced", "insert_stored", "pay_replaced",
             "merge_replaced"}

\* Waiting for the answer to a /health_check request.
Checking == {"insert_validate", "insert_fallback", "scan"}

Other == {"insert_direct", "pay_selected", "merge_selected",
          "recover_store", "recover_depths", "recover_set"}

AtRest == {"idle", "recovered"}

PC == Sent \cup Replaced \cup Checking \cup Other \cup AtRest

Locals == [pc     : PC,
           ins    : Coins,           \* coins the call spends
           new    : Coins,           \* coins it creates, or has found
           amount : Amount,          \* what pay was asked for
           read   : [Chain -> Nat],  \* depths the call has read
           chain  : Chain,           \* where recover is
           from   : Nat,             \* first depth of its window
           used   : [Chain -> Nat]]  \* one more than the last used depth it saw

Idle == [pc |-> "idle", ins |-> NoCoins, new |-> NoCoins, amount |-> 0,
         read |-> [c \in Chain |-> 0], chain |-> "RECEIVE", from |-> 0,
         used |-> [c \in Chain |-> 0]]

RequestOf(t) == [ins |-> task[t].ins, new |-> task[t].new]

AllAtRest == \A t \in Task : task[t].pc \in AtRest

Goto(t, pc) == task' = [task EXCEPT ![t].pc = pc]

Finish(t) == task' = [task EXCEPT ![t] = Idle]

----------------------------------------------------------------------------
Init ==
    LET opened == {<<"RECEIVE", i - 1>> : i \in 1 .. Len(Opening)}
        sum(s) == IF s \in opened THEN Opening[s[2] + 1] ELSE 0
    IN
    /\ \E offered \in SUBSET Foreign :
         /\ srv = [s \in Secret |-> IF s \in opened \cup offered
                                    THEN "unspent" ELSE "unknown"]
         /\ worth = [s \in Secret |-> IF s \in offered
                                      THEN FaceValue[s] ELSE sum(s)]
    /\ store = [row    |-> [s \in Secret |-> IF s \in opened
                                             THEN "unspent" ELSE "none"],
                amt    |-> [s \in Secret |-> sum(s)],
                hashes |-> {},
                depth  |-> [c \in Chain |-> IF c = "RECEIVE"
                                            THEN Len(Opening) ELSE 0]]
    /\ task = [t \in Task |-> Idle]
    /\ late = {}
    /\ paid = {}

Begin(t, call) ==
    /\ task[t].pc \in AtRest
    /\ call \in Calls[t]
    /\ UNCHANGED <<srv, worth, store, late, paid>>

----------------------------------------------------------------------------
(* The server's answers to /replace *)

NextPC == [insert_sent |-> "insert_replaced",
           pay_sent    |-> "pay_replaced",
           merge_sent  |-> "merge_replaced"]

ServerReplaces(t) ==
    /\ task[t].pc \in Sent
    /\ Replaceable(RequestOf(t))
    /\ Replace(RequestOf(t))
    /\ Goto(t, NextPC[task[t].pc])
    /\ UNCHANGED <<store, late, paid>>

\* Mutant: a refusal is taken for a success.
RefusalIgnored(t) ==
    /\ task[t].pc \in Sent
    /\ ~Replaceable(RequestOf(t))
    /\ Goto(t, NextPC[task[t].pc])
    /\ UNCHANGED <<srv, worth, store, late, paid>>

ServerRefuses(t) ==
    /\ task[t].pc \in Sent
    /\ ~Replaceable(RequestOf(t))
    /\ IF task[t].pc = "insert_sent" /\ RefusedAsSameLineage(RequestOf(t))
       THEN Goto(t, "insert_fallback")
       ELSE Finish(t)
    /\ UNCHANGED <<srv, worth, store, late, paid>>

----------------------------------------------------------------------------
(* insert *)

\* A caller hands over a foreign secret, or a payment of its own come back.
InsertBegin(t, s, validate) ==
    LET d == store.depth["RECEIVE"]
        a == IF s \in Foreign THEN FaceValue[s] ELSE worth[s]
    IN
    /\ Begin(t, "insert")
    /\ d \in Depth
    /\ task' = [task EXCEPT ![t] =
         [Idle EXCEPT !.pc = IF validate THEN "insert_validate"
                             ELSE "insert_sent",
                      !.ins = Coin(s, a),
                      !.new = Coin(<<"RECEIVE", d>>, a),
                      !.read = [@ EXCEPT !["RECEIVE"] = d]]]

\* validate_input_webcash: only an input known to be spent is turned away.
InsertValidate(t) ==
    /\ task[t].pc = "insert_validate"
    /\ IF \E s \in Listed(task[t].ins) : srv[s] = "spent"
       THEN Finish(t)
       ELSE Goto(t, "insert_sent")
    /\ UNCHANGED <<srv, worth, store, late, paid>>

\* First of two separate writes.  A row already there makes the call fail.
InsertStore(t) ==
    /\ task[t].pc = "insert_replaced"
    /\ \E s \in Listed(task[t].new) :
         IF CanInsert(store, s)
         THEN /\ store' = insert_output(store, s, task[t].new[s])
              /\ Goto(t, "insert_stored")
         ELSE /\ Finish(t)
              /\ UNCHANGED store
    /\ UNCHANGED <<srv, worth, late, paid>>

InsertSetDepth(t) ==
    /\ task[t].pc = "insert_stored"
    /\ store' = set_depth(store, "RECEIVE", task[t].read["RECEIVE"] + 1)
    /\ Finish(t)
    /\ UNCHANGED <<srv, worth, late, paid>>

\* Same-lineage fallback: the secret itself is kept unless known to be spent.
InsertFallback(t) ==
    /\ task[t].pc = "insert_fallback"
    /\ IF \E s \in Listed(task[t].ins) : srv[s] = "spent"
       THEN Finish(t)
       ELSE Goto(t, "insert_direct")
    /\ UNCHANGED <<srv, worth, store, late, paid>>

\* Mutant: INSERT OR REPLACE.
StoreOrReplace(s, a) == store' = insert_output(store, s, a)

store_directly(s, a) ==
    store' = IF CanInsert(store, s) THEN insert_output(store, s, a) ELSE store

InsertDirect(t) ==
    /\ task[t].pc = "insert_direct"
    /\ \E s \in Listed(task[t].ins) : store_directly(s, task[t].ins[s])
    /\ Finish(t)
    /\ UNCHANGED <<srv, worth, late, paid>>

----------------------------------------------------------------------------
(* pay and merge *)

\* Largest first, until the sum reaches amount: the last is a smallest one.
Selections(amount) ==
    {S \in SUBSET Unspent(store) :
        /\ IsTop(store, S)
        /\ Total(CoinsOf(S, store.amt)) >= amount
        /\ \E last \in S :
             /\ \A s \in S : store.amt[last] <= store.amt[s]
             /\ Total(CoinsOf(S \ {last}, store.amt)) < amount}

PayBegin(t, amount) ==
    /\ Begin(t, "pay")
    /\ \E S \in Selections(amount) :
         task' = [task EXCEPT ![t] = [Idle EXCEPT !.pc = "pay_selected",
                                                  !.ins = CoinsOf(S, store.amt),
                                                  !.amount = amount]]

\* Mutants: the depth is advanced, or the payment returned, before the answer.
SendBurnsDepth(t, pc, new) ==
    /\ task' = [task EXCEPT ![t] = [@ EXCEPT !.pc = pc, !.read = store.depth,
                                             !.new = new]]
    /\ store' = [store EXCEPT !.depth =
         [c \in Chain |-> IF \E s \in Listed(new) : s[1] = c
                          THEN @[c] + 1 ELSE @[c]]]
    /\ UNCHANGED <<srv, worth, late, paid>>

SendReturnsPayment(t, pc, new) ==
    /\ task' = [task EXCEPT ![t] = [@ EXCEPT !.pc = pc, !.read = store.depth,
                                             !.new = new]]
    /\ paid' = paid \cup {s \in Listed(new) : s[1] = "PAY"}
    /\ UNCHANGED <<srv, worth, store, late>>

\* The depths are read and the request for the new outputs goes out.
Send(t, pc, new) ==
    /\ task' = [task EXCEPT ![t] = [@ EXCEPT !.pc = pc, !.read = store.depth,
                                             !.new = new]]
    /\ UNCHANGED <<srv, worth, store, late, paid>>

PaySend(t) ==
    LET p == <<"PAY", store.depth["PAY"]>>
        q == <<"CHANGE", store.depth["CHANGE"]>>
        amount == task[t].amount
    IN
    /\ task[t].pc = "pay_selected"
    /\ \E change \in Amount :
         /\ Total(task[t].ins) = amount + change
         /\ p \in Derived /\ (change > 0 => q \in Derived)
         /\ Send(t, "pay_sent", IF change > 0
                                THEN Updated(Coin(p, amount), Coin(q, change))
                                ELSE Coin(p, amount))

\* Bound: a call that would need a depth past MaxDepth is not followed, nor one
\* that offers more than the whole supply, which the server would refuse.
PastBounds(t) ==
    /\ \/ task[t].pc = "pay_selected" /\ store.depth["PAY"] > MaxDepth
       \/ /\ task[t].pc \in {"pay_selected", "merge_selected"}
          /\ \/ store.depth["CHANGE"] > MaxDepth
             \/ Total(task[t].ins) > MaxAmount
    /\ Finish(t)
    /\ UNCHANGED <<srv, worth, store, late, paid>>

MergeBegin(t) ==
    /\ Begin(t, "merge")
    /\ \E S \in SUBSET Unspent(store) :
         /\ IsTop(store, S)
         /\ S # Unspent(store) => Cardinality(S) = MaxMerge
         /\ Cardinality(S) \in 2 .. MaxMerge
         /\ task' = [task EXCEPT ![t] = [Idle EXCEPT !.pc = "merge_selected",
                                                     !.ins = CoinsOf(S, store.amt)]]

MergeSend(t) ==
    LET q == <<"CHANGE", store.depth["CHANGE"]>> IN
    /\ task[t].pc = "merge_selected"
    /\ q \in Derived
    /\ \E sum \in Amount :
         /\ sum = Total(task[t].ins)
         /\ Send(t, "merge_sent", Coin(q, sum))

\* Mutant: the wrong one of the two outputs.
KeptPayment(t) == {s \in Listed(task[t].new) : s[1] = "PAY"}

\* The outputs the wallet keeps: change, or the merged output.
Kept(t) == {s \in Listed(task[t].new) : s[1] = "CHANGE"}

\* The rows, amounts and depths after a successful replace.
RowsWith(rows, kept) ==
    [s \in Secret |-> IF s \in kept THEN "unspent" ELSE rows[s]]

\* Mutants: the change output's depth is forgotten; the depths are written back
\* as they were read, the chains that were not used included.
PayDepthOnly(t, depth) == [depth EXCEPT !["PAY"] = task[t].read["PAY"] + 1]

StaleDepths(t, depth) ==
    [c \in Chain |-> IF \E s \in Listed(task[t].new) : s[1] = c
                     THEN task[t].read[c] + 1 ELSE task[t].read[c]]

DepthsPast(t, depth) ==
    [c \in Chain |-> IF \E s \in Listed(task[t].new) : s[1] = c
                     THEN task[t].read[c] + 1 ELSE depth[c]]

\* Mutant: the inputs stay spendable.
RecordedInputsKept(t) ==
    [store EXCEPT
       !.row   = RowsWith(@, Kept(t)),
       !.amt   = Updated(@, CoinsOf(Kept(t), task[t].new)),
       !.depth = DepthsPast(t, @)]

\* The transaction as pay and merge run it.
Recorded(t) ==
    [mark_spent(store, Listed(task[t].ins)) EXCEPT
       !.row   = RowsWith(@, Kept(t)),
       !.amt   = Updated(@, CoinsOf(Kept(t), task[t].new)),
       !.depth = DepthsPast(t, @)]

\* All of it, or none where the UNIQUE constraint stops it: then the call fails.
Commit(t) ==
    /\ store' = IF \A s \in Kept(t) : CanInsert(store, s)
                THEN Recorded(t) ELSE store
    /\ Finish(t)

PayCommit(t) ==
    /\ task[t].pc = "pay_replaced"
    /\ Commit(t)
    /\ paid' = IF \A s \in Kept(t) : CanInsert(store, s)
               THEN paid \cup (Listed(task[t].new) \ Kept(t)) ELSE paid
    /\ UNCHANGED <<srv, worth, late>>

MergeCommit(t) ==
    /\ task[t].pc = "merge_replaced"
    /\ Commit(t)
    /\ UNCHANGED <<srv, worth, late, paid>>

----------------------------------------------------------------------------
(* recover *)

ChainAfter == [RECEIVE |-> "PAY", PAY |-> "CHANGE", CHANGE |-> "MINING"]

Used(c, d) == <<c, d>> \in Derived /\ Known(<<c, d>>)

RecoverBegin(t) ==
    /\ Begin(t, "recover")
    /\ task' = [task EXCEPT ![t] = [Idle EXCEPT !.pc = "scan",
                                                !.read = store.depth]]

\* Mutant: only a live output counts as use.
LiveHits(c, window) == {d \in window : Used(c, d) /\ srv[<<c, d>>] = "unspent"}

\* Depths of a window the server has seen, spent or not.
Hits(c, window) == {d \in window : Used(c, d)}

\* Mutant: the window is not moved after a hit.
ScanAgain(l, hit) ==
    IF hit THEN l
    ELSE IF l.from + GapLimit <= l.read[l.chain]
    THEN [l EXCEPT !.from = @ + GapLimit]
    ELSE IF l.chain \in DOMAIN ChainAfter
    THEN [l EXCEPT !.chain = ChainAfter[@], !.from = 0]
    ELSE [l EXCEPT !.pc = "recover_store", !.chain = "RECEIVE", !.from = 0]

\* Mutant: the recorded depth is not looked at.
ScanUntilMiss(l, hit) ==
    IF hit
    THEN [l EXCEPT !.from = @ + GapLimit]
    ELSE IF l.chain \in DOMAIN ChainAfter
    THEN [l EXCEPT !.chain = ChainAfter[@], !.from = 0]
    ELSE [l EXCEPT !.pc = "recover_store", !.chain = "RECEIVE", !.from = 0]

\* Where the scan goes after the window that starts at from.
ScanOn(l, hit) ==
    IF hit \/ l.from + GapLimit <= l.read[l.chain]
    THEN [l EXCEPT !.from = @ + GapLimit]
    ELSE IF l.chain \in DOMAIN ChainAfter
    THEN [l EXCEPT !.chain = ChainAfter[@], !.from = 0]
    ELSE [l EXCEPT !.pc = "recover_store", !.chain = "RECEIVE", !.from = 0]

\* One /health_check over a window of GapLimit depths of one chain.
RecoverScan(t) ==
    LET l == task[t]
        window == {d \in Depth : d >= l.from /\ d < l.from + GapLimit}
        hits == Hits(l.chain, window)
        live == {s \in Secret : /\ srv[s] = "unspent"
                                /\ \E d \in hits : s = <<l.chain, d>>}
    IN
    /\ l.pc = "scan"
    /\ \E top \in 0 .. MaxDepth + 1 :
         /\ \/ hits = {} /\ top = l.used[l.chain]
            \/ top - 1 \in hits /\ \A d \in hits : d < top
         /\ task' = [task EXCEPT ![t] =
              ScanOn([l EXCEPT
                !.used = [@ EXCEPT ![l.chain] = top],
                !.new = Updated(@, CoinsOf(live, worth))],
                hits # {})]
    /\ UNCHANGED <<srv, worth, store, late, paid>>

\* store_directly for each output found; one already stored is tolerated.
RecoverStore(t) ==
    /\ task[t].pc = "recover_store"
    /\ \E s \in Listed(task[t].new) :
         /\ store_directly(s, task[t].new[s])
         /\ task' = [task EXCEPT ![t].new = [@ EXCEPT ![s] = 0]]
    /\ UNCHANGED <<srv, worth, late, paid>>

RecoverStored(t) ==
    /\ task[t].pc = "recover_store"
    /\ task[t].new = NoCoins
    /\ Goto(t, "recover_depths")
    /\ UNCHANGED <<srv, worth, store, late, paid>>

NextChain(l) ==
    IF l.chain \in DOMAIN ChainAfter
    THEN [l EXCEPT !.pc = "recover_depths", !.chain = ChainAfter[@]]
    ELSE [Idle EXCEPT !.pc = "recovered"]

\* Reads the depth again, after the scan ...
RecoverReadDepth(t) ==
    LET l == task[t] IN
    /\ l.pc = "recover_depths"
    /\ task' = [task EXCEPT ![t] =
         IF l.used[l.chain] > store.depth[l.chain]
         THEN [l EXCEPT !.pc = "recover_set"] ELSE NextChain(l)]
    /\ UNCHANGED <<srv, worth, store, late, paid>>

\* Mutant: one depth too far.
RecoverSkipsDepth(t) ==
    LET l == task[t] IN
    /\ l.pc = "recover_set"
    /\ store' = set_depth(store, l.chain, l.used[l.chain] + 1)
    /\ task' = [task EXCEPT ![t] = NextChain(l)]
    /\ UNCHANGED <<srv, worth, late, paid>>

\* ... and raises it in a separate access.
RecoverSetDepth(t) ==
    LET l == task[t] IN
    /\ l.pc = "recover_set"
    /\ store' = set_depth(store, l.chain, l.used[l.chain])
    /\ task' = [task EXCEPT ![t] = NextChain(l)]
    /\ UNCHANGED <<srv, worth, late, paid>>

----------------------------------------------------------------------------
(* Lost replies, a stopped process, and other people's wallets *)

Abandoned(requests) ==
    /\ late' \in {late, late \cup requests}
    /\ Cardinality(late') <= MaxLate

\* The HTTP client times out, or the reply is lost: the call returns an error.
GiveUp(t) ==
    /\ Faults
    /\ task[t].pc \in Sent \cup Checking \cup (Replaced \ {"insert_stored"})
    /\ Abandoned(IF task[t].pc \in Sent THEN {RequestOf(t)} ELSE {})
    /\ Finish(t)
    /\ UNCHANGED <<srv, worth, store, paid>>

\* The process stops: every call is forgotten, the database is not.
Crash ==
    /\ Faults
    /\ ~AllAtRest
    /\ Abandoned({RequestOf(t) : t \in {u \in Task : task[u].pc \in Sent}})
    /\ task' = [t \in Task |-> Idle]
    /\ UNCHANGED <<srv, worth, store, paid>>

\* A request reaches the server after its caller has given up.
LateReplace(req) ==
    /\ req \in late
    /\ late' = late \ {req}
    /\ IF Replaceable(req) THEN Replace(req) ELSE UNCHANGED ledgerVars
    /\ UNCHANGED <<store, task, paid>>

\* A payee redeems a payment, or whoever made a foreign secret spends it.
OthersSpend(s) ==
    /\ s \in Foreign \cup paid
    /\ SpentElsewhere(s)
    /\ UNCHANGED <<store, task, late, paid>>

----------------------------------------------------------------------------
Call(t) ==
    \/ \E s \in Foreign \cup paid, v \in BOOLEAN : InsertBegin(t, s, v)
    \/ \E a \in Amount \ {0} : PayBegin(t, a)
    \/ MergeBegin(t)
    \/ RecoverBegin(t)

\* What a call in progress does next, the server's answer included.
Advance(t) ==
    \/ ServerReplaces(t) \/ ServerRefuses(t)
    \/ InsertValidate(t) \/ InsertStore(t) \/ InsertSetDepth(t)
    \/ InsertFallback(t) \/ InsertDirect(t)
    \/ PaySend(t) \/ PayCommit(t)
    \/ MergeSend(t) \/ MergeCommit(t)
    \/ PastBounds(t)
    \/ RecoverScan(t) \/ RecoverStore(t) \/ RecoverStored(t)
    \/ RecoverReadDepth(t) \/ RecoverSetDepth(t)

\* Everything but the start of a call and the end of the process.
Progress ==
    \/ \E t \in Task : Advance(t)
    \/ \E t \in Task : GiveUp(t)
    \/ \E req \in late : LateReplace(req)
    \/ \E s \in Foreign \cup paid : OthersSpend(s)

Next ==
    \/ \E t \in Task : Call(t)
    \/ Progress
    \/ Crash

Spec == Init /\ [][Next]_vars

\* The runtime polls every task, and the server answers what it is asked.
FairSpec == Spec /\ \A t \in Task : WF_vars(Advance(t))

----------------------------------------------------------------------------
(* Properties *)

\* Every variable has its type; the store holds no amount without a row.
TypeOK ==
    /\ srv \in [Secret -> Status]
    /\ worth \in [Secret -> Amount]
    /\ store \in Store
    /\ task \in [Task -> Locals]
    /\ late \subseteq Request
    /\ paid \subseteq {"PAY"} \X Depth

\* The server knows the secrets of a chain without a gap, and every secret
\* below the depth the wallet has recorded.  No interleaving of calls, lost
\* reply, late request or crash burns a depth: this is what makes the window
\* of recover() sufficient, however small.
ChainsContiguous ==
    \A c \in Chain, d \in Depth :
        /\ d < store.depth[c] => Known(<<c, d>>)
        /\ Known(<<c, d>>) => \A e \in 0 .. d : Known(<<c, e>>)

\* Every depth of chain c below n has been used.
Prefix(c, n) == \A d \in Depth : d < n => Known(<<c, d>>)

Inserting == {"insert_validate", "insert_sent", "insert_replaced",
              "insert_stored"}

Fallback == {"insert_fallback", "insert_direct"}

Spending == {"pay_selected", "pay_sent", "pay_replaced",
             "merge_selected", "merge_sent", "merge_replaced"}

\* What a call has read of a chain stays covered, the outputs it proposes are at
\* the depths it has read, and they exist once the server has replaced.
Covered(l) ==
    /\ \A c \in Chain : Prefix(c, l.read[c]) /\ Prefix(c, l.used[c])
    /\ l.pc \in Inserting \cup Sent \cup Replaced =>
         \A s \in Listed(l.new) : s \in Derived /\ s[2] = l.read[s[1]]
    /\ l.pc \in Inserting =>
         <<"RECEIVE", l.read["RECEIVE"]>> \in Listed(l.new)
    /\ l.pc \in {"pay_sent", "pay_replaced"} =>
         \A s \in Listed(l.new) : s[1] \in {"PAY", "CHANGE"}
    /\ l.pc \in Replaced => \A s \in Listed(l.new) : Known(s)

CallsCovered == \A t \in Task : Covered(task[t])

\* So do the outputs of a request that outlives its caller.
LateCovered ==
    \A req \in late : \A s \in Listed(req.new) :
        s \in Derived /\ Prefix(s[1], s[2])

\* Money the server knows is not zero, and payments are known to it.
KnownWorth ==
    /\ \A s \in Secret : Known(s) => worth[s] > 0
    /\ \A s \in paid : Known(s)

\* The inductive invariant behind ChainsContiguous.
CoverInv ==
    TypeOK /\ ChainsContiguous /\ CallsCovered /\ LateCovered /\ KnownWorth

\* Started from the seed alone, recover() looks at every depth of a chain up to
\* the first window without a used one.
Visited(c, d) ==
    \A w \in 0 .. (d \div GapLimit) - 1 :
        \E e \in w * GapLimit .. (w + 1) * GapLimit - 1 : Used(c, e)

\* No money is lost: whatever the server holds for a secret of this wallet is
\* in the store as spendable, or a recover() from the seed would find it.
Recoverable ==
    \A c \in Chain, d \in Depth :
        srv[<<c, d>>] = "unspent" =>
            store.row[<<c, d>>] = "unspent" \/ Visited(c, d)

\* The store never invents money and never throws live money away: a row is
\* about a secret the server knows, has the amount the server recorded, and is
\* marked spent only when the server has spent it; the spent hashes are the
\* rows marked spent.
RowsBacked ==
    /\ \A s \in Secret : Stored(store, s) =>
         /\ Known(s)
         /\ store.amt[s] = worth[s]
         /\ store.row[s] = "spent" => srv[s] = "spent"
    /\ store.hashes = {s \in Secret : store.row[s] = "spent"}

\* What calls remember of amounts and rows, which their later steps write: an
\* insert has one input, with the amount printed on it or the one recorded, and
\* keeps it as it is only if the server knows it; an input chosen from the store
\* has a row; what has been replaced or found is worth what the server recorded,
\* and inputs replaced are spent.
CallBacked(l) ==
    /\ l.pc \in Inserting => \A s, r \in Listed(l.ins) : s = r
    /\ l.pc \in Inserting \cup Fallback =>
         \A s \in Listed(l.ins) :
             \/ s \in Foreign /\ l.ins[s] = FaceValue[s]
             \/ Known(s) /\ l.ins[s] = worth[s]
    /\ l.pc \in Fallback => \A s \in Listed(l.ins) : Known(s)
    /\ l.pc \in Spending => \A s \in Listed(l.ins) : Stored(store, s)
    /\ l.pc \in {"pay_replaced", "merge_replaced"} =>
         \A s \in Listed(l.ins) : srv[s] = "spent"
    /\ l.pc \in Replaced \cup {"scan", "recover_store"} =>
         \A s \in Listed(l.new) : Known(s) /\ l.new[s] = worth[s]

CallsBacked == \A t \in Task : CallBacked(task[t])

FaceBacked == \A s \in Foreign : Known(s) => worth[s] = FaceValue[s]

\* The inductive invariant behind RowsBacked.
RowsInv == CoverInv /\ RowsBacked /\ CallsBacked /\ FaceBacked

InFlight(s) == \E t \in Task : /\ task[t].pc \in Replaced
                               /\ s \in Listed(task[t].ins) \cup Listed(task[t].new)

\* While no reply is lost, the store and the server disagree about a secret of
\* the wallet only during the call that changes it, and a payment is the only
\* money that leaves.
BooksAgree ==
    \A s \in Derived :
        /\ store.row[s] = "unspent" /\ srv[s] = "spent" => InFlight(s)
        /\ srv[s] = "unspent" /\ store.row[s] # "unspent" =>
             s \in paid \/ InFlight(s)

\* While no reply is lost, the next secret of a chain is one the server has
\* not seen, unless a call that has just used it is about to record that:
\* otherwise the server would refuse every further call on that chain.
NextSecretFresh ==
    \A c \in Chain :
        Used(c, store.depth[c]) => InFlight(<<c, store.depth[c]>>)

\* No reply is lost and nothing is recovered.
Undisturbed == ~Faults /\ \A t \in Task : "recover" \notin Calls[t]

Recovering == {"scan", "recover_store", "recover_depths", "recover_set",
               "recovered"}

\* Replaced, and nothing recorded yet.
Unrecorded == Replaced \ {"insert_stored"}

\* What a call of an undisturbed wallet knows: an insert takes in what others
\* hold and makes one output, a merge makes change only, the depths it has read
\* are reached, and those it has used are not passed until it records them; its
\* outputs have no row before that, are in nobody's hands and so unspent.
Settled(l) ==
    /\ l.pc \notin Recovering
    /\ \A c \in Chain : l.read[c] <= store.depth[c]
    /\ l.pc \in Inserting => Listed(l.ins) \subseteq Foreign \cup paid
    /\ l.pc \in Inserting =>
         Listed(l.new) \subseteq {<<"RECEIVE", l.read["RECEIVE"]>>}
    /\ l.pc \in Fallback => Listed(l.ins) \subseteq Foreign
    /\ l.pc \in {"merge_sent", "merge_replaced"} =>
         \A s \in Listed(l.new) : s[1] = "CHANGE"
    /\ l.pc \in Replaced =>
         \A s \in Listed(l.new) : store.depth[s[1]] <= s[2]
    /\ l.pc \in Unrecorded =>
         \A s \in Listed(l.new) :
             ~Stored(store, s) /\ s \notin paid /\ srv[s] = "unspent"
    /\ l.pc = "insert_stored" =>
         \A s \in Listed(l.new) : Stored(store, s)

CallsSettled == \A t \in Task : Settled(task[t])

\* No two calls have made the same output.
OutputsApart ==
    \A t, u \in Task :
        t # u /\ task[t].pc \in Replaced /\ task[u].pc \in Replaced =>
            Listed(task[t].new) \cap Listed(task[u].new) = {}

\* Payments are not kept.
PaymentsLeave == \A d \in Depth : ~Stored(store, <<"PAY", d>>)

\* A row is behind the server only where a call has just spent it, and money
\* the server holds is without a row only where a call has just made it.
BehindByOneCall ==
    \A s \in Derived :
        /\ store.row[s] = "unspent" /\ srv[s] = "spent" =>
             \E t \in Task : task[t].pc \in Replaced /\ s \in Listed(task[t].ins)
        /\ srv[s] = "unspent" /\ store.row[s] # "unspent" =>
             \/ s \in paid
             \/ \E t \in Task : task[t].pc \in Unrecorded /\ s \in Listed(task[t].new)

\* A secret at or past the recorded depth is one a call has just made.
UsedByOneCall ==
    \A c \in Chain, d \in Depth :
        Known(<<c, d>>) /\ store.depth[c] <= d =>
            \E t \in Task : task[t].pc \in Replaced /\ <<c, d>> \in Listed(task[t].new)

\* The inductive invariant behind BooksAgree and NextSecretFresh.
BooksInv ==
    /\ RowsInv
    /\ late = {}
    /\ CallsSettled
    /\ OutputsApart
    /\ PaymentsLeave
    /\ BehindByOneCall
    /\ UsedByOneCall

\* A payment string handed to the caller can be redeemed at that moment.
PaymentIsLive ==
    [][\A s \in paid' \ paid : srv[s] = "unspent"]_vars

\* While nothing is recovered, recorded depths never go down.
DepthsNeverRegress ==
    [][\A c \in Chain : store'.depth[c] >= store.depth[c]]_vars

\* An output once marked spent is never offered for spending again, not even by
\* a recover() whose scan is older than the call that spent it.
SpentStaysSpent ==
    [][\A s \in Secret :
        store.row[s] = "spent" => store'.row[s] = "spent"]_vars

\* operations.rs, "Advance per-chain depth markers if the scan saw further-out
\* usage than the wallet's record": the step that writes the marker raises it.
\* The record may have grown since it was compared.
RecoverOnlyAdvances ==
    [][\A t \in Task :
        task[t].pc = "recover_set" /\ task'[t].pc # "recover_set" =>
            \A c \in Chain : store'.depth[c] >= store.depth[c]]_vars

\* A recover() that ran undisturbed leaves every live secret of the wallet in
\* the store as spendable and every chain at a secret the server has not seen.
RecoverCompletes ==
    (\E t \in Task : task[t].pc = "recovered") /\ AllAtRest /\ late = {} =>
        \A c \in Chain :
            /\ \A d \in Depth : srv[<<c, d>>] = "unspent" =>
                 store.row[<<c, d>>] = "unspent"
            /\ ~Used(c, store.depth[c])

\* No secret becomes known to the server.
NothingNew == \A s \in Secret : Known(s)' => Known(s)

\* Every call returns, once the server hears of no new secret.  The scan of
\* recover() has no bound of its own: a window in which anything is found is
\* followed by another, so that calls that keep using new depths, or another
\* wallet of the same seed, keep it going.
EveryCallReturns ==
    <>[][NothingNew]_vars =>
        \A t \in Task : (task[t].pc \notin AtRest) ~> (task[t].pc \in AtRest)
============================================================================
