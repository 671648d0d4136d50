---------------------------- MODULE BrowserWallet ----------------------------
(***************************************************************************)
(* The browser wallet: src/crates/webylib-wasm/src/wallet.rs.  Its calls   *)
(* are functions of a state the page passes in; a money operation is a     *)
(* prepare, which proposes an effect and changes nothing, the page's own   *)
(* request, and an apply, which takes the effect and the state of then.    *)
(*                                                                         *)
(* The page is not in the repository.  It keeps one state, passes it to    *)
(* every call, and keeps what comes back; it may have several flows (a     *)
(* prepare on its way to its apply) in progress, and may be closed, or     *)
(* lose an answer, at any point.                                           *)
(***************************************************************************)
EXTENDS Ledger, SequencesExt

CONSTANTS
    Flow,         \* prepares that can be in progress at once
    Operations,   \* what the page offers
    FaceValue,    \* amount printed on each foreign secret
    MaxMerge,     \* max_outputs of a merge
    Reward,       \* amounts mined
    RecoverApart, \* whether the page recovers only while no flow is in progress
    Faults,       \* whether answers are lost and the page is closed
    MaxLost       \* bound: no effect is lost once so many coins or requests are

Operation == {"insert", "pay", "merge", "mine", "recover", "reimport"}

ASSUME BrowserAssumption ==
    /\ Operations \subseteq Operation
    /\ FaceValue \in [Foreign -> Amount \ {0}]
    /\ MaxMerge \in Nat \ {0}
    /\ Reward \subseteq Amount \ {0}
    /\ RecoverApart \in BOOLEAN
    /\ Faults \in BOOLEAN
    /\ MaxLost \in Nat

VARIABLES
    state, \* the wallet state the page has saved
    flow,  \* what each flow in progress knows
    late,  \* requests whose flow is gone, not yet at the server
    paid,  \* payments whose replace the page has seen succeed
    lost   \* auxiliary: what the server has spent or created for flows that are gone

browserVars == <<srv, worth, state, flow, late, paid, lost>>

Output == [secret : Secret, amount : Amount, spent : BOOLEAN]

WalletState == [outputs : Seq(Output),
                hashes  : SUBSET Secret,       \* spent_hashes
                depth   : [Chain -> Nat]]

PC == {"idle", "replace", "replaced", "report", "mined", "check", "checked"}

Effect == [pc    : PC,
           ins   : Coins,           \* coins the request spends
           new   : Coins,           \* coins it creates, or a check has found
           keep  : SUBSET Secret,   \* of these the wallet's: pending_output
           mark  : SUBSET Secret,   \* mark_spent
           after : [Chain -> Nat]]  \* depth_updates, 0 for none

Idle == [pc |-> "idle", ins |-> NoCoins, new |-> NoCoins, keep |-> {},
         mark |-> {}, after |-> [c \in Chain |-> 0]]

\* A request to replace ins by new, or (minting) to create new.
RequestOf(f) == [ins |-> flow[f].ins, new |-> flow[f].new,
                 mint |-> flow[f].pc = "report"]

Changed(req) == Listed(req.ins) \cup Listed(req.new)

AllIdle == \A f \in Flow : flow[f].pc = "idle"

Entry(s, a) == [secret |-> s, amount |-> a, spent |-> FALSE]

Live == {i \in DOMAIN state.outputs : ~state.outputs[i].spent}

\* What a set of entries holds of each secret: they are of different secrets.
EntryCoins(I) ==
    [s \in Secret |-> IF \E i \in I : state.outputs[i].secret = s
                      THEN state.outputs[CHOOSE i \in I :
                                           state.outputs[i].secret = s].amount
                      ELSE 0]

SumOf(I) == SumFunctionOnSet([i \in I |-> state.outputs[i].amount], I)

Secrets(I) == {state.outputs[i].secret : i \in I}

BrowserInit ==
    /\ srv = [s \in Secret |-> IF s \in Foreign THEN "unspent" ELSE "unknown"]
    /\ worth = [s \in Secret |-> IF s \in Foreign THEN FaceValue[s] ELSE 0]
    /\ state = [outputs |-> <<>>, hashes |-> {}, depth |-> [c \in Chain |-> 0]]
    /\ flow = [f \in Flow |-> Idle]
    /\ late = {}
    /\ paid = {}
    /\ lost = {}

----------------------------------------------------------------------------
(* Prepare *)

Recovering == \E f \in Flow : flow[f].pc \in {"check", "checked"}

Begin(f, op) ==
    /\ op \in Operations
    /\ flow[f].pc = "idle"
    /\ RecoverApart => ~Recovering
    /\ UNCHANGED <<srv, worth, state, late, paid, lost>>

\* The next secret of a chain, and the depth after it.
NextOf(c) == <<c, state.depth[c]>>

After(chains) == [c \in Chain |-> IF c \in chains THEN state.depth[c] + 1 ELSE 0]

PrepareInsert(f, s) ==
    LET a == IF s \in Foreign THEN FaceValue[s] ELSE worth[s]
        p == NextOf("RECEIVE")
    IN
    /\ Begin(f, "insert")
    /\ p \in Derived
    /\ flow' = [flow EXCEPT ![f] =
         [pc |-> "replace", ins |-> Coin(s, a), new |-> Coin(p, a),
          keep |-> {p}, mark |-> {}, after |-> After({"RECEIVE"})]]

\* Largest first, entries of equal amount in the order they are kept.
Before(i, j) ==
    LET x == state.outputs[i].amount
        y == state.outputs[j].amount
    IN  x > y \/ (x = y /\ i < j)

Selected(amount) == {j \in Live : SumOf({i \in Live : Before(i, j)}) < amount}

PreparePay(f, amount) ==
    LET S == Selected(amount)
        p == NextOf("PAY")
        q == NextOf("CHANGE")
    IN
    /\ Begin(f, "pay")
    /\ \E change \in Amount :
         /\ SumOf(S) = amount + change
         /\ p \in Derived /\ (change > 0 => q \in Derived)
         /\ flow' = [flow EXCEPT ![f] =
              [pc    |-> "replace",
               ins   |-> EntryCoins(S),
               new   |-> IF change > 0 THEN Updated(Coin(p, amount), Coin(q, change))
                         ELSE Coin(p, amount),
               keep  |-> IF change > 0 THEN {q} ELSE {},
               mark  |-> Secrets(S),
               after |-> After(IF change > 0 THEN {"PAY", "CHANGE"} ELSE {"PAY"})]]

\* Bound: what the entries come to, each more than zero, is in the supply.
PrepareMerge(f) ==
    LET I == {j \in Live : Cardinality({i \in Live : i < j}) < MaxMerge}
        q == NextOf("CHANGE")
    IN
    /\ Begin(f, "merge")
    /\ Cardinality(Live) > 1
    /\ q \in Derived
    /\ SumOf(I) \in Amount \ {0}
    /\ flow' = [flow EXCEPT ![f] =
         [pc |-> "replace", ins |-> EntryCoins(I), new |-> Coin(q, SumOf(I)),
          keep |-> {q}, mark |-> Secrets(I), after |-> After({"CHANGE"})]]

\* The depth advances only when the mined secret is stored.
PrepareMine(f, reward) ==
    LET m == NextOf("MINING") IN
    /\ Begin(f, "mine")
    /\ m \in Derived
    /\ flow' = [flow EXCEPT ![f] =
         [Idle EXCEPT !.pc = "report", !.new = Coin(m, reward), !.keep = {m}]]

\* A batch of depths of one chain, from its start.
PrepareRecover(f, c) ==
    /\ Begin(f, "recover")
    /\ RecoverApart => AllIdle
    /\ flow' = [flow EXCEPT ![f] =
         [Idle EXCEPT !.pc = "check", !.keep = {<<c, d>> : d \in Depth}]]

----------------------------------------------------------------------------
(* The server *)

Accepted(req) ==
    /\ Replaceable([ins |-> req.ins, new |-> req.new]) \/ req.mint
    /\ \A s \in Listed(req.new) : ~Known(s)

Create(req) == Replace([ins |-> req.ins, new |-> req.new])

ServerAccepts(f) ==
    /\ flow[f].pc \in {"replace", "report"}
    /\ Accepted(RequestOf(f))
    /\ Create(RequestOf(f))
    /\ flow' = [flow EXCEPT ![f].pc = IF @ = "report" THEN "mined" ELSE "replaced"]
    /\ UNCHANGED <<state, late, paid, lost>>

\* apply_replace without success changes nothing; a report may also come late.
ServerRefuses(f) ==
    /\ flow[f].pc \in {"replace", "report"}
    /\ Accepted(RequestOf(f)) => flow[f].pc = "report"
    /\ flow' = [flow EXCEPT ![f] = Idle]
    /\ UNCHANGED <<srv, worth, state, late, paid, lost>>

ServerChecks(f) ==
    /\ flow[f].pc = "check"
    /\ flow' = [flow EXCEPT ![f] =
         [@ EXCEPT !.pc = "checked",
                   !.new = CoinsOf({s \in flow[f].keep : srv[s] = "unspent"}, worth)]]
    /\ UNCHANGED <<srv, worth, state, late, paid, lost>>

----------------------------------------------------------------------------
(* Apply *)

\* The first entry of each secret in S.
FirstOf(outputs, S) ==
    {i \in DOMAIN outputs : /\ outputs[i].secret \in S
                            /\ \A j \in 1 .. i - 1 :
                                 outputs[j].secret # outputs[i].secret}

Marked(outputs, S) ==
    [i \in DOMAIN outputs |->
        IF i \in FirstOf(outputs, S) THEN [outputs[i] EXCEPT !.spent = TRUE]
        ELSE outputs[i]]

\* Mutant: the depths are those proposed, whatever they have become.
DepthReset(depth, after) ==
    [c \in Chain |-> IF after[c] > 0 THEN after[c] ELSE 0]

DepthNow(depth, after) ==
    [c \in Chain |-> IF after[c] > 0 THEN after[c] ELSE depth[c]]

\* Mutant: the inputs keep their entries live.
InputsKept(S) == state.outputs

InputsMarked(S) == Marked(state.outputs, S)

\* Mutant: the change is recorded as all that was spent.
PendingTotal(e) == {Entry(s, Total(e.ins)) : s \in e.keep}

Pending(e) == {Entry(s, e.new[s]) : s \in e.keep}

ApplyReplace(f) ==
    LET e == flow[f] IN
    /\ e.pc = "replaced"
    /\ \E kept \in SetToSeqs(Pending(e)) :
         state' = [outputs |-> InputsMarked(e.mark) \o kept,
                   hashes  |-> state.hashes \cup e.mark,
                   depth   |-> DepthNow(state.depth, e.after)]
    /\ paid' = paid \cup (Listed(e.new) \ e.keep)
    /\ flow' = [flow EXCEPT ![f] = Idle]
    /\ UNCHANGED <<srv, worth, late, lost>>

StoreMined(f) ==
    LET e == flow[f] IN
    /\ e.pc = "mined"
    /\ \E s \in e.keep :
         state' = [outputs |-> Append(state.outputs, Entry(s, e.new[s])),
                   hashes  |-> state.hashes,
                   depth   |-> [state.depth EXCEPT !["MINING"] = @ + 1]]
    /\ flow' = [flow EXCEPT ![f] = Idle]
    /\ UNCHANGED <<srv, worth, late, paid, lost>>

\* Mutant: outputs that are already there are added again.
AllFound(e) == Listed(e.new)

NotStored(e) == Listed(e.new) \ Secrets(DOMAIN state.outputs)

\* What is live and has no entry is added, in any order; no depth is.
ApplyRecover(f) ==
    LET e == flow[f] IN
    /\ e.pc = "checked"
    /\ \E found \in SetToSeqs({Entry(s, e.new[s]) : s \in NotStored(e)}) :
         state' = [state EXCEPT !.outputs = @ \o found]
    /\ flow' = [flow EXCEPT ![f] = Idle]
    /\ UNCHANGED <<srv, worth, late, paid, lost>>

\* The entries I in the order they are kept.
InOrder(I) ==
    {p \in SetToSeqs(I) : \A k, l \in DOMAIN p : k < l => p[k] < p[l]}

\* export_snapshot, then import_snapshot of it: spent entries are gone.
Reimport ==
    /\ "reimport" \in Operations
    /\ AllIdle
    /\ \E p \in InOrder(Live) :
         state' = [state EXCEPT !.outputs = [k \in DOMAIN p |-> @[p[k]]]]
    /\ UNCHANGED <<srv, worth, flow, late, paid, lost>>

----------------------------------------------------------------------------
(* Lost answers, a closed page, and other people's wallets *)

\* The effect is gone; its request may still be on its way.  A page that is
\* closed loses all its effects, one such step each.
EffectLost(f) ==
    /\ Faults
    /\ flow[f].pc # "idle"
    /\ Listed(flow[f].new) # {} => Cardinality(late \cup lost) < MaxLost
    /\ flow' = [flow EXCEPT ![f] = Idle]
    /\ late' \in {late} \cup (IF flow[f].pc \in {"replace", "report"}
                            THEN {late \cup {RequestOf(f)}} ELSE {})
    /\ lost' = lost \cup (IF flow[f].pc \in {"replaced", "mined"}
                         THEN Changed(flow[f]) ELSE {})
    /\ UNCHANGED <<srv, worth, state, paid>>

LateRequest(req) ==
    /\ req \in late
    /\ late' = late \ {req}
    /\ IF Accepted(req)
       THEN Create(req) /\ lost' = lost \cup Changed(req)
       ELSE UNCHANGED <<srv, worth, lost>>
    /\ UNCHANGED <<state, flow, paid>>

OthersSpend(s) ==
    /\ s \in Foreign \cup paid
    /\ SpentElsewhere(s)
    /\ UNCHANGED <<state, flow, late, paid, lost>>

----------------------------------------------------------------------------
Prepare(f) ==
    \/ \E s \in Foreign \cup paid : PrepareInsert(f, s)
    \/ \E a \in Amount \ {0} : PreparePay(f, a)
    \/ PrepareMerge(f)
    \/ \E reward \in Reward : PrepareMine(f, reward)
    \/ \E c \in Chain : PrepareRecover(f, c)

Continue(f) ==
    \/ ServerAccepts(f) \/ ServerRefuses(f) \/ ServerChecks(f)
    \/ ApplyReplace(f) \/ StoreMined(f) \/ ApplyRecover(f)
    \/ EffectLost(f)

BrowserNext ==
    \/ \E f \in Flow : Prepare(f) \/ Continue(f)
    \/ Reimport
    \/ \E req \in late : LateRequest(req)
    \/ \E s \in Foreign \cup paid : OthersSpend(s)

BrowserSpec == BrowserInit /\ [][BrowserNext]_browserVars

----------------------------------------------------------------------------
(* Properties *)

\* Every variable has its type.
BrowserTypeOK ==
    /\ srv \in [Secret -> Status]
    /\ worth \in [Secret -> Amount]
    /\ state \in WalletState
    /\ flow \in [Flow -> Effect]
    /\ paid \cup lost \subseteq Secret

\* No secret has two entries, so nothing is counted twice: an apply never
\* pushes what a recover, or another apply, has pushed before.
OneEntryEach ==
    \A i, j \in DOMAIN state.outputs :
        state.outputs[i].secret = state.outputs[j].secret => i = j

\* The state never invents money nor throws live money away, whatever order the
\* applies come in: an entry is of a secret the server knows, with the amount
\* the server recorded, and what is marked spent is spent.
EntriesBacked ==
    /\ \A i \in DOMAIN state.outputs :
         LET o == state.outputs[i] IN
         /\ Known(o.secret) /\ o.amount = worth[o.secret]
         /\ o.spent => o.secret \in state.hashes
    /\ \A s \in state.hashes : srv[s] = "spent"

Working(s) == \E f \in Flow : /\ flow[f].pc \in {"replaced", "mined"}
                              /\ s \in Changed(flow[f])

\* The depths never run ahead of what the server knows, and fall behind only
\* while an apply is due or after an answer was lost.
DepthsFollow ==
    \A c \in Chain, d \in Depth :
        /\ d < state.depth[c] => Known(<<c, d>>)
        /\ Known(<<c, d>>) /\ d >= state.depth[c] =>
             \/ <<c, d>> \in lost
             \/ \E f \in Flow : /\ flow[f].pc \in {"replaced", "mined"}
                                /\ <<c, d>> \in Listed(flow[f].new)

\* Money the server knows is not zero, and what others hold is known to it.
KnownWorth ==
    /\ \A s \in Secret : Known(s) => worth[s] > 0
    /\ \A s \in Foreign \cup paid : Known(s)
    /\ \A s \in paid : s \in Derived /\ s[1] = "PAY"

\* What an effect proposes: outputs of the next depths, of which it keeps all
\* but a payment, for inputs that are marked unless they come from elsewhere.
Proposed(e) ==
    /\ e.keep \subseteq Listed(e.new)
    /\ \A s \in Listed(e.new) : /\ s \in Derived /\ s[2] <= state.depth[s[1]]
                                /\ s \in e.keep <=> s[1] # "PAY"
    /\ e.mark \subseteq Listed(e.ins)
    /\ Listed(e.ins) \subseteq e.mark \cup Foreign \cup paid
    /\ e.pc \in {"replace", "replaced"} =>
         /\ \A s \in Listed(e.new) : e.after[s[1]] = s[2] + 1
         /\ \A c \in Chain : e.after[c] > 0 => <<c, e.after[c] - 1>> \in Listed(e.new)
    /\ e.pc \in {"report", "mined"} =>
         \E d \in Depth : Listed(e.new) = {<<"MINING", d>>}

\* What the server has done of it: its outputs are at the recorded depths and
\* worth what was asked, those it keeps are live and have no entry yet, and its
\* inputs are spent.
Taken(e) ==
    /\ \A s \in Listed(e.new) : /\ Known(s) /\ e.new[s] = worth[s]
                                /\ state.depth[s[1]] <= s[2]
    /\ \A s \in e.keep : /\ srv[s] = "unspent"
                         /\ s \notin Secrets(DOMAIN state.outputs)
    /\ \A s \in Listed(e.ins) : srv[s] = "spent"

\* A batch that has been checked lists live money of the wallet, unless a late
\* request or a payee has spent it since.
Found(e) ==
    \A s \in Listed(e.new) : /\ s \in e.keep /\ Known(s) /\ e.new[s] = worth[s]
                             /\ srv[s] = "unspent" \/ s \in lost \cup paid

EffectInv(e) ==
    /\ e.keep \subseteq Derived
    /\ e.pc \in {"replace", "replaced", "report", "mined"} => Proposed(e)
    /\ e.pc \in {"replaced", "mined"} => Taken(e)
    /\ e.pc \notin {"replace", "replaced"} => e.ins = NoCoins
    /\ e.pc = "checked" => Found(e)
    /\ \A s \in Listed(e.ins) : Known(s)

\* No two flows have made the same output, none spends what another is to keep,
\* and none goes on while a batch is checked.
FlowsApart ==
    \A f, g \in Flow :
        /\ flow[f].pc \in {"replaced", "mined"} =>
             /\ flow[f].keep \cap Listed(flow[g].ins) = {}
             /\ f # g /\ flow[g].pc \in {"replaced", "mined"} =>
                  Listed(flow[f].new) \cap Listed(flow[g].new) = {}
        /\ flow[f].pc \in {"check", "checked"} /\ f # g => flow[g].pc = "idle"

\* Requests that outlive their flow spend known money, none that a flow is to keep.
LateApart ==
    /\ late \subseteq [ins : Coins, new : Coins, mint : BOOLEAN]
    /\ \A req \in late : \A s \in Listed(req.ins) :
         /\ Known(s)
         /\ \A f \in Flow : flow[f].pc \in {"replaced", "mined"} => s \notin flow[f].keep

\* The state and the server disagree about money of the wallet only while an
\* apply is due or after an answer was lost, and only payments leave it.
BooksAgree ==
    \A s \in Derived \ (lost \cup paid) :
        ~Working(s) => (srv[s] = "unspent" <=> s \in Secrets(Live))

\* The inductive invariant behind these, of a page that recovers only while no
\* flow is in progress.
BrowserInv ==
    /\ BrowserTypeOK
    /\ KnownWorth
    /\ EntriesBacked /\ OneEntryEach
    /\ DepthsFollow
    /\ \A f \in Flow : EffectInv(flow[f])
    /\ FlowsApart
    /\ LateApart
    /\ BooksAgree
============================================================================
