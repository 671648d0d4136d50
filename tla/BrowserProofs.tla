---------------------------- MODULE BrowserProofs ----------------------------
(***************************************************************************)
(* Proofs that the browser wallet's state stays true to the server in a    *)
(* page that recovers only while no other flow is in progress, whatever    *)
(* the number of flows, secrets and depths, and however effects are lost   *)
(* and applies ordered.                                                    *)
(***************************************************************************)
EXTENDS BrowserWallet, FiniteSetTheorems, TLAPS

----------------------------------------------------------------------------
(* Coins and sequences *)

LEMMA CoinFacts ==
  ASSUME NEW s \in Secret, NEW a \in Amount \ {0}
  PROVE  Coin(s, a) \in Coins /\ Listed(Coin(s, a)) = {s}
  BY MaxAmountAssumption DEF Coin, Coins, Listed, NoCoins, Amount

LEMMA NoCoinsFacts == NoCoins \in Coins /\ Listed(NoCoins) = {}
  BY MaxAmountAssumption DEF Coins, Listed, NoCoins, Amount

LEMMA UpdatedFacts ==
  ASSUME NEW x \in Coins, NEW y \in Coins
  PROVE  Updated(x, y) \in Coins /\ Listed(Updated(x, y)) = Listed(x) \cup Listed(y)
  BY MaxAmountAssumption DEF Updated, Coins, Listed, Amount

LEMMA DerivedSecret ==
  ASSUME NEW c \in Chain, NEW d \in Depth
  PROVE  <<c, d>> \in Derived /\ <<c, d>> \in Secret /\ <<c, d>> \notin Foreign
  BY ForeignAssumption DEF Derived, Secret

LEMMA DerivedFinite == IsFiniteSet(Derived)
  <1>1. IsFiniteSet(Chain)
    <2>1. /\ IsFiniteSet({}) /\ IsFiniteSet({} \cup {"RECEIVE"})
          /\ IsFiniteSet(({} \cup {"RECEIVE"}) \cup {"PAY"})
          /\ IsFiniteSet((({} \cup {"RECEIVE"}) \cup {"PAY"}) \cup {"CHANGE"})
          /\ IsFiniteSet(((({} \cup {"RECEIVE"}) \cup {"PAY"}) \cup {"CHANGE"})
                           \cup {"MINING"})
      BY FS_EmptySet, FS_AddElement
    <2>2. Chain = ((({} \cup {"RECEIVE"}) \cup {"PAY"}) \cup {"CHANGE"}) \cup {"MINING"}
      BY DEF Chain
    <2> QED BY <2>1, <2>2
  <1>2. IsFiniteSet(Depth)
    BY MaxDepthAssumption, FS_Interval DEF Depth
  <1> QED BY <1>1, <1>2, FS_Product DEF Derived

\* A sequence of the elements of a finite set has each of them, once.
LEMMA SetToSeqsFacts ==
  ASSUME NEW S, IsFiniteSet(S), NEW p \in SetToSeqs(S)
  PROVE  /\ p \in Seq(S)
         /\ \A k, l \in DOMAIN p : p[k] = p[l] => k = l
         /\ \A x \in S : \E k \in DOMAIN p : p[k] = x
  <1> DEFINE n == Cardinality(S)
  <1>1. n \in Nat
    BY FS_CardinalityType
  <1>2. p \in [1 .. n -> S] /\ \A i, j \in 1 .. n : i # j => p[i] # p[j]
    BY DEF SetToSeqs
  <1>3. p \in Seq(S) /\ DOMAIN p = 1 .. n
    BY <1>1, <1>2
  <1>4. p \in Injection(1 .. n, S)
    BY <1>2 DEF Injection, IsInjective
  <1>5. Cardinality(1 .. n) = n
    BY <1>1, FS_Interval
  <1>6. p \in Surjection(1 .. n, S)
    BY <1>4, <1>5, FS_Injection
  <1> QED BY <1>2, <1>3, <1>6 DEF Surjection

----------------------------------------------------------------------------
(* Lists of entries *)

Once(outputs) ==
    \A i, j \in DOMAIN outputs : outputs[i].secret = outputs[j].secret => i = j

\* Entries of new secrets, each once, leave the list with one of each.
LEMMA Extended ==
  ASSUME NEW old \in Seq(Output), Once(old), NEW S, S \subseteq Output, IsFiniteSet(S),
         NEW more \in SetToSeqs(S),
         \A x, y \in S : x.secret = y.secret => x = y,
         \A x \in S : \A i \in DOMAIN old : old[i].secret # x.secret
  PROVE  /\ old \o more \in Seq(Output) /\ Once(old \o more)
         /\ \A i \in DOMAIN old : i \in DOMAIN (old \o more) /\ (old \o more)[i] = old[i]
         /\ \A i \in DOMAIN (old \o more) : i \in DOMAIN old \/ (old \o more)[i] \in S
         /\ \A x \in S : \E i \in DOMAIN (old \o more) : (old \o more)[i] = x
  <1>1. /\ more \in Seq(S)
        /\ \A k, l \in DOMAIN more : more[k] = more[l] => k = l
        /\ \A x \in S : \E k \in DOMAIN more : more[k] = x
    BY SetToSeqsFacts
  <1> DEFINE m == Len(old)
             n == Len(more)
             all == old \o more
  <1>2. /\ m \in Nat /\ n \in Nat /\ more \in Seq(Output)
        /\ DOMAIN old = 1 .. m /\ DOMAIN more = 1 .. n
    BY <1>1
  <1>3. /\ all \in Seq(Output) /\ DOMAIN all = 1 .. m + n
        /\ \A i \in 1 .. m : all[i] = old[i]
        /\ \A i \in m + 1 .. m + n : i - m \in 1 .. n /\ all[i] = more[i - m]
    BY <1>2
  <1> HIDE DEF m, n, all
  <1>4. \A i \in m + 1 .. m + n : all[i] \in S
    BY <1>1, <1>2, <1>3
  <1>5. Once(all)
    <2> SUFFICES ASSUME NEW i \in 1 .. m + n, NEW j \in 1 .. m + n,
                        all[i].secret = all[j].secret
                 PROVE  i = j
      BY <1>3 DEF Once
    <2>1. CASE i \in 1 .. m /\ j \in 1 .. m
      BY <2>1, <1>2, <1>3 DEF Once
    <2>2. CASE i \in m + 1 .. m + n /\ j \in m + 1 .. m + n
      <3>1. all[i] = all[j]
        BY <2>2, <1>4
      <3>2. /\ i - m \in 1 .. n /\ j - m \in 1 .. n
            /\ all[i] = more[i - m] /\ all[j] = more[j - m]
        BY <1>3, <2>2
      <3>3. i - m = j - m
        BY <1>1, <1>2, <3>1, <3>2
      <3> QED BY <2>2, <3>3, <1>2
    <2>3. CASE i \in 1 .. m /\ j \in m + 1 .. m + n
      <3>1. all[j] \in S /\ all[i] = old[i] /\ i \in DOMAIN old
        BY <2>3, <1>2, <1>3, <1>4
      <3> QED BY <3>1
    <2>4. CASE i \in m + 1 .. m + n /\ j \in 1 .. m
      <3>1. all[i] \in S /\ all[j] = old[j] /\ j \in DOMAIN old
        BY <2>4, <1>2, <1>3, <1>4
      <3> QED BY <3>1
    <2> QED BY <2>1, <2>2, <2>3, <2>4, <1>2
  <1>6. \A x \in S : \E i \in DOMAIN all : all[i] = x
    <2> SUFFICES ASSUME NEW x \in S PROVE \E i \in DOMAIN all : all[i] = x
      OBVIOUS
    <2>1. PICK k \in 1 .. n : more[k] = x
      BY <1>1, <1>2
    <2>2. m + k \in m + 1 .. m + n /\ (m + k) - m = k
      BY <1>2
    <2>3. m + k \in DOMAIN all /\ all[m + k] = x
      BY <1>2, <1>3, <2>1, <2>2
    <2> QED BY <2>3
  <1>7. \A i \in DOMAIN old : i \in DOMAIN all /\ all[i] = old[i]
    BY <1>2, <1>3
  <1>8. \A i \in DOMAIN all : i \in DOMAIN old \/ all[i] \in S
    BY <1>2, <1>3, <1>4
  <1> QED BY <1>3, <1>5, <1>6, <1>7, <1>8 DEF all

\* Marking touches nothing but the marks.
LEMMA MarkedFacts ==
  ASSUME NEW old \in Seq(Output), Once(old), NEW S
  PROVE  /\ Marked(old, S) \in Seq(Output) /\ Once(Marked(old, S))
         /\ DOMAIN Marked(old, S) = DOMAIN old
         /\ \A i \in DOMAIN old :
              /\ Marked(old, S)[i].secret = old[i].secret
              /\ Marked(old, S)[i].amount = old[i].amount
              /\ Marked(old, S)[i].spent <=> old[i].spent \/ old[i].secret \in S
  <1>1. DOMAIN old = 1 .. Len(old) /\ Len(old) \in Nat /\ \A i \in DOMAIN old : old[i] \in Output
    OBVIOUS
  <1>2. FirstOf(old, S) = {i \in DOMAIN old : old[i].secret \in S}
    BY <1>1 DEF FirstOf, Once
  <1>3. DOMAIN Marked(old, S) = DOMAIN old
    BY DEF Marked
  <1>4. \A i \in DOMAIN old :
          /\ Marked(old, S)[i] \in Output
          /\ Marked(old, S)[i].secret = old[i].secret
          /\ Marked(old, S)[i].amount = old[i].amount
          /\ Marked(old, S)[i].spent <=> old[i].spent \/ old[i].secret \in S
    BY <1>1, <1>2 DEF Marked, Output
  <1>5. Marked(old, S) \in [1 .. Len(old) -> Output]
    BY <1>1, <1>3, <1>4 DEF Marked
  <1>6. Marked(old, S) \in Seq(Output)
    BY <1>1, <1>5
  <1> QED BY <1>3, <1>4, <1>6 DEF Once

----------------------------------------------------------------------------
(* The invariant *)

TakenPC == {"replaced", "mined"}

LEMMA InvFacts ==
  ASSUME BrowserInv
  PROVE  /\ srv \in [Secret -> Status] /\ worth \in [Secret -> Amount]
         /\ flow \in [Flow -> Effect]
         /\ state.outputs \in Seq(Output) /\ Once(state.outputs)
         /\ state.hashes \subseteq Secret /\ state.depth \in [Chain -> Nat]
         /\ state = [outputs |-> state.outputs, hashes |-> state.hashes,
                     depth |-> state.depth]
         /\ \A i \in DOMAIN state.outputs :
              /\ state.outputs[i] \in Output /\ Known(state.outputs[i].secret)
              /\ state.outputs[i].amount = worth[state.outputs[i].secret]
         /\ paid \subseteq Derived /\ paid \subseteq Secret /\ lost \subseteq Secret
         /\ \A f \in Flow : flow[f] \in Effect /\ EffectInv(flow[f])
  <1>1. BrowserTypeOK /\ KnownWorth /\ EntriesBacked /\ OneEntryEach
    BY DEF BrowserInv
  <1>2. state \in WalletState
    BY <1>1 DEF BrowserTypeOK
  <1>3. /\ state.outputs \in Seq(Output) /\ state.hashes \subseteq Secret
        /\ state.depth \in [Chain -> Nat]
        /\ state = [outputs |-> state.outputs, hashes |-> state.hashes,
                    depth |-> state.depth]
    BY <1>2 DEF WalletState
  <1>4. \A i \in DOMAIN state.outputs : state.outputs[i] \in Output
    BY <1>3
  <1>5. Once(state.outputs)
    BY <1>1 DEF OneEntryEach, Once
  <1>6. paid \subseteq Derived /\ paid \subseteq Secret /\ lost \subseteq Secret
    BY <1>1 DEF BrowserTypeOK, KnownWorth
  <1>7. \A f \in Flow : flow[f] \in Effect /\ EffectInv(flow[f])
    BY <1>1 DEF BrowserInv, BrowserTypeOK
  <1> QED BY <1>1, <1>3, <1>4, <1>5, <1>6, <1>7 DEF BrowserTypeOK, EntriesBacked

\* What is known is worth something; what is not is nowhere.
LEMMA KnownFacts ==
  ASSUME BrowserInv
  PROVE  /\ \A s \in Secret : Known(s) => worth[s] \in Amount \ {0}
         /\ \A s \in Secret : srv[s] \in {"unspent", "spent"} => Known(s)
         /\ \A s \in Secret : Known(s) => srv[s] \in {"unspent", "spent"}
         /\ \A i \in DOMAIN state.outputs : Known(state.outputs[i].secret)
         /\ \A s \in Foreign \cup paid : s \in Secret /\ Known(s)
         /\ \A s \in state.hashes : srv[s] = "spent"
  <1>1. \A s \in Foreign \cup paid : s \in Secret /\ Known(s)
    BY InvFacts DEF BrowserInv, KnownWorth, Secret
  <1> QED BY <1>1, InvFacts, MaxAmountAssumption
      DEF BrowserInv, KnownWorth, EntriesBacked, Known, Status, Amount

LEMMA IdleFacts == Idle \in Effect /\ EffectInv(Idle) /\ Idle.pc = "idle"
                   /\ Listed(Idle.ins) = {} /\ Listed(Idle.new) = {}
  <1>1. Idle \in Effect /\ Listed(Idle.ins) = {} /\ Listed(Idle.new) = {}
    BY NoCoinsFacts DEF Idle, Effect, PC
  <1>2. EffectInv(Idle)
    BY <1>1 DEF Idle, EffectInv
  <1> QED BY <1>1, <1>2 DEF Idle

LEMMA BrowserInitInv == BrowserInit => BrowserInv
  <1> SUFFICES ASSUME BrowserInit PROVE BrowserInv
    OBVIOUS
  <1>1. BrowserTypeOK
    BY IdleFacts, BrowserAssumption, MaxAmountAssumption
    DEF BrowserInit, BrowserTypeOK, Status, WalletState, Amount
  <1>2. \A s \in Secret : Known(s) <=> s \in Foreign
    BY DEF BrowserInit, Known
  <1>3. KnownWorth
    BY <1>2, BrowserAssumption, MaxAmountAssumption
    DEF BrowserInit, KnownWorth, Amount, Secret
  <1>4. DOMAIN state.outputs = {} /\ state.hashes = {} /\ \A c \in Chain : state.depth[c] = 0
    BY DEF BrowserInit
  <1>5. EntriesBacked /\ OneEntryEach
    BY <1>4 DEF EntriesBacked, OneEntryEach
  <1>6. DepthsFollow
    <2>1. \A c \in Chain, d \in Depth : ~Known(<<c, d>>)
      BY <1>2, DerivedSecret
    <2>2. \A c \in Chain, d \in Depth : ~(d < state.depth[c])
      BY <1>4, MaxDepthAssumption DEF Depth
    <2> QED BY <2>1, <2>2 DEF DepthsFollow
  <1>7. \A f \in Flow : flow[f] = Idle
    BY DEF BrowserInit
  <1>8. \A f \in Flow : EffectInv(flow[f])
    BY <1>7, IdleFacts
  <1>9. FlowsApart
    BY <1>7, IdleFacts DEF FlowsApart
  <1>10. LateApart
    BY DEF LateApart, BrowserInit
  <1>11. BooksAgree
    <2>1. \A s \in Derived : s \in Secret /\ srv[s] = "unknown"
      BY ForeignAssumption DEF BrowserInit, Secret
    <2>2. Secrets(Live) = {}
      BY <1>4 DEF Secrets, Live
    <2> QED BY <2>1, <2>2 DEF BooksAgree
  <1> QED BY <1>1, <1>3, <1>5, <1>6, <1>8, <1>9, <1>10, <1>11 DEF BrowserInv

\* A flow changes hands while everything else stays, and nothing the server has
\* done for it is forgotten.
LEMMA FlowChange ==
  ASSUME BrowserInv, NEW f \in Flow, NEW e \in Effect,
         flow' = [flow EXCEPT ![f] = e],
         UNCHANGED <<srv, worth, state, late, paid, lost>>,
         EffectInv(e), e.pc \notin TakenPC, flow[f].pc \notin TakenPC,
         \A s \in Listed(e.ins) : \A g \in Flow :
             flow[g].pc \in TakenPC => s \notin flow[g].keep,
         e.pc \in {"check", "checked"} => \A g \in Flow \ {f} : flow[g].pc = "idle",
         e.pc # "idle" => \A g \in Flow \ {f} : flow[g].pc \notin {"check", "checked"}
  PROVE  BrowserInv'
  <1>1. /\ flow' \in [Flow -> Effect] /\ flow'[f] = e
        /\ \A g \in Flow \ {f} : flow'[g] = flow[g]
    BY InvFacts
  <1>2. BrowserTypeOK'
    BY <1>1 DEF BrowserInv, BrowserTypeOK
  <1>3. KnownWorth' /\ EntriesBacked' /\ OneEntryEach'
    BY DEF BrowserInv, KnownWorth, EntriesBacked, OneEntryEach, Known
  <1>4. \A g \in Flow : flow'[g].pc \in TakenPC =>
                          g # f /\ flow[g].pc \in TakenPC /\ flow'[g] = flow[g]
    BY <1>1
  <1>5. \A g \in Flow : flow[g].pc \in TakenPC =>
                          flow'[g].pc \in TakenPC /\ flow'[g] = flow[g]
    BY <1>1
  <1>6. DepthsFollow'
    BY <1>5 DEF BrowserInv, DepthsFollow, Known, TakenPC
  <1>7. (\A g \in Flow : EffectInv(flow[g]))'
    <2>1. \A x \in Effect : EffectInv(x) => EffectInv(x)'
      BY DEF EffectInv, Proposed, Taken, Found, Known, Secrets
    <2> QED BY <1>1, <2>1, InvFacts
  <1>8. FlowsApart'
    BY <1>1, <1>4 DEF BrowserInv, FlowsApart, TakenPC
  <1>9. LateApart'
    BY <1>4 DEF BrowserInv, LateApart, Known, TakenPC
  <1>10. \A s : Working(s) => Working(s)'
    BY <1>5 DEF Working, TakenPC, Changed
  <1>11. BooksAgree'
    BY <1>10 DEF BrowserInv, BooksAgree, Secrets, Live
  <1> QED BY <1>2, <1>3, <1>6, <1>7, <1>8, <1>9, <1>11 DEF BrowserInv

----------------------------------------------------------------------------
(* Prepare *)

\* An effect that is only proposed spends what has an entry or comes from
\* elsewhere: never what another flow is about to keep.
LEMMA Prepared ==
  ASSUME RecoverApart, BrowserInv, NEW f \in Flow, NEW op, Begin(f, op),
         NEW e \in Effect, flow' = [flow EXCEPT ![f] = e],
         e.pc \in {"replace", "report"}, Proposed(e),
         e.pc = "report" => e.ins = NoCoins,
         e.mark \subseteq Secrets(DOMAIN state.outputs)
  PROVE  BrowserInv'
  <1>1. /\ flow[f].pc = "idle" /\ UNCHANGED <<srv, worth, state, late, paid, lost>>
        /\ \A g \in Flow : flow[g].pc \notin {"check", "checked"}
    BY DEF Begin, Recovering
  <1>2. \A s \in Secrets(DOMAIN state.outputs) : Known(s)
    BY KnownFacts DEF Secrets
  <1>3. \A s \in Listed(e.ins) : s \in e.mark \cup Foreign \cup paid
    BY DEF Proposed
  <1>4. \A s \in Listed(e.ins) : Known(s)
    BY <1>2, <1>3, KnownFacts
  <1>5. e.keep \subseteq Derived
    BY DEF Proposed
  <1>6. EffectInv(e)
    BY <1>4, <1>5 DEF EffectInv
  <1>7. ASSUME NEW g \in Flow, flow[g].pc \in TakenPC, NEW s \in flow[g].keep
        PROVE  s \notin Listed(e.ins)
    <2>1. Proposed(flow[g]) /\ Taken(flow[g])
      BY <1>7, InvFacts DEF EffectInv, TakenPC
    <2>2. s \in Derived /\ s[1] # "PAY" /\ s \notin Secrets(DOMAIN state.outputs)
      BY <2>1 DEF Proposed, Taken
    <2>3. s \notin Foreign /\ s \notin paid
      BY <2>2, ForeignAssumption DEF BrowserInv, KnownWorth
    <2> QED BY <1>3, <2>2, <2>3
  <1> QED BY <1>1, <1>6, <1>7, FlowChange DEF TakenPC

LEMMA NextOfFacts ==
  ASSUME BrowserInv, NEW c \in Chain, NextOf(c) \in Derived
  PROVE  /\ NextOf(c) \in Secret /\ NextOf(c)[1] = c
         /\ NextOf(c)[2] = state.depth[c] /\ state.depth[c] \in Depth
         /\ state.depth[c] \in Nat /\ NextOf(c) = <<c, state.depth[c]>>
  BY InvFacts DEF NextOf, Derived, Secret

LEMMA AfterFacts ==
  ASSUME BrowserInv, NEW chains
  PROVE  /\ After(chains) \in [Chain -> Nat]
         /\ \A c \in Chain : /\ c \in chains => After(chains)[c] = state.depth[c] + 1
                             /\ After(chains)[c] > 0 =>
                                  c \in chains /\ After(chains)[c] - 1 = state.depth[c]
  BY InvFacts DEF After

LEMMA PrepareInsertStep ==
  ASSUME RecoverApart, BrowserInv, NEW f \in Flow, NEW s \in Foreign \cup paid,
         PrepareInsert(f, s)
  PROVE  BrowserInv'
  <1> DEFINE a == IF s \in Foreign THEN FaceValue[s] ELSE worth[s]
             p == NextOf("RECEIVE")
             e == [pc |-> "replace", ins |-> Coin(s, a), new |-> Coin(p, a),
                   keep |-> {p}, mark |-> {}, after |-> After({"RECEIVE"})]
  <1>1. Begin(f, "insert") /\ p \in Derived /\ flow' = [flow EXCEPT ![f] = e]
    BY DEF PrepareInsert
  <1>2. a \in Amount \ {0} /\ s \in Secret
    BY KnownFacts, BrowserAssumption
  <1>3. /\ p \in Secret /\ p[1] = "RECEIVE" /\ p[2] = state.depth["RECEIVE"]
        /\ p[2] \in Nat /\ p = <<"RECEIVE", p[2]>>
    BY <1>1, NextOfFacts DEF Chain
  <1> HIDE DEF a, p
  <1>4. /\ Coin(s, a) \in Coins /\ Listed(Coin(s, a)) = {s}
        /\ Coin(p, a) \in Coins /\ Listed(Coin(p, a)) = {p}
    BY <1>2, <1>3, CoinFacts
  <1>5. /\ After({"RECEIVE"}) \in [Chain -> Nat]
        /\ After({"RECEIVE"})["RECEIVE"] = p[2] + 1
        /\ \A c \in Chain : After({"RECEIVE"})[c] > 0 =>
             c = "RECEIVE" /\ After({"RECEIVE"})[c] - 1 = p[2]
    BY <1>3, AfterFacts DEF Chain
  <1>6. e \in Effect
    BY <1>3, <1>4, <1>5 DEF Effect, PC
  <1>7. Proposed(e)
    BY <1>1, <1>3, <1>4, <1>5 DEF Proposed
  <1>8. e.pc = "replace" /\ e.mark = {}
    OBVIOUS
  <1> HIDE DEF e
  <1> QED BY <1>1, <1>6, <1>7, <1>8, Prepared

\* The inputs taken from entries are those entries' secrets.
LEMMA EntryCoinsFacts ==
  ASSUME BrowserInv, NEW I, I \subseteq DOMAIN state.outputs
  PROVE  /\ EntryCoins(I) \in Coins /\ Listed(EntryCoins(I)) = Secrets(I)
         /\ Secrets(I) \subseteq Secret
         /\ Secrets(I) \subseteq Secrets(DOMAIN state.outputs)
  <1>1. \A i \in I : /\ state.outputs[i].secret \in Secret
                     /\ state.outputs[i].amount \in Amount \ {0}
    BY InvFacts, KnownFacts DEF Output
  <1>2. ASSUME NEW s \in Secret
        PROVE  /\ EntryCoins(I)[s] \in Amount
               /\ EntryCoins(I)[s] > 0 <=> s \in Secrets(I)
    <2>1. CASE \E i \in I : state.outputs[i].secret = s
      <3> DEFINE i == CHOOSE i \in I : state.outputs[i].secret = s
      <3>1. i \in I /\ state.outputs[i].secret = s
        BY <2>1
      <3>2. EntryCoins(I)[s] = state.outputs[i].amount
        BY <2>1 DEF EntryCoins
      <3> HIDE DEF i
      <3> QED BY <1>1, <3>1, <3>2, MaxAmountAssumption DEF Amount, Secrets
    <2>2. CASE ~\E i \in I : state.outputs[i].secret = s
      BY <2>2, MaxAmountAssumption DEF EntryCoins, Amount, Secrets
    <2> QED BY <2>1, <2>2
  <1>3. EntryCoins(I) = [s \in Secret |-> EntryCoins(I)[s]]
    BY DEF EntryCoins
  <1>4. EntryCoins(I) \in Coins
    BY <1>2, <1>3 DEF Coins
  <1>5. Secrets(I) \subseteq Secret
    BY <1>1 DEF Secrets
  <1>6. Listed(EntryCoins(I)) = Secrets(I)
    BY <1>2, <1>5 DEF Listed
  <1> QED BY <1>4, <1>5, <1>6 DEF Secrets

LEMMA PreparePayStep ==
  ASSUME RecoverApart, BrowserInv, NEW f \in Flow, NEW amount \in Amount \ {0},
         PreparePay(f, amount)
  PROVE  BrowserInv'
  <1> DEFINE S == Selected(amount)
             p == NextOf("PAY")
             q == NextOf("CHANGE")
  <1>1. Begin(f, "pay") /\ p \in Derived
    BY DEF PreparePay
  <1>2. S \subseteq DOMAIN state.outputs
    BY DEF Selected, Live
  <1>3. /\ EntryCoins(S) \in Coins /\ Listed(EntryCoins(S)) = Secrets(S)
        /\ Secrets(S) \subseteq Secret
        /\ Secrets(S) \subseteq Secrets(DOMAIN state.outputs)
    BY <1>2, EntryCoinsFacts
  <1>4. /\ p \in Secret /\ p[1] = "PAY" /\ p[2] = state.depth["PAY"] /\ p[2] \in Nat
        /\ p = <<"PAY", p[2]>>
    BY <1>1, NextOfFacts DEF Chain
  <1>5. Coin(p, amount) \in Coins /\ Listed(Coin(p, amount)) = {p}
    BY <1>4, CoinFacts
  <1>6. PICK change \in Amount :
          /\ change > 0 => q \in Derived
          /\ flow' = [flow EXCEPT ![f] =
              [pc    |-> "replace",
               ins   |-> EntryCoins(S),
               new   |-> IF change > 0 THEN Updated(Coin(p, amount), Coin(q, change))
                         ELSE Coin(p, amount),
               keep  |-> IF change > 0 THEN {q} ELSE {},
               mark  |-> Secrets(S),
               after |-> After(IF change > 0 THEN {"PAY", "CHANGE"} ELSE {"PAY"})]]
    BY DEF PreparePay
  <1> HIDE DEF S, p
  <1>7. CASE change > 0
    <2> DEFINE new == Updated(Coin(p, amount), Coin(q, change))
               e == [pc |-> "replace", ins |-> EntryCoins(S), new |-> new,
                     keep |-> {q}, mark |-> Secrets(S),
                     after |-> After({"PAY", "CHANGE"})]
    <2>1. /\ q \in Secret /\ q[1] = "CHANGE" /\ q[2] = state.depth["CHANGE"]
          /\ q[2] \in Nat /\ q = <<"CHANGE", q[2]>> /\ q \in Derived
      BY <1>6, <1>7, NextOfFacts DEF Chain
    <2> HIDE DEF q
    <2>2. change \in Amount \ {0}
      BY <1>7, MaxAmountAssumption DEF Amount
    <2>3. new \in Coins /\ Listed(new) = {p, q}
      BY <1>4, <1>5, <2>1, <2>2, CoinFacts, UpdatedFacts
    <2>4. /\ After({"PAY", "CHANGE"}) \in [Chain -> Nat]
          /\ After({"PAY", "CHANGE"})["PAY"] = p[2] + 1
          /\ After({"PAY", "CHANGE"})["CHANGE"] = q[2] + 1
          /\ \A c \in Chain : After({"PAY", "CHANGE"})[c] > 0 =>
               \/ c = "PAY" /\ After({"PAY", "CHANGE"})[c] - 1 = p[2]
               \/ c = "CHANGE" /\ After({"PAY", "CHANGE"})[c] - 1 = q[2]
      BY <1>4, <2>1, AfterFacts DEF Chain
    <2>5. flow' = [flow EXCEPT ![f] = e]
      BY <1>6, <1>7 DEF q
    <2> HIDE DEF new
    <2>6. e \in Effect
      BY <1>3, <2>1, <2>3, <2>4 DEF Effect, PC
    <2>7. Proposed(e)
      BY <1>1, <1>3, <1>4, <2>1, <2>3, <2>4 DEF Proposed
    <2>8. e.pc = "replace" /\ e.mark = Secrets(S)
      OBVIOUS
    <2> HIDE DEF e
    <2> QED BY <1>1, <1>3, <2>5, <2>6, <2>7, <2>8, Prepared
  <1>8. CASE ~(change > 0)
    <2> DEFINE e == [pc |-> "replace", ins |-> EntryCoins(S), new |-> Coin(p, amount),
                     keep |-> {}, mark |-> Secrets(S), after |-> After({"PAY"})]
    <2>1. /\ After({"PAY"}) \in [Chain -> Nat]
          /\ After({"PAY"})["PAY"] = p[2] + 1
          /\ \A c \in Chain : After({"PAY"})[c] > 0 =>
               c = "PAY" /\ After({"PAY"})[c] - 1 = p[2]
      BY <1>4, AfterFacts DEF Chain
    <2>2. flow' = [flow EXCEPT ![f] = e]
      BY <1>6, <1>8
    <2>3. e \in Effect
      BY <1>3, <1>5, <2>1 DEF Effect, PC
    <2>4. Proposed(e)
      BY <1>1, <1>3, <1>4, <1>5, <2>1 DEF Proposed
    <2>5. e.pc = "replace" /\ e.mark = Secrets(S)
      OBVIOUS
    <2> HIDE DEF e
    <2> QED BY <1>1, <1>3, <2>2, <2>3, <2>4, <2>5, Prepared
  <1> QED BY <1>7, <1>8

LEMMA PrepareMergeStep ==
  ASSUME RecoverApart, BrowserInv, NEW f \in Flow, PrepareMerge(f)
  PROVE  BrowserInv'
  <1> DEFINE I == {j \in Live : Cardinality({i \in Live : i < j}) < MaxMerge}
             q == NextOf("CHANGE")
             e == [pc |-> "replace", ins |-> EntryCoins(I), new |-> Coin(q, SumOf(I)),
                   keep |-> {q}, mark |-> Secrets(I), after |-> After({"CHANGE"})]
  <1>1. /\ Begin(f, "merge") /\ q \in Derived /\ SumOf(I) \in Amount \ {0}
        /\ flow' = [flow EXCEPT ![f] = e]
    BY DEF PrepareMerge
  <1>2. I \subseteq DOMAIN state.outputs
    BY DEF Live
  <1>3. /\ EntryCoins(I) \in Coins /\ Listed(EntryCoins(I)) = Secrets(I)
        /\ Secrets(I) \subseteq Secret
        /\ Secrets(I) \subseteq Secrets(DOMAIN state.outputs)
    BY <1>2, EntryCoinsFacts
  <1>4. /\ q \in Secret /\ q[1] = "CHANGE" /\ q[2] = state.depth["CHANGE"]
        /\ q[2] \in Nat /\ q = <<"CHANGE", q[2]>>
    BY <1>1, NextOfFacts DEF Chain
  <1> HIDE DEF I, q
  <1>5. Coin(q, SumOf(I)) \in Coins /\ Listed(Coin(q, SumOf(I))) = {q}
    BY <1>1, <1>4, CoinFacts
  <1>6. /\ After({"CHANGE"}) \in [Chain -> Nat]
        /\ After({"CHANGE"})["CHANGE"] = q[2] + 1
        /\ \A c \in Chain : After({"CHANGE"})[c] > 0 =>
             c = "CHANGE" /\ After({"CHANGE"})[c] - 1 = q[2]
    BY <1>4, AfterFacts DEF Chain
  <1>7. e \in Effect
    BY <1>3, <1>4, <1>5, <1>6 DEF Effect, PC
  <1>8. Proposed(e)
    BY <1>1, <1>3, <1>4, <1>5, <1>6 DEF Proposed
  <1>9. e.pc = "replace" /\ e.mark = Secrets(I)
    OBVIOUS
  <1> HIDE DEF e
  <1> QED BY <1>1, <1>3, <1>7, <1>8, <1>9, Prepared

LEMMA PrepareMineStep ==
  ASSUME RecoverApart, BrowserInv, NEW f \in Flow, NEW reward \in Reward,
         PrepareMine(f, reward)
  PROVE  BrowserInv'
  <1> DEFINE m == NextOf("MINING")
             e == [Idle EXCEPT !.pc = "report", !.new = Coin(m, reward), !.keep = {m}]
  <1>1. Begin(f, "mine") /\ m \in Derived
    BY DEF PrepareMine
  <1>2. flow' = [flow EXCEPT ![f] = e]
    BY DEF PrepareMine
  <1>3. /\ m \in Secret /\ m[1] = "MINING" /\ m[2] = state.depth["MINING"]
        /\ m[2] \in Nat /\ m[2] \in Depth /\ m = <<"MINING", m[2]>>
    BY <1>1, NextOfFacts DEF Chain
  <1> HIDE DEF m
  <1>4. Coin(m, reward) \in Coins /\ Listed(Coin(m, reward)) = {m}
    BY <1>3, BrowserAssumption, CoinFacts
  <1>5. /\ e \in Effect /\ e.pc = "report" /\ e.mark = {} /\ e.ins = NoCoins
        /\ e.new = Coin(m, reward) /\ e.keep = {m}
    BY <1>3, <1>4, NoCoinsFacts DEF Effect, PC, Idle
  <1> HIDE DEF e
  <1>6. Proposed(e)
    BY <1>1, <1>3, <1>4, <1>5, NoCoinsFacts DEF Proposed
  <1> QED BY <1>1, <1>2, <1>5, <1>6, Prepared

LEMMA PrepareRecoverStep ==
  ASSUME RecoverApart, BrowserInv, NEW f \in Flow, NEW c \in Chain,
         PrepareRecover(f, c)
  PROVE  BrowserInv'
  <1> DEFINE keep == {<<c, d>> : d \in Depth}
             e == [Idle EXCEPT !.pc = "check", !.keep = keep]
  <1>1. /\ UNCHANGED <<srv, worth, state, late, paid, lost>>
        /\ \A g \in Flow : flow[g].pc = "idle"
    BY DEF PrepareRecover, Begin, AllIdle
  <1>2. flow' = [flow EXCEPT ![f] = e]
    BY DEF PrepareRecover
  <1>3. keep \subseteq Derived /\ keep \subseteq Secret
    BY DerivedSecret
  <1> HIDE DEF keep
  <1>4. /\ e \in Effect /\ e.pc = "check" /\ e.ins = NoCoins /\ e.keep = keep
        /\ e.mark = {}
    BY <1>3, NoCoinsFacts DEF Effect, PC, Idle
  <1> HIDE DEF e
  <1>5. EffectInv(e)
    BY <1>3, <1>4, NoCoinsFacts DEF EffectInv
  <1> QED BY <1>1, <1>2, <1>4, <1>5, NoCoinsFacts, FlowChange DEF TakenPC

----------------------------------------------------------------------------
(* The server *)

LEMMA ServerRefusesStep ==
  ASSUME BrowserInv, NEW f \in Flow, ServerRefuses(f)
  PROVE  BrowserInv'
  <1>1. /\ UNCHANGED <<srv, worth, state, late, paid, lost>>
        /\ flow' = [flow EXCEPT ![f] = Idle] /\ flow[f].pc \notin TakenPC
    BY DEF ServerRefuses, TakenPC
  <1> QED BY <1>1, IdleFacts, FlowChange DEF TakenPC

LEMMA ServerChecksStep ==
  ASSUME BrowserInv, NEW f \in Flow, ServerChecks(f)
  PROVE  BrowserInv'
  <1> DEFINE live == {s \in flow[f].keep : srv[s] = "unspent"}
             new == CoinsOf(live, worth)
             e == [flow[f] EXCEPT !.pc = "checked", !.new = new]
  <1>1. /\ UNCHANGED <<srv, worth, state, late, paid, lost>>
        /\ flow' = [flow EXCEPT ![f] = e] /\ flow[f].pc = "check"
    BY DEF ServerChecks
  <1>2. flow[f] \in Effect /\ EffectInv(flow[f])
    BY InvFacts
  <1>3. new \in Coins /\ Listed(new) \subseteq live /\ \A s \in live : new[s] = worth[s]
    BY InvFacts, <1>2, MaxAmountAssumption
    DEF CoinsOf, Coins, Listed, Amount, Effect
  <1> HIDE DEF new
  <1>4. /\ e \in Effect /\ e.pc = "checked" /\ e.new = new /\ e.keep = flow[f].keep
        /\ e.ins = flow[f].ins
    BY <1>2, <1>3 DEF Effect, PC
  <1>5. e.ins = NoCoins /\ e.keep \subseteq Derived
    BY <1>1, <1>2, <1>4 DEF EffectInv
  <1> HIDE DEF e
  <1>6. Found(e)
    BY <1>3, <1>4 DEF Found, Known
  <1>7. EffectInv(e)
    BY <1>4, <1>5, <1>6, NoCoinsFacts DEF EffectInv
  <1>8. \A g \in Flow \ {f} : flow[g].pc = "idle"
    BY <1>1 DEF BrowserInv, FlowsApart
  <1> QED BY <1>1, <1>4, <1>5, <1>7, <1>8, NoCoinsFacts, FlowChange DEF TakenPC

\* What a request that is accepted does to the server.
Done(req) ==
    /\ \A s \in Listed(req.new) : /\ ~Known(s) /\ srv'[s] = "unspent"
                                  /\ worth'[s] = req.new[s]
    /\ \A s \in Listed(req.ins) : Known(s) /\ srv'[s] = "spent"
    /\ \A s \in Secret : s \notin Changed(req) => srv'[s] = srv[s]
    /\ \A s \in Secret : s \notin Listed(req.new) => worth'[s] = worth[s]
    /\ \A s \in Secret : Known(s)' <=> Known(s) \/ s \in Listed(req.new)
    /\ srv' \in [Secret -> Status] /\ worth' \in [Secret -> Amount]

LEMMA CreateDone ==
  ASSUME BrowserInv, NEW req, req.ins \in Coins, req.new \in Coins,
         \A s \in Listed(req.ins) : Known(s),
         Accepted(req), Create(req)
  PROVE  Done(req)
  <1>1. \A s \in Listed(req.new) : ~Known(s) /\ s \notin Listed(req.ins)
    BY DEF Accepted
  <1>2. /\ srv' = [s \in Secret |-> IF s \in Listed(req.ins) THEN "spent"
                                   ELSE IF s \in Listed(req.new) THEN "unspent"
                                   ELSE srv[s]]
        /\ worth' = [s \in Secret |-> IF s \in Listed(req.new) THEN req.new[s]
                                      ELSE worth[s]]
    BY DEF Create, Replace, Updated
  <1>3. Listed(req.new) \subseteq Secret /\ Listed(req.ins) \subseteq Secret
    BY DEF Listed
  <1>4. srv' \in [Secret -> Status] /\ worth' \in [Secret -> Amount]
    BY <1>2, InvFacts DEF Status, Coins
  <1>5. \A s \in Secret : Known(s)' <=> Known(s) \/ s \in Listed(req.new)
    BY <1>2 DEF Known
  <1> QED BY <1>1, <1>2, <1>3, <1>4, <1>5 DEF Done, Changed

LEMMA DoneState ==
  ASSUME BrowserInv, NEW req, req.new \in Coins, Done(req), UNCHANGED <<state, paid>>
  PROVE  KnownWorth' /\ EntriesBacked' /\ OneEntryEach'
  <1>1. \A s \in Secret : Known(s) => Known(s)' /\ worth'[s] = worth[s]
    BY DEF Done
  <1>2. \A s \in Listed(req.new) : req.new[s] > 0
    BY DEF Listed
  <1>3. KnownWorth'
    BY <1>1, <1>2, KnownFacts DEF BrowserInv, KnownWorth, Done
  <1>4. \A s \in Secret : srv[s] = "spent" => srv'[s] = "spent"
    BY DEF Done, Known, Changed
  <1>5. EntriesBacked'
    BY <1>1, <1>4, InvFacts DEF BrowserInv, EntriesBacked, Output
  <1>6. OneEntryEach'
    BY DEF BrowserInv, OneEntryEach
  <1> QED BY <1>3, <1>5, <1>6

\* An effect stays as it was, where the request spends nothing it is to keep.
LEMMA DoneEffect ==
  ASSUME BrowserInv, NEW req, Done(req), UNCHANGED <<state, paid>>, lost \subseteq lost',
         NEW e \in Effect, EffectInv(e),
         e.pc \in TakenPC => e.keep \cap Listed(req.ins) = {},
         e.pc = "checked" => Listed(req.ins) \subseteq lost'
  PROVE  EffectInv(e)'
  <1>1. \A s \in Secret : Known(s) => Known(s)' /\ worth'[s] = worth[s]
    BY DEF Done
  <1>2. \A s \in Secret : srv[s] = "spent" => srv'[s] = "spent"
    BY DEF Done, Known, Changed
  <1>3. \A s \in Secret : srv[s] = "unspent" /\ s \notin Listed(req.ins) => srv'[s] = "unspent"
    BY DEF Done, Known, Changed
  <1>4. /\ Listed(e.new) \subseteq Secret /\ Listed(e.ins) \subseteq Secret
        /\ e.keep \subseteq Secret
    BY DEF Listed, Effect
  <1>5. Proposed(e) => Proposed(e)'
    BY DEF Proposed
  <1>6. Taken(e) /\ e.pc \in TakenPC => Taken(e)'
    BY <1>1, <1>2, <1>3, <1>4 DEF Taken, Secrets
  <1>7. Found(e) /\ e.pc = "checked" => Found(e)'
    <2> SUFFICES ASSUME Found(e), e.pc = "checked", NEW s \in Listed(e.new)
                 PROVE  /\ s \in e.keep /\ Known(s)' /\ e.new[s] = worth'[s]
                        /\ srv'[s] = "unspent" \/ s \in lost' \cup paid'
      BY DEF Found
    <2> QED BY <1>1, <1>3, <1>4 DEF Found
  <1> QED BY <1>1, <1>4, <1>5, <1>6, <1>7 DEF EffectInv, TakenPC

LEMMA ServerAcceptsStep ==
  ASSUME BrowserInv, NEW f \in Flow, ServerAccepts(f)
  PROVE  BrowserInv'
  <1> DEFINE req == RequestOf(f)
             pc == IF flow[f].pc = "report" THEN "mined" ELSE "replaced"
             e == [flow[f] EXCEPT !.pc = pc]
  <1>1. /\ flow[f].pc \in {"replace", "report"} /\ Accepted(req) /\ Create(req)
        /\ flow' = [flow EXCEPT ![f] = e] /\ UNCHANGED <<state, late, paid, lost>>
    BY InvFacts DEF ServerAccepts
  <1>2. /\ flow[f] \in Effect /\ EffectInv(flow[f]) /\ Proposed(flow[f])
        /\ req.ins = flow[f].ins /\ req.new = flow[f].new
        /\ req.ins \in Coins /\ req.new \in Coins
        /\ \A s \in Listed(req.ins) : Known(s)
    BY <1>1, InvFacts DEF EffectInv, RequestOf, Effect
  <1> HIDE DEF req
  <1>3. Done(req)
    BY <1>1, <1>2, CreateDone
  <1>4. /\ e \in Effect /\ e.pc = pc /\ e.ins = req.ins /\ e.new = req.new
        /\ e.keep = flow[f].keep /\ e.mark = flow[f].mark /\ e.after = flow[f].after
    BY <1>2 DEF Effect, PC
  <1>5. /\ flow' \in [Flow -> Effect] /\ flow'[f] = e
        /\ \A g \in Flow \ {f} : flow'[g] = flow[g]
    BY <1>1, <1>4, InvFacts
  <1> HIDE DEF e
  <1>6. /\ flow'[f] \in Effect /\ flow'[f].pc = pc /\ flow'[f].ins = req.ins
         /\ flow'[f].new = req.new /\ flow'[f].keep = flow[f].keep
         /\ flow'[f].mark = flow[f].mark /\ flow'[f].after = flow[f].after
    BY <1>4, <1>5
  <1>7. BrowserTypeOK'
    BY <1>1, <1>3, <1>5 DEF BrowserInv, BrowserTypeOK, Done
  <1>8. KnownWorth' /\ EntriesBacked' /\ OneEntryEach'
    BY <1>1, <1>2, <1>3, DoneState
  <1>9. \A g \in Flow : flow[g].pc \in TakenPC =>
          /\ g # f /\ flow'[g] = flow[g] /\ flow[g].keep \cap Listed(req.ins) = {}
          /\ Taken(flow[g])
    BY <1>1, <1>2, <1>5, InvFacts DEF BrowserInv, FlowsApart, EffectInv, TakenPC
  <1>10. \A g \in Flow : flow[g].pc \notin {"check", "checked"}
    BY <1>1 DEF BrowserInv, FlowsApart
  <1>11. Proposed(flow[f])'
    BY <1>1, <1>2, <1>6 DEF Proposed
  <1>12. Taken(flow[f])'
    <2>1. \A s \in Listed(flow'[f].new) : Known(s)' /\ flow'[f].new[s] = worth'[s] /\ srv'[s] = "unspent"
      BY <1>3, <1>6 DEF Done, Known
    <2>2. ASSUME NEW s \in Listed(flow'[f].new)
          PROVE  state.depth[s[1]] <= s[2] /\ s \notin Secrets(DOMAIN state.outputs)
      <3>1. ~Known(s)
        BY <1>3, <1>6, <2>2 DEF Done
      <3>2. s[1] \in Chain /\ s[2] \in Depth /\ s = <<s[1], s[2]>> /\ s[2] \in Nat
            /\ state.depth[s[1]] \in Nat
        BY <1>2, <1>6, <2>2, InvFacts DEF Proposed, Derived, Depth
      <3>3. ~(s[2] < state.depth[s[1]])
        BY <3>1, <3>2 DEF BrowserInv, DepthsFollow
      <3> QED BY <3>1, <3>2, <3>3, KnownFacts DEF Secrets
    <2>3. \A s \in Listed(flow'[f].ins) : srv'[s] = "spent"
      BY <1>3, <1>6 DEF Done
    <2>4. flow'[f].keep \subseteq Listed(flow'[f].new)
      BY <1>2, <1>6 DEF Proposed
    <2> QED BY <1>1, <2>1, <2>2, <2>3, <2>4 DEF Taken, Secrets
  <1>13. EffectInv(flow[f])'
    <2>1. \A s \in Listed(flow'[f].ins) : Known(s)'
      BY <1>3, <1>6 DEF Done, Known
    <2>2. flow'[f].keep \subseteq Derived /\ (flow'[f].pc = "mined" => flow'[f].ins = NoCoins)
      BY <1>1, <1>2, <1>6 DEF EffectInv
    <2> QED BY <1>6, <1>11, <1>12, <2>1, <2>2 DEF EffectInv
  <1>14. (\A g \in Flow : EffectInv(flow[g]))'
    <2>1. \A x \in Effect : /\ EffectInv(x) /\ x.pc # "checked"
                            /\ x.pc \in TakenPC => x.keep \cap Listed(req.ins) = {}
                            => EffectInv(x)'
      BY <1>1, <1>3, DoneEffect
    <2> QED BY <1>5, <1>9, <1>10, <1>13, <2>1, InvFacts
  <1>15. /\ \A s \in Listed(req.new) : ~Known(s)
         /\ \A s \in Secret : Known(s) => Known(s)'
         /\ flow'[f].pc \in TakenPC /\ flow'[f].new = req.new /\ flow'[f].ins = req.ins
         /\ flow'[f].keep \subseteq Listed(req.new)
    BY <1>1, <1>2, <1>3, <1>4, <1>5 DEF Done, Proposed, TakenPC
  <1>16. DepthsFollow'
    <2> SUFFICES ASSUME NEW c \in Chain, NEW d \in Depth
                 PROVE  /\ d < state.depth[c] => Known(<<c, d>>)'
                        /\ Known(<<c, d>>)' /\ d >= state.depth[c] =>
                             \/ <<c, d>> \in lost
                             \/ \E g \in Flow : /\ flow'[g].pc \in TakenPC
                                                /\ <<c, d>> \in Listed(flow'[g].new)
      BY <1>1 DEF DepthsFollow, TakenPC
    <2>1. <<c, d>> \in Secret
      BY DerivedSecret
    <2>2. Known(<<c, d>>)' => Known(<<c, d>>) \/ <<c, d>> \in Listed(flow'[f].new)
      BY <1>3, <1>15, <2>1 DEF Done
    <2> QED BY <1>9, <1>15, <2>1, <2>2 DEF BrowserInv, DepthsFollow, TakenPC
  <1>17. \A g \in Flow : \A s \in Listed(flow'[g].ins) : Known(s)
    BY <1>2, <1>5, <1>15, InvFacts DEF EffectInv
  <1>18. \A g \in Flow : flow'[g].pc \in TakenPC =>
            g = f \/ (/\ flow[g].pc \in TakenPC /\ flow'[g] = flow[g]
                      /\ \A s \in Listed(flow[g].new) : Known(s))
    BY <1>5, <1>9 DEF Taken
  <1>19. FlowsApart'
    <2> SUFFICES ASSUME NEW g \in Flow, NEW h \in Flow
                 PROVE  /\ flow'[g].pc \in TakenPC =>
                             /\ flow'[g].keep \cap Listed(flow'[h].ins) = {}
                             /\ g # h /\ flow'[h].pc \in TakenPC =>
                                  Listed(flow'[g].new) \cap Listed(flow'[h].new) = {}
                        /\ flow'[g].pc \notin {"check", "checked"}
      BY DEF FlowsApart, TakenPC
    <2>1. ASSUME flow'[g].pc \in TakenPC
          PROVE  flow'[g].keep \cap Listed(flow'[h].ins) = {}
      <3>1. CASE g = f
        BY <3>1, <1>15, <1>17
      <3>2. CASE g # f
        <4>1. flow[g].pc \in TakenPC /\ flow'[g] = flow[g]
          BY <2>1, <3>2, <1>18
        <4>2. Listed(flow'[h].ins) = Listed(flow[h].ins)
          BY <1>2, <1>5, <1>15
        <4> QED BY <4>1, <4>2 DEF BrowserInv, FlowsApart, TakenPC
      <3> QED BY <3>1, <3>2
    <2>2. ASSUME flow'[g].pc \in TakenPC, g # h, flow'[h].pc \in TakenPC
          PROVE  Listed(flow'[g].new) \cap Listed(flow'[h].new) = {}
      BY <2>2, <1>15, <1>18 DEF BrowserInv, FlowsApart, TakenPC
    <2>3. flow'[g].pc \notin {"check", "checked"}
      BY <1>5, <1>10, <1>15 DEF TakenPC
    <2> QED BY <2>1, <2>2, <2>3
  <1>20. LateApart'
    <2>1. \A r \in late : r.ins \in Coins
      BY DEF BrowserInv, LateApart
    <2>2. \A r \in late : \A s \in Listed(r.ins) : s \in Secret /\ Known(s) /\ Known(s)'
      BY <1>15, <2>1 DEF BrowserInv, LateApart, Listed
    <2>3. \A r \in late : \A s \in Listed(r.ins) : \A g \in Flow :
            flow'[g].pc \in TakenPC => s \notin flow'[g].keep
      BY <1>15, <1>18, <2>2 DEF BrowserInv, LateApart, TakenPC
    <2> QED BY <1>1, <2>2, <2>3 DEF BrowserInv, LateApart, TakenPC
  <1>21. BooksAgree'
    <2> SUFFICES ASSUME NEW s \in Derived \ (lost \cup paid), ~Working(s)'
                 PROVE  srv'[s] = "unspent" <=> s \in Secrets(Live)
      BY <1>1 DEF BooksAgree, Secrets, Live
    <2>1. s \in Secret
      BY DEF Secret
    <2>2. ~Working(s) /\ s \notin Changed(req)
      BY <1>9, <1>15 DEF Working, Changed, TakenPC
    <2>3. srv'[s] = srv[s]
      BY <1>3, <2>1, <2>2 DEF Done
    <2> QED BY <2>2, <2>3 DEF BrowserInv, BooksAgree
  <1> QED BY <1>7, <1>8, <1>14, <1>16, <1>19, <1>20, <1>21 DEF BrowserInv

----------------------------------------------------------------------------
(* Apply *)

\* What an apply does with an effect e that the server has taken.
AppliedEffect(e) ==
    /\ state' = [outputs |-> state'.outputs, hashes |-> state.hashes \cup e.mark,
                 depth |-> state'.depth]
    /\ state'.outputs \in Seq(Output) /\ Once(state'.outputs)
    /\ \A i \in DOMAIN state.outputs :
         /\ i \in DOMAIN state'.outputs
         /\ state'.outputs[i].secret = state.outputs[i].secret
         /\ state'.outputs[i].amount = state.outputs[i].amount
         /\ state'.outputs[i].spent <=>
              state.outputs[i].spent \/ state.outputs[i].secret \in e.mark
    /\ \A i \in DOMAIN state'.outputs :
         \/ i \in DOMAIN state.outputs
         \/ \E s \in e.keep : state'.outputs[i] = Entry(s, e.new[s])
    /\ \A s \in e.keep :
         \E i \in DOMAIN state'.outputs : state'.outputs[i] = Entry(s, e.new[s])
    /\ state'.depth \in [Chain -> Nat]
    /\ \A c \in Chain :
         \/ /\ <<c, state.depth[c]>> \in Listed(e.new)
            /\ state'.depth[c] = state.depth[c] + 1
         \/ /\ \A s \in Listed(e.new) : s[1] # c
            /\ state'.depth[c] = state.depth[c]
    /\ paid' = paid \cup (Listed(e.new) \ e.keep)

LEMMA ApplyStep ==
  ASSUME BrowserInv, NEW f \in Flow, flow[f].pc \in TakenPC, AppliedEffect(flow[f]),
         flow' = [flow EXCEPT ![f] = Idle], UNCHANGED <<srv, worth, late, lost>>
  PROVE  BrowserInv'
  <1> DEFINE e == flow[f]
  <1>1. /\ e \in Effect /\ Proposed(e) /\ Taken(e) /\ e.keep \subseteq Listed(e.new)
        /\ Listed(e.new) \subseteq Derived /\ Listed(e.ins) \subseteq Secret
        /\ e.mark \subseteq Listed(e.ins) /\ Listed(e.new) \subseteq Secret
    BY InvFacts DEF EffectInv, TakenPC, Proposed, Listed
  <1>2. /\ flow' \in [Flow -> Effect] /\ flow'[f] = Idle
        /\ \A g \in Flow \ {f} : flow'[g] = flow[g]
    BY IdleFacts, InvFacts
  <1>3. \A g \in Flow : flow'[g].pc \in TakenPC => g # f /\ flow'[g] = flow[g]
    BY <1>2, IdleFacts DEF TakenPC
  <1>4. \A s \in Secret : Known(s)' <=> Known(s)
    BY DEF Known
  <1>5. BrowserTypeOK'
    BY <1>1, <1>2 DEF BrowserInv, BrowserTypeOK, AppliedEffect, WalletState, Secret
  <1>6. KnownWorth'
    BY <1>1, <1>4 DEF BrowserInv, KnownWorth, AppliedEffect, Taken, Proposed, Known
  <1>7. EntriesBacked'
    <2>1. ASSUME NEW i \in DOMAIN state'.outputs
          PROVE  /\ Known(state'.outputs[i].secret)
                 /\ state'.outputs[i].amount = worth[state'.outputs[i].secret]
                 /\ state'.outputs[i].spent => state'.outputs[i].secret \in state'.hashes
      <3>1. CASE i \in DOMAIN state.outputs
        <4>1. /\ state'.outputs[i].secret = state.outputs[i].secret
              /\ state'.outputs[i].amount = state.outputs[i].amount
              /\ state'.outputs[i].spent =>
                   state.outputs[i].spent \/ state.outputs[i].secret \in e.mark
              /\ state'.hashes = state.hashes \cup e.mark
          BY <3>1 DEF AppliedEffect
        <4>2. state.outputs[i].spent => state.outputs[i].secret \in state.hashes
          BY <3>1 DEF BrowserInv, EntriesBacked
        <4> QED BY <3>1, <4>1, <4>2, InvFacts
      <3>2. CASE \E s \in e.keep : state'.outputs[i] = Entry(s, e.new[s])
        BY <1>1, <3>2 DEF Entry, Taken
      <3> QED BY <3>1, <3>2 DEF AppliedEffect
    <2>2. \A s \in state'.hashes : srv[s] = "spent"
      BY <1>1, KnownFacts DEF AppliedEffect, Taken
    <2> QED BY <2>1, <2>2 DEF EntriesBacked, Known
  <1>8. OneEntryEach'
    BY DEF AppliedEffect, OneEntryEach, Once
  <1>9. \A c \in Chain : /\ state.depth[c] \in Nat /\ state'.depth[c] \in Nat
                         /\ state.depth[c] <= state'.depth[c]
                         /\ state'.depth[c] <= state.depth[c] + 1
    <2>1. \A c \in Chain : state.depth[c] \in Nat
      BY InvFacts
    <2>2. \A c \in Chain : state'.depth[c] \in {state.depth[c], state.depth[c] + 1}
      BY DEF AppliedEffect
    <2> QED BY <2>1, <2>2
  <1>10. DepthsFollow'
    <2> SUFFICES ASSUME NEW c \in Chain, NEW d \in Depth
                 PROVE  /\ d < state'.depth[c] => Known(<<c, d>>)
                        /\ Known(<<c, d>>) /\ d >= state'.depth[c] =>
                             \/ <<c, d>> \in lost
                             \/ \E g \in Flow : /\ flow'[g].pc \in TakenPC
                                                /\ <<c, d>> \in Listed(flow'[g].new)
      BY DEF DepthsFollow, TakenPC, Known
    <2>1. d \in Nat
      BY MaxDepthAssumption DEF Depth
    <2>2. ASSUME d < state'.depth[c] PROVE Known(<<c, d>>)
      <3>1. CASE d < state.depth[c]
        BY <3>1 DEF BrowserInv, DepthsFollow
      <3>2. CASE d = state.depth[c]
        <4>1. state'.depth[c] # state.depth[c]
          BY <1>9, <2>1, <2>2, <3>2
        <4>2. <<c, state.depth[c]>> \in Listed(e.new)
          BY <4>1 DEF AppliedEffect
        <4> QED BY <1>1, <3>2, <4>2 DEF Taken
      <3> QED BY <1>9, <2>1, <2>2, <3>1, <3>2
    <2>3. ASSUME Known(<<c, d>>), d >= state'.depth[c], <<c, d>> \notin lost
          PROVE  \E g \in Flow : /\ flow'[g].pc \in TakenPC
                                 /\ <<c, d>> \in Listed(flow'[g].new)
      <3>1. d >= state.depth[c]
        BY <1>9, <2>1, <2>3
      <3>2. PICK g \in Flow : flow[g].pc \in TakenPC /\ <<c, d>> \in Listed(flow[g].new)
        BY <2>3, <3>1 DEF BrowserInv, DepthsFollow, TakenPC
      <3>3. <<c, d>> \notin Listed(e.new)
        <4> SUFFICES ASSUME <<c, d>> \in Listed(e.new) PROVE FALSE
          OBVIOUS
        <4>1. d <= state.depth[c]
          BY <1>1 DEF Proposed
        <4>2. state'.depth[c] = state.depth[c] + 1
          BY DEF AppliedEffect
        <4> QED BY <1>9, <2>1, <2>3, <4>1, <4>2
      <3> QED BY <1>2, <3>2, <3>3
    <2> QED BY <2>2, <2>3
  <1>11. ASSUME NEW g \in Flow \ {f} PROVE EffectInv(flow[g])'
    <2> DEFINE x == flow[g]
    <2>1. x \in Effect /\ EffectInv(x) /\ flow'[g] = x /\ x.pc # "checked"
      BY <1>2, InvFacts DEF BrowserInv, FlowsApart, TakenPC
    <2>2. ASSUME Proposed(x), NEW s \in Listed(x.new)
          PROVE  s[2] <= state'.depth[s[1]]
      <3>1. s[1] \in Chain /\ s[2] \in Depth /\ s[2] <= state.depth[s[1]]
        BY <2>2 DEF Proposed, Derived
      <3>2. s[2] \in Nat
        BY <3>1, MaxDepthAssumption DEF Depth
      <3> QED BY <1>9, <3>1, <3>2
    <2>3. Proposed(x) => Proposed(flow[g])'
      BY <2>1, <2>2 DEF Proposed, AppliedEffect
    <2>4. ASSUME x.pc \in TakenPC, Proposed(x), Taken(x) PROVE Taken(flow[g])'
      <3>1. Listed(x.new) \cap Listed(e.new) = {}
        BY <2>4 DEF BrowserInv, FlowsApart, TakenPC
      <3>2. ASSUME NEW s \in Listed(x.new) PROVE state'.depth[s[1]] <= s[2]
        <4>1. /\ s[1] \in Chain /\ s[2] \in Nat /\ s = <<s[1], s[2]>>
              /\ s[2] <= state.depth[s[1]] /\ state.depth[s[1]] <= s[2]
          BY <2>4, MaxDepthAssumption DEF Proposed, Taken, Derived, Depth
        <4>2. s[2] = state.depth[s[1]]
          BY <1>9, <4>1
        <4>3. <<s[1], state.depth[s[1]]>> \notin Listed(e.new)
          BY <3>1, <4>1, <4>2
        <4>4. state'.depth[s[1]] = state.depth[s[1]]
          BY <4>1, <4>3 DEF AppliedEffect
        <4> QED BY <4>1, <4>4
      <3>3. ASSUME NEW s \in x.keep, NEW i \in DOMAIN state'.outputs
            PROVE  state'.outputs[i].secret # s
        <4>1. s \in Listed(x.new) /\ s \notin Secrets(DOMAIN state.outputs)
          BY <2>4 DEF Proposed, Taken
        <4>2. CASE i \in DOMAIN state.outputs
          BY <4>1, <4>2 DEF Secrets, AppliedEffect
        <4>3. CASE \E k \in e.keep : state'.outputs[i] = Entry(k, e.new[k])
          BY <1>1, <3>1, <4>1, <4>3 DEF Entry
        <4> QED BY <4>2, <4>3 DEF AppliedEffect
      <3> QED BY <2>1, <2>4, <3>2, <3>3 DEF Taken, Secrets, Known
    <2> QED BY <2>1, <2>3, <2>4 DEF EffectInv, TakenPC, Known
  <1>12. EffectInv(flow[f])'
    BY <1>2, IdleFacts, NoCoinsFacts DEF EffectInv, Idle
  <1>13. FlowsApart'
    BY <1>2, <1>3, IdleFacts DEF BrowserInv, FlowsApart, TakenPC
  <1>14. LateApart'
    BY <1>3 DEF BrowserInv, LateApart, TakenPC, Known
  <1>15. BooksAgree'
    <2> SUFFICES ASSUME NEW s \in Derived \ (lost \cup paid'), ~Working(s)'
                 PROVE  srv[s] = "unspent" <=>
                          \E i \in DOMAIN state'.outputs :
                              ~state'.outputs[i].spent /\ state'.outputs[i].secret = s
      BY DEF BooksAgree, Secrets, Live
    <2>1. \A g \in Flow \ {f} : flow[g].pc \in TakenPC => s \notin Changed(flow[g])
      BY <1>2 DEF Working, Changed, TakenPC
    <2>2. s \notin paid /\ s \notin Foreign /\ s \notin Listed(e.new) \ e.keep
      BY ForeignAssumption DEF AppliedEffect
    <2>3. CASE s \in e.keep
      <3>1. PICK i \in DOMAIN state'.outputs : state'.outputs[i] = Entry(s, e.new[s])
        BY <2>3 DEF AppliedEffect
      <3> QED BY <1>1, <2>3, <3>1 DEF Entry, Taken
    <2>4. CASE s \in e.mark
      <3>1. srv[s] = "spent" /\ s \notin e.keep
        BY <1>1, <2>4 DEF Taken
      <3>2. ASSUME NEW i \in DOMAIN state'.outputs, state'.outputs[i].secret = s
            PROVE  state'.outputs[i].spent
        <4>1. ~\E k \in e.keep : state'.outputs[i] = Entry(k, e.new[k])
          <5>1. \A k : Entry(k, e.new[k]).secret = k
            BY DEF Entry
          <5> QED BY <3>1, <3>2, <5>1
        <4>2. i \in DOMAIN state.outputs
          BY <3>2, <4>1 DEF AppliedEffect
        <4>3. /\ state'.outputs[i].secret = state.outputs[i].secret
              /\ state'.outputs[i].spent <=>
                   state.outputs[i].spent \/ state.outputs[i].secret \in e.mark
          BY <4>2 DEF AppliedEffect
        <4> QED BY <2>4, <3>2, <4>3
      <3> QED BY <3>1, <3>2
    <2>5. CASE s \notin e.keep /\ s \notin e.mark
      <3>1. s \notin Changed(e)
        BY <1>1, <2>2, <2>5 DEF Changed, Proposed
      <3>2. ~Working(s)
        BY <2>1, <3>1 DEF Working, TakenPC
      <3>3. srv[s] = "unspent" <=> \E i \in DOMAIN state.outputs :
                ~state.outputs[i].spent /\ state.outputs[i].secret = s
        BY <2>2, <3>2 DEF BrowserInv, BooksAgree, Secrets, Live
      <3>4. \A i \in DOMAIN state'.outputs :
                state'.outputs[i].secret = s => i \in DOMAIN state.outputs
        BY <2>5 DEF AppliedEffect, Entry
      <3> QED BY <2>5, <3>3, <3>4 DEF AppliedEffect
    <2> QED BY <2>3, <2>4, <2>5
  <1> QED BY <1>2, <1>5, <1>6, <1>7, <1>8, <1>10, <1>11, <1>12, <1>13, <1>14, <1>15
          DEF BrowserInv

LEMMA EntryFacts ==
  ASSUME NEW s \in Secret, NEW a \in Amount
  PROVE  Entry(s, a) \in Output /\ Entry(s, a).secret = s
  BY DEF Entry, Output

\* One entry for each secret of a set of the wallet's own.
LEMMA EntriesOf ==
  ASSUME NEW K, K \subseteq Derived, NEW w \in Coins
  PROVE  LET S == {Entry(s, w[s]) : s \in K} IN
         /\ S \subseteq Output /\ IsFiniteSet(S)
         /\ \A x \in S : x.secret \in K
         /\ \A x, y \in S : x.secret = y.secret => x = y
  <1> DEFINE entry == [s \in K |-> Entry(s, w[s])]
             S == {Entry(s, w[s]) : s \in K}
  <1>1. \A s \in K : Entry(s, w[s]) \in Output /\ Entry(s, w[s]).secret = s
    BY EntryFacts DEF Coins, Secret
  <1>2. IsFiniteSet(K)
    BY DerivedFinite, FS_Subset
  <1>3. entry \in Surjection(K, S)
    BY DEF Surjection
  <1>4. IsFiniteSet(S)
    BY <1>2, <1>3, FS_Surjection
  <1> QED BY <1>1, <1>4

LEMMA ApplyReplaceStep ==
  ASSUME BrowserInv, NEW f \in Flow, ApplyReplace(f)
  PROVE  BrowserInv'
  <1> DEFINE e == flow[f]
             S == {Entry(s, e.new[s]) : s \in e.keep}
             old == Marked(state.outputs, e.mark)
  <1>1. PICK kept \in SetToSeqs(S) :
          state' = [outputs |-> old \o kept,
                    hashes  |-> state.hashes \cup e.mark,
                    depth   |-> DepthNow(state.depth, e.after)]
    BY DEF ApplyReplace, InputsMarked, Pending
  <1>2. /\ e.pc = "replaced" /\ paid' = paid \cup (Listed(e.new) \ e.keep)
        /\ flow' = [flow EXCEPT ![f] = Idle] /\ UNCHANGED <<srv, worth, late, lost>>
    BY DEF ApplyReplace
  <1>3. /\ e \in Effect /\ e.new \in Coins /\ e.keep \subseteq Derived
        /\ Proposed(e) /\ Taken(e)
    BY <1>2, InvFacts DEF EffectInv, Effect
  <1>4. /\ S \subseteq Output /\ IsFiniteSet(S) /\ \A x \in S : x.secret \in e.keep
        /\ \A x, y \in S : x.secret = y.secret => x = y
    BY <1>3, EntriesOf
  <1>5. /\ old \in Seq(Output) /\ Once(old) /\ DOMAIN old = DOMAIN state.outputs
        /\ \A i \in DOMAIN state.outputs :
             /\ old[i].secret = state.outputs[i].secret
             /\ old[i].amount = state.outputs[i].amount
             /\ old[i].spent <=> state.outputs[i].spent
                                 \/ state.outputs[i].secret \in e.mark
    BY InvFacts, MarkedFacts
  <1>6. \A x \in S : \A i \in DOMAIN old : old[i].secret # x.secret
    BY <1>3, <1>4, <1>5 DEF Taken, Secrets
  <1> HIDE DEF S, old
  <1>7. /\ state'.outputs \in Seq(Output) /\ Once(state'.outputs)
        /\ \A i \in DOMAIN old : i \in DOMAIN state'.outputs /\ state'.outputs[i] = old[i]
        /\ \A i \in DOMAIN state'.outputs : i \in DOMAIN old \/ state'.outputs[i] \in S
        /\ \A x \in S : \E i \in DOMAIN state'.outputs : state'.outputs[i] = x
    <2>1. state'.outputs = old \o kept
      BY <1>1
    <2>2. /\ old \o kept \in Seq(Output) /\ Once(old \o kept)
          /\ \A i \in DOMAIN old : i \in DOMAIN (old \o kept) /\ (old \o kept)[i] = old[i]
          /\ \A i \in DOMAIN (old \o kept) : i \in DOMAIN old \/ (old \o kept)[i] \in S
          /\ \A x \in S : \E i \in DOMAIN (old \o kept) : (old \o kept)[i] = x
      BY <1>4, <1>5, <1>6, Extended
    <2> QED BY <2>1, <2>2
  <1>8. state'.hashes = state.hashes \cup e.mark /\ state'.depth = DepthNow(state.depth, e.after)
    BY <1>1
  <1>9. ASSUME NEW c \in Chain
        PROVE  /\ state'.depth[c] \in Nat
               /\ \/ /\ <<c, state.depth[c]>> \in Listed(e.new)
                     /\ state'.depth[c] = state.depth[c] + 1
                  \/ /\ \A s \in Listed(e.new) : s[1] # c
                     /\ state'.depth[c] = state.depth[c]
    <2>1. state.depth[c] \in Nat /\ e.after[c] \in Nat
      BY <1>3, InvFacts DEF Effect
    <2>2. state'.depth[c] = IF e.after[c] > 0 THEN e.after[c] ELSE state.depth[c]
      BY <1>8 DEF DepthNow
    <2>3. CASE e.after[c] > 0
      <3>1. <<c, e.after[c] - 1>> \in Listed(e.new)
        BY <1>2, <1>3, <2>3 DEF Proposed
      <3>2. e.after[c] - 1 <= state.depth[c] /\ state.depth[c] <= e.after[c] - 1
        BY <1>3, <3>1 DEF Proposed, Taken
      <3>3. e.after[c] - 1 = state.depth[c] /\ e.after[c] = state.depth[c] + 1
        BY <2>1, <2>3, <3>2
      <3> QED BY <2>1, <2>2, <2>3, <3>1, <3>3
    <2>4. CASE ~(e.after[c] > 0)
      <3>1. ASSUME NEW s \in Listed(e.new), s[1] = c PROVE FALSE
        <4>1. s[2] \in Nat
          BY <1>3, MaxDepthAssumption DEF Proposed, Derived, Depth
        <4>2. e.after[c] = s[2] + 1
          BY <1>2, <1>3, <3>1 DEF Proposed
        <4> QED BY <2>4, <4>1, <4>2
      <3> QED BY <2>1, <2>2, <2>4, <3>1
    <2> QED BY <2>3, <2>4
  <1>10. state'.depth \in [Chain -> Nat]
    BY <1>8, <1>9 DEF DepthNow
  <1>11. \A i \in DOMAIN state'.outputs :
           i \in DOMAIN state.outputs \/ \E s \in e.keep : state'.outputs[i] = Entry(s, e.new[s])
    BY <1>5, <1>7 DEF S
  <1>12. \A s \in e.keep : \E i \in DOMAIN state'.outputs : state'.outputs[i] = Entry(s, e.new[s])
    BY <1>7 DEF S
  <1>13. state' = [outputs |-> state'.outputs, hashes |-> state.hashes \cup e.mark,
                   depth |-> state'.depth]
    BY <1>1
  <1>14. AppliedEffect(flow[f])
    BY <1>2, <1>5, <1>7, <1>9, <1>10, <1>11, <1>12, <1>13 DEF AppliedEffect
  <1> QED BY <1>2, <1>14, ApplyStep DEF TakenPC

LEMMA StoreMinedStep ==
  ASSUME BrowserInv, NEW f \in Flow, StoreMined(f)
  PROVE  BrowserInv'
  <1> DEFINE e == flow[f]
             m == <<"MINING", state.depth["MINING"]>>
             x == Entry(m, e.new[m])
  <1>1. PICK k \in e.keep :
          state' = [outputs |-> Append(state.outputs, Entry(k, e.new[k])),
                    hashes  |-> state.hashes,
                    depth   |-> [state.depth EXCEPT !["MINING"] = @ + 1]]
    BY DEF StoreMined
  <1>2. /\ e.pc = "mined" /\ flow' = [flow EXCEPT ![f] = Idle]
        /\ UNCHANGED <<srv, worth, late, paid, lost>>
    BY DEF StoreMined
  <1>3. /\ e \in Effect /\ e.new \in Coins /\ e.keep \subseteq Derived
        /\ Proposed(e) /\ Taken(e) /\ e.ins = NoCoins
    BY <1>2, InvFacts DEF EffectInv, Effect
  <1>4. "MINING" \in Chain /\ state.depth["MINING"] \in Nat
    BY InvFacts DEF Chain
  <1>5. PICK d \in Depth : Listed(e.new) = {<<"MINING", d>>}
    BY <1>2, <1>3 DEF Proposed
  <1>6. d \in Nat /\ d <= state.depth["MINING"] /\ state.depth["MINING"] <= d
    BY <1>3, <1>5, MaxDepthAssumption DEF Proposed, Taken, Depth
  <1>7. d = state.depth["MINING"]
    BY <1>4, <1>6
  <1>8. Listed(e.new) = {m} /\ e.keep = {m} /\ k = m /\ m \in Secret
    <2>1. Listed(e.new) = {m}
      BY <1>5, <1>7
    <2>2. k \in Listed(e.new) /\ e.keep \subseteq Listed(e.new)
      BY <1>3 DEF Proposed
    <2> QED BY <1>3, <2>1, <2>2 DEF Secret
  <1>9. e.mark = {}
    BY <1>3, NoCoinsFacts DEF Proposed
  <1>10. /\ x \in Output /\ x.secret = m
         /\ \A i \in DOMAIN state.outputs : state.outputs[i].secret # m
    BY <1>3, <1>8, EntryFacts DEF Coins, Taken, Secrets
  <1>11. /\ state'.outputs = Append(state.outputs, x) /\ state'.hashes = state.hashes
         /\ state'.depth = [state.depth EXCEPT !["MINING"] = @ + 1]
         /\ state' = [outputs |-> state'.outputs, hashes |-> state'.hashes,
                      depth |-> state'.depth]
    <2>1. Entry(k, e.new[k]) = x
      BY <1>8
    <2> QED BY <1>1, <2>1
  <1> HIDE DEF x
  <1>12. /\ state'.outputs \in Seq(Output) /\ Len(state.outputs) \in Nat
         /\ DOMAIN state.outputs = 1 .. Len(state.outputs)
         /\ DOMAIN state'.outputs = 1 .. Len(state.outputs) + 1
         /\ \A i \in DOMAIN state.outputs : state'.outputs[i] = state.outputs[i]
         /\ state'.outputs[Len(state.outputs) + 1] = x
    BY <1>10, <1>11, InvFacts
  <1>13. \A i \in DOMAIN state'.outputs :
           i \in DOMAIN state.outputs \/ (i = Len(state.outputs) + 1 /\ state'.outputs[i] = x)
    BY <1>12
  <1>14. Once(state'.outputs)
    BY <1>10, <1>12, <1>13, InvFacts DEF Once
  <1>15. /\ state'.depth \in [Chain -> Nat]
         /\ state'.depth["MINING"] = state.depth["MINING"] + 1
         /\ \A c \in Chain \ {"MINING"} : state'.depth[c] = state.depth[c]
    BY <1>4, <1>11, InvFacts
  <1>16. \A c \in Chain :
           \/ /\ <<c, state.depth[c]>> \in Listed(e.new)
              /\ state'.depth[c] = state.depth[c] + 1
           \/ /\ \A s \in Listed(e.new) : s[1] # c
              /\ state'.depth[c] = state.depth[c]
    BY <1>8, <1>15
  <1>17. paid' = paid \cup (Listed(e.new) \ e.keep)
    BY <1>2, <1>8
  <1>18. /\ \A i \in DOMAIN state'.outputs :
              i \in DOMAIN state.outputs \/ \E s \in e.keep : state'.outputs[i] = Entry(s, e.new[s])
         /\ \A s \in e.keep : \E i \in DOMAIN state'.outputs : state'.outputs[i] = Entry(s, e.new[s])
    <2>1. Len(state.outputs) + 1 \in DOMAIN state'.outputs
      BY <1>12
    <2> QED BY <1>8, <1>12, <1>13, <2>1 DEF x
  <1>19. \A i \in DOMAIN state.outputs :
           /\ i \in DOMAIN state'.outputs
           /\ state'.outputs[i].secret = state.outputs[i].secret
           /\ state'.outputs[i].amount = state.outputs[i].amount
           /\ state'.outputs[i].spent <=>
                state.outputs[i].spent \/ state.outputs[i].secret \in e.mark
    <2>1. \A i \in DOMAIN state.outputs : state.outputs[i].spent \in BOOLEAN
      BY InvFacts DEF Output
    <2> QED BY <1>9, <1>12, <2>1
  <1>20. AppliedEffect(flow[f])
    BY <1>9, <1>11, <1>12, <1>14, <1>15, <1>16, <1>17, <1>18, <1>19 DEF AppliedEffect
  <1> QED BY <1>2, <1>20, ApplyStep DEF TakenPC

\* Where no request is answered and not applied, the entries may change to
\* others that are backed, as long as no live one goes.
LEMMA QuietStep ==
  ASSUME BrowserInv, \A g \in Flow : flow[g].pc \notin TakenPC,
         flow' \in [Flow -> Effect],
         \A g \in Flow : flow'[g].pc = "idle" /\ (flow'[g] = flow[g] \/ flow'[g] = Idle),
         UNCHANGED <<srv, worth, late, paid, lost>>,
         state' = [outputs |-> state'.outputs, hashes |-> state.hashes,
                   depth |-> state.depth],
         state'.outputs \in Seq(Output), Once(state'.outputs),
         \A i \in DOMAIN state'.outputs :
             \/ \E j \in DOMAIN state.outputs : state'.outputs[i] = state.outputs[j]
             \/ \E s \in Secret :
                  /\ state'.outputs[i] = Entry(s, worth[s])
                  /\ Known(s) /\ (srv[s] = "unspent" \/ s \in lost \cup paid),
         \A j \in Live : \E i \in DOMAIN state'.outputs : state'.outputs[i] = state.outputs[j]
  PROVE  BrowserInv'
  <1>1. state'.hashes = state.hashes /\ state'.depth = state.depth
    OBVIOUS
  <1>2. BrowserTypeOK'
    BY <1>1, InvFacts DEF BrowserInv, BrowserTypeOK, WalletState
  <1>3. KnownWorth'
    BY DEF BrowserInv, KnownWorth, Known
  <1>4. EntriesBacked'
    <2>1. ASSUME NEW i \in DOMAIN state'.outputs
          PROVE  /\ Known(state'.outputs[i].secret)
                 /\ state'.outputs[i].amount = worth[state'.outputs[i].secret]
                 /\ state'.outputs[i].spent => state'.outputs[i].secret \in state.hashes
      <3>1. CASE \E j \in DOMAIN state.outputs : state'.outputs[i] = state.outputs[j]
        BY <3>1 DEF BrowserInv, EntriesBacked
      <3>2. CASE \E s \in Secret : state'.outputs[i] = Entry(s, worth[s]) /\ Known(s)
        BY <3>2 DEF Entry
      <3> QED BY <3>1, <3>2
    <2> QED BY <1>1, <2>1, KnownFacts DEF EntriesBacked, Known
  <1>5. OneEntryEach'
    BY DEF OneEntryEach, Once
  <1>6. DepthsFollow'
    BY <1>1 DEF BrowserInv, DepthsFollow, TakenPC, Known
  <1>7. (\A g \in Flow : EffectInv(flow[g]))'
    <2>1. \A x \in Effect : x.pc = "idle" /\ EffectInv(x) => EffectInv(x)'
      BY DEF EffectInv, Known
    <2> QED BY <2>1, InvFacts, IdleFacts
  <1>8. FlowsApart'
    BY DEF FlowsApart
  <1>9. LateApart'
    BY DEF BrowserInv, LateApart, Known
  <1>10. BooksAgree'
    <2> SUFFICES ASSUME NEW s \in Derived \ (lost \cup paid)
                 PROVE  srv[s] = "unspent" <=>
                          \E i \in DOMAIN state'.outputs :
                              ~state'.outputs[i].spent /\ state'.outputs[i].secret = s
      BY DEF BooksAgree, Secrets, Live
    <2>1. srv[s] = "unspent" <=> \E j \in DOMAIN state.outputs :
              ~state.outputs[j].spent /\ state.outputs[j].secret = s
      BY DEF BrowserInv, BooksAgree, Working, TakenPC, Secrets, Live
    <2>2. ASSUME NEW i \in DOMAIN state'.outputs,
                 ~state'.outputs[i].spent, state'.outputs[i].secret = s
          PROVE  srv[s] = "unspent"
      <3>1. CASE \E j \in DOMAIN state.outputs : state'.outputs[i] = state.outputs[j]
        BY <2>1, <2>2, <3>1
      <3>2. CASE \E k \in Secret : /\ state'.outputs[i] = Entry(k, worth[k])
                                   /\ srv[k] = "unspent" \/ k \in lost \cup paid
        BY <2>2, <3>2 DEF Entry
      <3> QED BY <3>1, <3>2
    <2>3. ASSUME NEW j \in DOMAIN state.outputs,
                 ~state.outputs[j].spent, state.outputs[j].secret = s
          PROVE  \E i \in DOMAIN state'.outputs :
                     ~state'.outputs[i].spent /\ state'.outputs[i].secret = s
      BY <2>3 DEF Live
    <2> QED BY <2>1, <2>2, <2>3
  <1> QED BY <1>2, <1>3, <1>4, <1>5, <1>6, <1>7, <1>8, <1>9, <1>10 DEF BrowserInv

LEMMA ApplyRecoverStep ==
  ASSUME BrowserInv, NEW f \in Flow, ApplyRecover(f)
  PROVE  BrowserInv'
  <1> DEFINE e == flow[f]
             K == NotStored(e)
             S == {Entry(s, e.new[s]) : s \in K}
  <1>1. PICK found \in SetToSeqs(S) : state' = [state EXCEPT !.outputs = @ \o found]
    BY DEF ApplyRecover
  <1>2. /\ e.pc = "checked" /\ flow' = [flow EXCEPT ![f] = Idle]
        /\ UNCHANGED <<srv, worth, late, paid, lost>>
    BY DEF ApplyRecover
  <1>3. /\ e \in Effect /\ e.new \in Coins /\ e.keep \subseteq Derived /\ Found(e)
    BY <1>2, InvFacts DEF EffectInv, Effect
  <1>4. /\ \A g \in Flow \ {f} : flow[g].pc = "idle"
        /\ \A g \in Flow : flow[g].pc \notin TakenPC
    BY <1>2 DEF BrowserInv, FlowsApart, TakenPC
  <1>5. /\ flow' \in [Flow -> Effect]
        /\ \A g \in Flow : flow'[g].pc = "idle" /\ (flow'[g] = flow[g] \/ flow'[g] = Idle)
    BY <1>2, <1>4, IdleFacts, InvFacts
  <1>6. /\ K \subseteq Listed(e.new) /\ K \subseteq Derived
        /\ \A s \in K : \A i \in DOMAIN state.outputs : state.outputs[i].secret # s
    BY <1>3 DEF NotStored, Found, Secrets
  <1>7. /\ S \subseteq Output /\ IsFiniteSet(S) /\ \A x \in S : x.secret \in K
        /\ \A x, y \in S : x.secret = y.secret => x = y
    BY <1>3, <1>6, EntriesOf
  <1>8. \A x \in S : \E s \in Secret :
            /\ x = Entry(s, worth[s])
            /\ Known(s) /\ (srv[s] = "unspent" \/ s \in lost \cup paid)
    BY <1>3, <1>6 DEF Found, Listed
  <1>9. \A x \in S : \A i \in DOMAIN state.outputs : state.outputs[i].secret # x.secret
    BY <1>6, <1>7
  <1> HIDE DEF K, S
  <1>10. /\ state'.outputs = state.outputs \o found
         /\ state' = [outputs |-> state'.outputs, hashes |-> state.hashes,
                      depth |-> state.depth]
    BY <1>1, InvFacts
  <1> DEFINE all == state.outputs \o found
  <1>11. /\ all \in Seq(Output) /\ Once(all)
         /\ \A i \in DOMAIN state.outputs : i \in DOMAIN all /\ all[i] = state.outputs[i]
         /\ \A i \in DOMAIN all : i \in DOMAIN state.outputs \/ all[i] \in S
    <2>1. state.outputs \in Seq(Output) /\ Once(state.outputs)
      BY InvFacts
    <2> QED BY <1>7, <1>9, <2>1, Extended
  <1> HIDE DEF all
  <1>12. state'.outputs = all
    BY <1>10 DEF all
  <1>13. \A j \in Live : \E i \in DOMAIN all : all[i] = state.outputs[j]
    BY <1>11 DEF Live
  <1>14. \A i \in DOMAIN all :
           \/ \E j \in DOMAIN state.outputs : all[i] = state.outputs[j]
           \/ \E s \in Secret :
                /\ all[i] = Entry(s, worth[s])
                /\ Known(s) /\ (srv[s] = "unspent" \/ s \in lost \cup paid)
    BY <1>8, <1>11
  <1> QED BY <1>2, <1>4, <1>5, <1>10, <1>11, <1>12, <1>13, <1>14, QuietStep

\* The live entries in their order are a list of them, each once.
LEMMA ReimportStep ==
  ASSUME BrowserInv, Reimport
  PROVE  BrowserInv'
  <1>1. PICK p \in InOrder(Live) :
          state' = [state EXCEPT !.outputs = [k \in DOMAIN p |-> @[p[k]]]]
    BY DEF Reimport
  <1>2. AllIdle /\ UNCHANGED <<srv, worth, flow, late, paid, lost>>
    BY DEF Reimport
  <1>3. IsFiniteSet(Live)
    <2>1. Live \subseteq DOMAIN state.outputs /\ DOMAIN state.outputs = 1 .. Len(state.outputs)
      BY InvFacts DEF Live
    <2>2. IsFiniteSet(1 .. Len(state.outputs))
      BY InvFacts, FS_Interval
    <2> QED BY <2>1, <2>2, FS_Subset
  <1>4. /\ p \in Seq(Live)
        /\ \A k, l \in DOMAIN p : p[k] = p[l] => k = l
        /\ \A j \in Live : \E k \in DOMAIN p : p[k] = j
    BY <1>1, <1>3, SetToSeqsFacts DEF InOrder
  <1> DEFINE kept == [k \in DOMAIN p |-> state.outputs[p[k]]]
  <1>5. \A k \in DOMAIN p : p[k] \in DOMAIN state.outputs /\ p[k] \in Live
    BY <1>4 DEF Live
  <1>6. /\ DOMAIN kept = DOMAIN p /\ DOMAIN p = 1 .. Len(p) /\ Len(p) \in Nat
        /\ \A k \in DOMAIN p : kept[k] = state.outputs[p[k]] /\ kept[k] \in Output
    BY <1>4, <1>5, InvFacts
  <1>7. kept \in Seq(Output)
    BY <1>6
  <1>8. /\ state'.outputs = kept
        /\ state' = [outputs |-> state'.outputs, hashes |-> state.hashes,
                     depth |-> state.depth]
    BY <1>1, InvFacts
  <1> HIDE DEF kept
  <1>9. Once(kept)
    <2>1. \A i, j \in DOMAIN kept : kept[i].secret = kept[j].secret => p[i] = p[j]
      BY <1>5, <1>6, InvFacts DEF Once
    <2> QED BY <1>4, <1>6, <2>1 DEF Once
  <1>10. \A i \in DOMAIN kept : \E j \in DOMAIN state.outputs : kept[i] = state.outputs[j]
    BY <1>5, <1>6
  <1>11. \A j \in Live : \E i \in DOMAIN kept : kept[i] = state.outputs[j]
    BY <1>4, <1>6
  <1>12. /\ \A g \in Flow : flow[g].pc \notin TakenPC
         /\ flow' \in [Flow -> Effect]
         /\ \A g \in Flow : flow'[g].pc = "idle" /\ flow'[g] = flow[g]
    BY <1>2, InvFacts DEF AllIdle, TakenPC
  <1> QED BY <1>2, <1>7, <1>8, <1>9, <1>10, <1>11, <1>12, QuietStep

----------------------------------------------------------------------------
(* Lost answers, and other people's wallets *)

LEMMA EffectLostStep ==
  ASSUME BrowserInv, NEW f \in Flow, EffectLost(f)
  PROVE  BrowserInv'
  <1>1. /\ flow' = [flow EXCEPT ![f] = Idle]
        /\ UNCHANGED <<srv, worth, state, paid>>
        /\ late' = late \/ late' = late \cup {RequestOf(f)}
        /\ lost \subseteq lost' /\ lost' \subseteq lost \cup Changed(flow[f])
        /\ flow[f].pc \in TakenPC => Changed(flow[f]) \subseteq lost'
    BY DEF EffectLost, TakenPC
  <1>2. /\ flow' \in [Flow -> Effect] /\ flow'[f] = Idle
        /\ \A g \in Flow \ {f} : flow'[g] = flow[g]
    BY <1>1, IdleFacts, InvFacts
  <1>3. \A g \in Flow : flow'[g].pc # "idle" => g # f /\ flow'[g] = flow[g]
    BY <1>2, IdleFacts
  <1>4. \A g \in Flow : flow[g].pc \in TakenPC => g = f \/ flow'[g] = flow[g]
    BY <1>2
  <1>5. BrowserTypeOK'
    BY <1>1, <1>2, InvFacts DEF BrowserInv, BrowserTypeOK, Changed, Listed
  <1>6. KnownWorth' /\ EntriesBacked' /\ OneEntryEach'
    BY <1>1 DEF BrowserInv, KnownWorth, EntriesBacked, OneEntryEach, Known
  <1>7. DepthsFollow'
    <2> SUFFICES ASSUME NEW c \in Chain, NEW d \in Depth
                 PROVE  /\ d < state.depth[c] => Known(<<c, d>>)
                        /\ Known(<<c, d>>) /\ d >= state.depth[c] =>
                             \/ <<c, d>> \in lost'
                             \/ \E g \in Flow : /\ flow'[g].pc \in TakenPC
                                                /\ <<c, d>> \in Listed(flow'[g].new)
      BY <1>1 DEF DepthsFollow, TakenPC, Known
    <2>1. /\ d < state.depth[c] => Known(<<c, d>>)
          /\ Known(<<c, d>>) /\ d >= state.depth[c] =>
               \/ <<c, d>> \in lost
               \/ \E g \in Flow : /\ flow[g].pc \in TakenPC
                                  /\ <<c, d>> \in Listed(flow[g].new)
      BY DEF BrowserInv, DepthsFollow, TakenPC
    <2>2. ASSUME NEW g \in Flow, flow[g].pc \in TakenPC, <<c, d>> \in Listed(flow[g].new)
          PROVE  \/ <<c, d>> \in lost'
                 \/ flow'[g].pc \in TakenPC /\ <<c, d>> \in Listed(flow'[g].new)
      BY <1>1, <1>4, <2>2 DEF Changed
    <2> QED BY <1>1, <2>1, <2>2
  <1>8. (\A g \in Flow : EffectInv(flow[g]))'
    <2>1. \A x \in Effect : EffectInv(x) => EffectInv(x)'
      BY <1>1 DEF EffectInv, Proposed, Taken, Found, Known, Secrets
    <2> QED BY <1>2, <2>1, InvFacts, IdleFacts
  <1>9. FlowsApart'
    <2>1. \A g \in Flow : Listed(flow'[g].ins) \subseteq Listed(flow[g].ins)
      BY <1>2, IdleFacts
    <2> SUFFICES ASSUME NEW g \in Flow, NEW h \in Flow
                 PROVE  /\ flow'[g].pc \in TakenPC =>
                             /\ flow'[g].keep \cap Listed(flow'[h].ins) = {}
                             /\ g # h /\ flow'[h].pc \in TakenPC =>
                                  Listed(flow'[g].new) \cap Listed(flow'[h].new) = {}
                        /\ flow'[g].pc \in {"check", "checked"} /\ g # h =>
                             flow'[h].pc = "idle"
      BY DEF FlowsApart, TakenPC
    <2>2. flow'[g].pc \in TakenPC => flow'[g] = flow[g]
      BY <1>3 DEF TakenPC
    <2>3. flow'[h].pc \in TakenPC => flow'[h] = flow[h]
      BY <1>3 DEF TakenPC
    <2>4. flow'[g].pc \in {"check", "checked"} => flow'[g] = flow[g]
      BY <1>3
    <2>5. flow[h].pc = "idle" => flow'[h].pc = "idle"
      BY <1>2, IdleFacts
    <2>6. /\ flow[g].pc \in TakenPC =>
               /\ flow[g].keep \cap Listed(flow[h].ins) = {}
               /\ g # h /\ flow[h].pc \in TakenPC =>
                    Listed(flow[g].new) \cap Listed(flow[h].new) = {}
          /\ flow[g].pc \in {"check", "checked"} /\ g # h => flow[h].pc = "idle"
      BY DEF BrowserInv, FlowsApart, TakenPC
    <2> QED BY <2>1, <2>2, <2>3, <2>4, <2>5, <2>6
  <1>10. LateApart'
    <2>1. /\ RequestOf(f) \in [ins : Coins, new : Coins, mint : BOOLEAN]
          /\ RequestOf(f).ins = flow[f].ins
      BY InvFacts DEF RequestOf, Effect
    <2>2. /\ late \subseteq [ins : Coins, new : Coins, mint : BOOLEAN]
          /\ \A req \in late : \A s \in Listed(req.ins) :
               /\ Known(s)
               /\ \A g \in Flow : flow[g].pc \in TakenPC => s \notin flow[g].keep
      BY DEF BrowserInv, LateApart, TakenPC
    <2>3. \A s \in Listed(flow[f].ins) :
            /\ Known(s)
            /\ \A g \in Flow : flow[g].pc \in TakenPC => s \notin flow[g].keep
      BY InvFacts DEF EffectInv, BrowserInv, FlowsApart, TakenPC
    <2>4. \A req \in late' : \A s \in Listed(req.ins) :
            /\ Known(s)
            /\ \A g \in Flow : flow'[g].pc \in TakenPC => s \notin flow'[g].keep
      <3>1. \A g \in Flow : flow'[g].pc \in TakenPC =>
              flow[g].pc \in TakenPC /\ flow'[g] = flow[g]
        BY <1>3 DEF TakenPC
      <3> QED BY <1>1, <2>1, <2>2, <2>3, <3>1
    <2> QED BY <1>1, <2>1, <2>2, <2>4 DEF LateApart, TakenPC, Known
  <1>11. BooksAgree'
    <2> SUFFICES ASSUME NEW s \in Derived \ (lost' \cup paid), ~Working(s)'
                 PROVE  srv[s] = "unspent" <=> s \in Secrets(Live)
      BY <1>1 DEF BooksAgree, Secrets, Live
    <2>1. ~Working(s)
      BY <1>1, <1>4 DEF Working, TakenPC, Changed
    <2> QED BY <1>1, <2>1 DEF BrowserInv, BooksAgree
  <1> QED BY <1>5, <1>6, <1>7, <1>8, <1>9, <1>10, <1>11 DEF BrowserInv

LEMMA LateRequestStep ==
  ASSUME BrowserInv, NEW req \in late, LateRequest(req)
  PROVE  BrowserInv'
  <1>1. /\ late' = late \ {req} /\ UNCHANGED <<state, flow, paid>>
        /\ \/ Accepted(req) /\ Create(req) /\ lost' = lost \cup Changed(req)
           \/ UNCHANGED <<srv, worth, lost>>
    BY DEF LateRequest
  <1>2. /\ req.ins \in Coins /\ req.new \in Coins
        /\ Listed(req.ins) \subseteq Secret /\ Listed(req.new) \subseteq Secret
        /\ \A s \in Listed(req.ins) :
             /\ Known(s)
             /\ \A g \in Flow : flow[g].pc \in TakenPC => s \notin flow[g].keep
    BY DEF BrowserInv, LateApart, TakenPC, Listed
  <1>3. CASE Accepted(req) /\ Create(req) /\ lost' = lost \cup Changed(req)
    <2>1. Done(req)
      BY <1>2, <1>3, CreateDone
    <2>2. BrowserTypeOK'
      BY <1>1, <1>2, <1>3, <2>1 DEF BrowserInv, BrowserTypeOK, Done, Changed
    <2>3. KnownWorth' /\ EntriesBacked' /\ OneEntryEach'
      BY <1>1, <1>2, <2>1, DoneState
    <2>4. \A s \in Secret : Known(s) => Known(s)'
      BY <2>1 DEF Done
    <2>5. DepthsFollow'
      <3> SUFFICES ASSUME NEW c \in Chain, NEW d \in Depth
                   PROVE  /\ d < state.depth[c] => Known(<<c, d>>)'
                          /\ Known(<<c, d>>)' /\ d >= state.depth[c] =>
                               \/ <<c, d>> \in lost'
                               \/ \E g \in Flow : /\ flow[g].pc \in {"replaced", "mined"}
                                                  /\ <<c, d>> \in Listed(flow[g].new)
        BY <1>1 DEF DepthsFollow
      <3>1. <<c, d>> \in Secret
        BY DerivedSecret
      <3>2. Known(<<c, d>>)' => Known(<<c, d>>) \/ <<c, d>> \in lost'
        BY <1>3, <2>1, <3>1 DEF Done, Changed
      <3> QED BY <1>3, <2>4, <3>1, <3>2 DEF BrowserInv, DepthsFollow
    <2>6. (\A g \in Flow : EffectInv(flow[g]))'
      <3>1. \A g \in Flow : flow[g].pc \in TakenPC => flow[g].keep \cap Listed(req.ins) = {}
        BY <1>2
      <3>2. lost \subseteq lost' /\ Listed(req.ins) \subseteq lost'
        BY <1>3 DEF Changed
      <3>3. \A x \in Effect :
              EffectInv(x) /\ (x.pc \in TakenPC => x.keep \cap Listed(req.ins) = {})
                => EffectInv(x)'
        BY <1>1, <2>1, <3>2, DoneEffect
      <3> QED BY <1>1, <3>1, <3>3, InvFacts
    <2>7. FlowsApart'
      BY <1>1 DEF BrowserInv, FlowsApart
    <2>8. LateApart'
      <3>1. \A r \in late : \A s \in Listed(r.ins) : s \in Secret
        BY DEF Listed
      <3> QED BY <1>1, <2>4, <3>1 DEF BrowserInv, LateApart
    <2>9. BooksAgree'
      <3> SUFFICES ASSUME NEW s \in Derived \ (lost' \cup paid), ~Working(s)
                   PROVE  srv'[s] = "unspent" <=> s \in Secrets(Live)
        BY <1>1 DEF BooksAgree, Secrets, Live, Working
      <3>1. s \in Secret /\ s \notin Changed(req) /\ s \notin lost
        BY <1>3 DEF Secret
      <3>2. srv'[s] = srv[s]
        BY <2>1, <3>1 DEF Done
      <3> QED BY <3>1, <3>2 DEF BrowserInv, BooksAgree
    <2> QED BY <2>2, <2>3, <2>5, <2>6, <2>7, <2>8, <2>9 DEF BrowserInv
  <1>4. CASE UNCHANGED <<srv, worth, lost>>
    <2>1. BrowserTypeOK' /\ KnownWorth' /\ EntriesBacked' /\ OneEntryEach'
      BY <1>1, <1>4
      DEF BrowserInv, BrowserTypeOK, KnownWorth, EntriesBacked, OneEntryEach, Known
    <2>2. DepthsFollow' /\ FlowsApart'
      BY <1>1, <1>4 DEF BrowserInv, DepthsFollow, FlowsApart, Known
    <2>3. (\A g \in Flow : EffectInv(flow[g]))'
      <3>1. \A x \in Effect : EffectInv(x) => EffectInv(x)'
        BY <1>1, <1>4 DEF EffectInv, Proposed, Taken, Found, Known, Secrets
      <3> QED BY <1>1, <3>1, InvFacts
    <2>4. LateApart'
      BY <1>1, <1>4 DEF BrowserInv, LateApart, Known
    <2>5. BooksAgree'
      BY <1>1, <1>4 DEF BrowserInv, BooksAgree, Working, Secrets, Live
    <2> QED BY <2>1, <2>2, <2>3, <2>4, <2>5 DEF BrowserInv
  <1> QED BY <1>1, <1>3, <1>4

\* Others can only spend what is theirs, and no flow is to keep that.
LEMMA OthersSpendStep ==
  ASSUME BrowserInv, NEW s \in Foreign \cup paid, OthersSpend(s)
  PROVE  BrowserInv'
  <1>1. /\ srv[s] = "unspent" /\ srv' = [srv EXCEPT ![s] = "spent"]
        /\ UNCHANGED <<worth, state, flow, late, paid, lost>>
    BY DEF OthersSpend, SpentElsewhere
  <1>2. s \in Secret
    BY KnownFacts
  <1>3. /\ srv' \in [Secret -> Status] /\ srv'[s] = "spent"
        /\ \A k \in Secret \ {s} : srv'[k] = srv[k]
    BY <1>1, <1>2, InvFacts DEF Status
  <1>4. \A k \in Secret : Known(k)' <=> Known(k)
    BY <1>1, <1>3 DEF Known
  <1>5. BrowserTypeOK'
    BY <1>1, <1>3 DEF BrowserInv, BrowserTypeOK
  <1>6. KnownWorth'
    BY <1>1, <1>4, KnownFacts DEF BrowserInv, KnownWorth
  <1>7. \A k \in Secret : srv[k] = "spent" => srv'[k] = "spent"
    BY <1>3
  <1>8. EntriesBacked' /\ OneEntryEach'
    BY <1>1, <1>4, <1>7, InvFacts DEF BrowserInv, EntriesBacked, OneEntryEach, Output
  <1>9. DepthsFollow'
    BY <1>1, <1>4, DerivedSecret DEF BrowserInv, DepthsFollow
  <1>10. ASSUME NEW x \in Effect, EffectInv(x) PROVE EffectInv(x)'
    <2>1. /\ Listed(x.new) \subseteq Secret /\ Listed(x.ins) \subseteq Secret
          /\ x.keep \subseteq Derived /\ x.keep \subseteq Secret
      <3>1. x.keep \subseteq Derived
        BY <1>10 DEF EffectInv
      <3>2. x.keep \subseteq Secret
        BY DEF Effect
      <3> QED BY <3>1, <3>2 DEF Listed
    <2>2. Proposed(x) => Proposed(x)'
      BY <1>1 DEF Proposed
    <2>3. Taken(x) /\ Proposed(x) => Taken(x)'
      <3>1. Proposed(x) => s \notin x.keep
        <4>1. s \in paid => s[1] = "PAY"
          BY DEF BrowserInv, KnownWorth
        <4> QED BY <2>1, <4>1, ForeignAssumption DEF Proposed
      <3> QED BY <1>1, <1>3, <1>4, <1>7, <2>1, <3>1 DEF Taken, Secrets
    <2>4. Found(x) => Found(x)'
      <3> SUFFICES ASSUME Found(x), NEW k \in Listed(x.new)
                   PROVE  /\ k \in x.keep /\ Known(k)' /\ x.new[k] = worth[k]
                          /\ srv'[k] = "unspent" \/ k \in lost \cup paid
        BY <1>1 DEF Found
      <3>1. k = s => k \in paid
        BY <2>1, ForeignAssumption DEF Found
      <3>2. /\ k \in x.keep /\ Known(k) /\ x.new[k] = worth[k] /\ k \in Secret
            /\ srv[k] = "unspent" \/ k \in lost \cup paid
        BY <2>1 DEF Found
      <3> QED BY <1>3, <1>4, <3>1, <3>2
    <2> QED BY <1>4, <1>10, <2>1, <2>2, <2>3, <2>4 DEF EffectInv
  <1>11. (\A g \in Flow : EffectInv(flow[g]))'
    BY <1>1, <1>10, InvFacts
  <1>12. FlowsApart'
    BY <1>1 DEF BrowserInv, FlowsApart
  <1>13. LateApart'
    <2>1. \A r \in late : \A k \in Listed(r.ins) : k \in Secret
      BY DEF Listed
    <2> QED BY <1>1, <1>4, <2>1 DEF BrowserInv, LateApart
  <1>14. BooksAgree'
    <2> SUFFICES ASSUME NEW k \in Derived \ (lost \cup paid), ~Working(k)
                 PROVE  srv'[k] = "unspent" <=> k \in Secrets(Live)
      BY <1>1 DEF BooksAgree, Secrets, Live, Working
    <2>1. k # s /\ k \in Secret
      BY ForeignAssumption DEF Secret
    <2> QED BY <1>3, <2>1 DEF BrowserInv, BooksAgree
  <1> QED BY <1>5, <1>6, <1>8, <1>9, <1>11, <1>12, <1>13, <1>14 DEF BrowserInv

----------------------------------------------------------------------------
(* Theorems *)

LEMMA BrowserStep ==
  ASSUME RecoverApart, BrowserInv, [BrowserNext]_browserVars
  PROVE  BrowserInv'
  <1>1. ASSUME NEW f \in Flow, Prepare(f) PROVE BrowserInv'
    BY <1>1, PrepareInsertStep, PreparePayStep, PrepareMergeStep, PrepareMineStep,
       PrepareRecoverStep DEF Prepare
  <1>2. ASSUME NEW f \in Flow, Continue(f) PROVE BrowserInv'
    BY <1>2, ServerAcceptsStep, ServerRefusesStep, ServerChecksStep, ApplyReplaceStep,
       StoreMinedStep, ApplyRecoverStep, EffectLostStep DEF Continue
  <1>3. CASE UNCHANGED browserVars
    <2>1. UNCHANGED <<srv, worth, state, flow, late, paid, lost>>
      BY <1>3 DEF browserVars
    <2>2. BrowserTypeOK' /\ KnownWorth' /\ EntriesBacked' /\ OneEntryEach'
      BY <2>1 DEF BrowserInv, BrowserTypeOK, KnownWorth, EntriesBacked, OneEntryEach, Known
    <2>3. DepthsFollow' /\ FlowsApart' /\ LateApart'
      BY <2>1 DEF BrowserInv, DepthsFollow, FlowsApart, LateApart, Known
    <2>4. (\A g \in Flow : EffectInv(flow[g]))'
      <3>1. \A x \in Effect : EffectInv(x) => EffectInv(x)'
        BY <2>1 DEF EffectInv, Proposed, Taken, Found, Known, Secrets
      <3> QED BY <2>1, <3>1, InvFacts
    <2>5. BooksAgree'
      BY <2>1 DEF BrowserInv, BooksAgree, Working, Secrets, Live
    <2> QED BY <2>2, <2>3, <2>4, <2>5 DEF BrowserInv
  <1> QED BY <1>1, <1>2, <1>3, ReimportStep, LateRequestStep, OthersSpendStep
          DEF BrowserNext

\* However many flows a page has in progress, in whatever order they are
\* applied, and whichever are lost: each effect stays one that can be applied,
\* and the state, the effects and the server fit together as BrowserInv says,
\* in a page that calls recover only while no flow is in progress.
THEOREM BrowserInvAlways ==
  ASSUME RecoverApart
  PROVE  BrowserSpec => []BrowserInv
  <1>1. BrowserInit => BrowserInv
    BY BrowserInitInv
  <1>2. BrowserInv /\ [BrowserNext]_browserVars => BrowserInv'
    BY BrowserStep
  <1> QED BY <1>1, <1>2, PTL DEF BrowserSpec

\* Such a page's state holds no invented money, and throws none away: every
\* entry is of a secret the server knows, with the server's amount, and what is
\* marked spent is spent there.
THEOREM EntriesBackedAlways ==
  ASSUME RecoverApart
  PROVE  BrowserSpec => []EntriesBacked
  <1>1. BrowserInv => EntriesBacked
    BY DEF BrowserInv
  <1> QED BY <1>1, BrowserInvAlways, PTL

\* No apply adds an entry for a secret that has one, so no coin is counted twice.
THEOREM OneEntryEachAlways ==
  ASSUME RecoverApart
  PROVE  BrowserSpec => []OneEntryEach
  <1>1. BrowserInv => OneEntryEach
    BY DEF BrowserInv
  <1> QED BY <1>1, BrowserInvAlways, PTL

\* The entries that are not spent are the wallet's live money, but for what a
\* flow still has to apply and what was lost with its flow.
THEOREM BrowserBooksAgreeAlways ==
  ASSUME RecoverApart
  PROVE  BrowserSpec => []BooksAgree
  <1>1. BrowserInv => BooksAgree
    BY DEF BrowserInv
  <1> QED BY <1>1, BrowserInvAlways, PTL
=============================================================================
