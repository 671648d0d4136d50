---------------------------- MODULE MinerProofs ----------------------------
(***************************************************************************)
(* Proofs about one miner beside recover()s, or in turn with every call of *)
(* the wallet: what it has been or may yet be paid for is below the        *)
(* recorded depth, though refused reports burn depths; and a recover() of  *)
(* the only caller gets past the burned depths to all the money.           *)
(***************************************************************************)
EXTENDS WalletProofs, Miner, FiniteSetTheorems

----------------------------------------------------------------------------
(* One miner, and the calls of the wallet *)

OneMiner == \A m, n \in Mining : m = n

Offering == {"pay_sent", "pay_replaced", "merge_sent", "merge_replaced"}

\* What a call offers the server is on the chains it has read, never on that of
\* the mined outputs.
Proposes(l) ==
    /\ l.pc \in Inserting => \A s \in Listed(l.new) :
         s \in Derived /\ s = <<"RECEIVE", l.read["RECEIVE"]>>
    /\ l.pc \in Offering => \A s \in Listed(l.new) :
         s \in Derived /\ s \in {<<"PAY", l.read["PAY"]>>,
                                 <<"CHANGE", l.read["CHANGE"]>>}

\* Nor has a recover() anything to raise there: n is the recorded depth.
Behaves(l, n) ==
    /\ Proposes(l)
    /\ l.used["MINING"] <= n
    /\ l.pc = "recover_set" => l.chain # "MINING"

CallsBehave == \A t \in Task : Behaves(task[t], store.depth["MINING"])

LateBehave ==
    \A req \in late : \A d \in Depth : <<"MINING", d>> \notin Listed(req.new)

\* A miner that is between its read and its write of the depth is alone there,
\* and what it reports is on its chain.
MinersBehave ==
    \A m \in Mining :
        /\ miner[m].pc = "advance" =>
             miner[m].depth \in Depth /\ miner[m].depth = store.depth["MINING"]
        /\ Listed(miner[m].mined) \cup Listed(miner[m].extra)
             \subseteq {"MINING"} \X Depth

\* The inductive invariant behind MinerInv.
MineInv == MinerInv /\ CallsBehave /\ LateBehave /\ MinersBehave

\* A call of the only caller has read the depths that are recorded.
ReadsDepths(l, depth) ==
    /\ l.pc \in Inserting => l.read["RECEIVE"] = depth["RECEIVE"]
    /\ l.pc \in Offering => l.read = depth

\* The call t goes on as the invariants want it to.
Tame(t) ==
    \E l \in Locals :
        /\ task' = [task EXCEPT ![t] = l]
        /\ Behaves(l, store.depth["MINING"])
        /\ ReadsDepths(task[t], store.depth) => ReadsDepths(l, store'.depth)

LEMMA DepthTypes ==
  ASSUME TypeOK
  PROVE  /\ store \in Store /\ store.depth \in [Chain -> Nat]
         /\ store.depth["MINING"] \in Nat
         /\ task \in [Task -> Locals]
         /\ \A t \in Task : task[t] \in Locals
  BY DEF TypeOK, Store, Chain

LEMMA IdleBehaves ==
  ASSUME NEW n \in Nat
  PROVE  Behaves(Idle, n) /\ \A depth : ReadsDepths(Idle, depth)
  <1>1. Idle.pc = "idle" /\ Idle.used["MINING"] = 0
    BY DEF Idle, Chain
  <1> QED BY <1>1 DEF Behaves, Proposes, ReadsDepths, Inserting, Offering

LEMMA FinishTame ==
  ASSUME TypeOK, NEW t \in Task, Finish(t)
  PROVE  Tame(t)
  BY DepthTypes, IdleType, IdleBehaves DEF Finish, Tame

\* A step on within insert, or within pay and merge, or to where nothing is
\* offered.
LEMMA GotoTame ==
  ASSUME TypeOK, CallsBehave, NEW t \in Task,
         NEW pc \in PC \ {"recover_set"}, Goto(t, pc),
         store'.depth = store.depth,
         pc \in Inserting => task[t].pc \in Inserting,
         pc \in Offering => task[t].pc \in Offering
  PROVE  Tame(t)
  <1>1. PICK l \in Locals : l = task[t]
    BY DepthTypes
  <1>2. PICK m : m = [l EXCEPT !.pc = pc]
    OBVIOUS
  <1>3. task' = [task EXCEPT ![t] = m]
    BY <1>1, <1>2, DepthTypes DEF Goto
  <1>4. m \in Locals
    BY <1>2 DEF Locals
  <1>5. /\ m.pc = pc /\ m.new = l.new /\ m.read = l.read /\ m.used = l.used
        /\ m.chain = l.chain
    BY <1>2 DEF Locals
  <1>6. Behaves(l, store.depth["MINING"])
    BY <1>1 DEF CallsBehave
  <1>7. Proposes(m)
    BY <1>1, <1>5, <1>6 DEF Behaves, Proposes
  <1>8. Behaves(m, store.depth["MINING"])
    BY <1>5, <1>6, <1>7 DEF Behaves
  <1>9. ReadsDepths(l, store.depth) => ReadsDepths(m, store'.depth)
    BY <1>1, <1>5 DEF ReadsDepths
  <1> QED BY <1>1, <1>3, <1>4, <1>8, <1>9 DEF Tame

\* A step to where nothing is offered.
LEMMA QuietTame ==
  ASSUME TypeOK, NEW t \in Task, NEW l \in Locals,
         task' = [task EXCEPT ![t] = l],
         l.pc \notin Inserting \cup Offering,
         l.used["MINING"] <= store.depth["MINING"],
         l.pc = "recover_set" => l.chain # "MINING"
  PROVE  Tame(t)
  <1>1. Behaves(l, store.depth["MINING"])
    BY DEF Behaves, Proposes
  <1>2. ReadsDepths(l, store'.depth)
    BY DEF ReadsDepths
  <1> QED BY <1>1, <1>2 DEF Tame

----------------------------------------------------------------------------
(* The calls begin *)

LEMMA InsertBeginTame ==
  ASSUME TypeOK, NEW t \in Task, NEW s \in Foreign \cup paid,
         NEW validate \in BOOLEAN, InsertBegin(t, s, validate)
  PROVE  Tame(t)
  <1> DEFINE d == store.depth["RECEIVE"]
             a == IF s \in Foreign THEN FaceValue[s] ELSE worth[s]
             l == [Idle EXCEPT !.pc = IF validate THEN "insert_validate"
                                      ELSE "insert_sent",
                               !.ins = Coin(s, a),
                               !.new = Coin(<<"RECEIVE", d>>, a),
                               !.read = [@ EXCEPT !["RECEIVE"] = d]]
  <1>1. d \in Depth /\ task' = [task EXCEPT ![t] = l] /\ UNCHANGED store
    BY DEF InsertBegin, Begin
  <1>2. s \in Secret /\ <<"RECEIVE", d>> \in Secret /\ <<"RECEIVE", d>> \in Derived
    BY <1>1, DerivedSecret DEF TypeOK, Secret, Derived, Chain
  <1>3. a \in Amount
    BY <1>2, WalletAssumption DEF TypeOK
  <1>4. Coin(s, a) \in Coins /\ Coin(<<"RECEIVE", d>>, a) \in Coins
        /\ Listed(Coin(<<"RECEIVE", d>>, a)) \subseteq {<<"RECEIVE", d>>}
    <2> HIDE DEF a, d
    <2> QED BY <1>2, <1>3, CoinType, CoinListsOne
  <1>5. l \in Locals
    <2> HIDE DEF a, d
    <2>1. d \in Nat
      BY <1>1, MaxDepthAssumption DEF Depth
    <2>2. (IF validate THEN "insert_validate" ELSE "insert_sent") \in PC
      BY DEF PC, Checking, Sent
    <2> QED BY <2>1, <2>2, <1>4, IdleType DEF Locals
  <1>6. /\ l.new = Coin(<<"RECEIVE", d>>, a) /\ l.used = Idle.used
        /\ l.pc \in {"insert_validate", "insert_sent"}
        /\ l.read["RECEIVE"] = d
    BY DEF Idle, Chain
  <1> HIDE DEF l, a
  <1>7. l.pc \notin Offering /\ l.pc # "recover_set"
    BY <1>6 DEF Offering
  <1>8. Proposes(l)
    BY <1>2, <1>4, <1>6, <1>7 DEF Proposes
  <1>9. Behaves(l, store.depth["MINING"])
    BY <1>6, <1>7, <1>8, DepthTypes, IdleBehaves DEF Behaves
  <1>10. ReadsDepths(l, store'.depth)
    BY <1>1, <1>6, <1>7 DEF ReadsDepths
  <1> QED BY <1>1, <1>5, <1>9, <1>10 DEF Tame

LEMMA CallTame ==
  ASSUME TypeOK, NEW t \in Task, Call(t)
  PROVE  Tame(t)
  <1>1. store.amt \in [Secret -> Amount]
    BY DepthTypes DEF Store
  <1>2. CASE \E s \in Foreign \cup paid, v \in BOOLEAN : InsertBegin(t, s, v)
    BY <1>2, InsertBeginTame
  <1>3. CASE \E a \in Amount \ {0} : PayBegin(t, a)
    <2>1. PICK a \in Amount \ {0} : PayBegin(t, a)
      BY <1>3
    <2>2. PICK S \in Selections(a) :
             task' = [task EXCEPT ![t] = [Idle EXCEPT !.pc = "pay_selected",
                                                      !.ins = CoinsOf(S, store.amt),
                                                      !.amount = a]]
      BY <2>1 DEF PayBegin
    <2>3. PICK l : l = [Idle EXCEPT !.pc = "pay_selected",
                                    !.ins = CoinsOf(S, store.amt),
                                    !.amount = a]
      OBVIOUS
    <2>4. l \in Locals
      BY <1>1, <2>3, CoinsOfType, IdleType DEF Locals, PC, Other
    <2>5. l.pc = "pay_selected" /\ l.used = Idle.used
      BY <2>3 DEF Idle
    <2> QED BY <2>2, <2>3, <2>4, <2>5, QuietTame, DepthTypes, IdleBehaves
        DEF Behaves, Inserting, Offering
  <1>4. CASE MergeBegin(t)
    <2>1. PICK S :
             task' = [task EXCEPT ![t] = [Idle EXCEPT !.pc = "merge_selected",
                                                      !.ins = CoinsOf(S, store.amt)]]
      BY <1>4 DEF MergeBegin
    <2>2. PICK l : l = [Idle EXCEPT !.pc = "merge_selected",
                                    !.ins = CoinsOf(S, store.amt)]
      OBVIOUS
    <2>3. l \in Locals
      BY <1>1, <2>2, CoinsOfType, IdleType DEF Locals, PC, Other
    <2>4. l.pc = "merge_selected" /\ l.used = Idle.used
      BY <2>2 DEF Idle
    <2> QED BY <2>1, <2>2, <2>3, <2>4, QuietTame, DepthTypes, IdleBehaves
        DEF Behaves, Inserting, Offering
  <1>5. CASE RecoverBegin(t)
    <2>1. PICK l : l = [Idle EXCEPT !.pc = "scan", !.read = store.depth]
      OBVIOUS
    <2>2. l \in Locals
      BY <2>1, DepthTypes, IdleType DEF Locals, PC, Checking
    <2>3. l.pc = "scan" /\ l.used = Idle.used
      BY <2>1 DEF Idle
    <2> QED BY <1>5, <2>1, <2>2, <2>3, QuietTame, DepthTypes, IdleBehaves
        DEF RecoverBegin, Behaves, Inserting, Offering
  <1> QED BY <1>2, <1>3, <1>4, <1>5 DEF Call

----------------------------------------------------------------------------
(* The calls go on *)

LEMMA AnswersTame ==
  ASSUME TypeOK, CallsBehave, NEW t \in Task,
         \/ ServerReplaces(t) \/ ServerRefuses(t)
         \/ InsertValidate(t) \/ InsertStore(t) \/ InsertFallback(t)
  PROVE  Tame(t)
  <1>1. CASE ServerReplaces(t)
    <2>1. NextPC[task[t].pc] \in PC \ {"recover_set"}
      BY <1>1 DEF ServerReplaces, NextPC, Sent, PC, Replaced
    <2>2. /\ NextPC[task[t].pc] \in Inserting => task[t].pc \in Inserting
          /\ NextPC[task[t].pc] \in Offering => task[t].pc \in Offering
      BY <1>1 DEF ServerReplaces, NextPC, Sent, Inserting, Offering
    <2> QED BY <1>1, <2>1, <2>2, GotoTame DEF ServerReplaces
  <1>2. CASE ServerRefuses(t)
    BY <1>2, FinishTame, GotoTame
    DEF ServerRefuses, PC, Checking, Inserting, Offering
  <1>3. CASE InsertValidate(t)
    BY <1>3, FinishTame, GotoTame
    DEF InsertValidate, PC, Sent, Inserting, Offering
  <1>4. CASE InsertFallback(t)
    BY <1>4, FinishTame, GotoTame
    DEF InsertFallback, PC, Other, Inserting, Offering
  <1>5. CASE InsertStore(t)
    <2>1. CASE Finish(t)
      BY <2>1, FinishTame
    <2>2. CASE /\ Goto(t, "insert_stored")
               /\ \E s \in Listed(task[t].new) :
                    store' = insert_output(store, s, task[t].new[s])
      <3>1. store'.depth = store.depth
        BY <2>2, DepthTypes DEF insert_output, Store
      <3> QED BY <1>5, <2>2, <3>1, GotoTame
          DEF InsertStore, PC, Replaced, Inserting, Offering
    <2> QED BY <1>5, <2>1, <2>2 DEF InsertStore
  <1> QED BY <1>1, <1>2, <1>3, <1>4, <1>5

\* The outputs are on the chains they are read for, at the depths read.
LEMMA SendTame ==
  ASSUME TypeOK, CallsBehave, NEW t \in Task, PaySend(t) \/ MergeSend(t)
  PROVE  Tame(t)
  <1> DEFINE p == <<"PAY", store.depth["PAY"]>>
             q == <<"CHANGE", store.depth["CHANGE"]>>
  <1>1. PICK l \in Locals : l = task[t]
    BY DepthTypes
  <1>2. l.amount \in Amount
    BY DEF Locals
  <1>3. \A s \in Derived : s \in Secret
    BY DEF Secret
  <1>4. \E pc \in {"pay_sent", "merge_sent"}, new \in Coins :
          /\ Send(t, pc, new)
          /\ \A s \in Listed(new) : s \in Derived /\ s \in {p, q}
    <2> HIDE DEF p, q
    <2>1. CASE PaySend(t)
      <3>1. PICK change \in Amount :
              /\ p \in Derived /\ (change > 0 => q \in Derived)
              /\ Send(t, "pay_sent", IF change > 0
                                     THEN Updated(Coin(p, l.amount), Coin(q, change))
                                     ELSE Coin(p, l.amount))
        BY <1>1, <2>1 DEF PaySend, p, q
      <3>2. /\ Coin(p, l.amount) \in Coins
            /\ Listed(Coin(p, l.amount)) \subseteq {p}
        BY <1>2, <1>3, <3>1, CoinType, CoinListsOne
      <3>3. CASE change > 0
        <4>1. /\ Coin(q, change) \in Coins
              /\ Listed(Coin(q, change)) \subseteq {q}
          BY <1>3, <3>1, <3>3, CoinType, CoinListsOne
        <4>2. PICK new : new = Updated(Coin(p, l.amount), Coin(q, change))
          OBVIOUS
        <4>3. new \in Coins
          BY <3>2, <4>1, <4>2, UpdatedType
        <4>4. Listed(new) \subseteq {p, q}
          BY <3>2, <4>1, <4>2 DEF Listed, Updated
        <4> QED BY <3>1, <3>3, <4>2, <4>3, <4>4
      <3>4. CASE ~(change > 0)
        BY <3>1, <3>2, <3>4
      <3> QED BY <3>3, <3>4
    <2>2. CASE MergeSend(t)
      <3>1. PICK sum \in Amount : Send(t, "merge_sent", Coin(q, sum))
        BY <2>2 DEF MergeSend, q
      <3>2. q \in Derived
        BY <2>2 DEF MergeSend, q
      <3>3. Coin(q, sum) \in Coins /\ Listed(Coin(q, sum)) \subseteq {q}
        BY <1>3, <3>2, CoinType, CoinListsOne
      <3> QED BY <3>1, <3>2, <3>3
    <2> QED BY <2>1, <2>2
  <1>5. PICK pc \in {"pay_sent", "merge_sent"}, new \in Coins :
          /\ Send(t, pc, new)
          /\ \A s \in Listed(new) : s \in Derived /\ s \in {p, q}
    BY <1>4
  <1>6. PICK m : m = [l EXCEPT !.pc = pc, !.read = store.depth, !.new = new]
    OBVIOUS
  <1>7. m \in Locals
    BY <1>6, DepthTypes DEF Locals, PC, Sent
  <1>8. /\ m.pc = pc /\ m.read = store.depth /\ m.new = new
        /\ m.used = l.used
    BY <1>6 DEF Locals
  <1>9. task' = [task EXCEPT ![t] = m] /\ UNCHANGED store
    BY <1>1, <1>5, <1>6, DepthTypes DEF Send
  <1>10. Proposes(m)
    BY <1>5, <1>8 DEF Proposes, Inserting
  <1>11. Behaves(m, store.depth["MINING"])
    BY <1>1, <1>8, <1>10 DEF CallsBehave, Behaves
  <1>12. ReadsDepths(m, store'.depth)
    BY <1>8, <1>9 DEF ReadsDepths, Inserting
  <1> QED BY <1>7, <1>9, <1>11, <1>12 DEF Tame

\* A recover() finds nothing mined past the recorded depth.
LEMMA ScanTame ==
  ASSUME TypeOK, CallsBehave, RewardsCovered, NEW t \in Task, RecoverScan(t)
  PROVE  Tame(t)
  <1> DEFINE l == task[t]
  <1>1. l \in Locals /\ Behaves(l, store.depth["MINING"])
    BY DepthTypes DEF CallsBehave
  <1> DEFINE window == {d \in Depth : d >= l.from /\ d < l.from + GapLimit}
             hits == Hits(l.chain, window)
             live == {s \in Secret : /\ srv[s] = "unspent"
                                     /\ \E d \in hits : s = <<l.chain, d>>}
             k(top) == [l EXCEPT
                          !.used = [@ EXCEPT ![l.chain] = top],
                          !.new = Updated(@, CoinsOf(live, worth))]
  <1>2. PICK top \in 0 .. MaxDepth + 1 :
          /\ \/ hits = {} /\ top = l.used[l.chain]
             \/ top - 1 \in hits /\ \A d \in hits : d < top
          /\ task' = [task EXCEPT ![t] = ScanOn(k(top), hits # {})]
    BY DEF RecoverScan
  <1>3. l.pc = "scan" /\ UNCHANGED <<srv, worth, store, late, paid>>
    BY DEF RecoverScan
  <1> HIDE DEF l
  <1>4. top \in Nat
    BY <1>2, MaxDepthAssumption
  <1>5. l.chain = "MINING" => top <= store.depth["MINING"]
    <2>1. CASE top = l.used[l.chain]
      BY <1>1, <2>1 DEF Behaves
    <2>2. CASE top - 1 \in hits
      <3>1. top - 1 \in Depth /\ Known(<<l.chain, top - 1>>)
        BY <2>2 DEF Hits, Used
      <3>2. l.chain = "MINING" => top - 1 < store.depth["MINING"]
        BY <3>1 DEF RewardsCovered
      <3> QED BY <1>4, <3>1, <3>2, DepthTypes DEF Depth
    <2> QED BY <2>1, <2>2, <1>2
  <1>6. Updated(l.new, CoinsOf(live, worth)) \in Coins
    BY <1>1, CoinsOfType, UpdatedType DEF TypeOK, Locals
  <1>7. k(top) \in Locals
    <2> HIDE DEF live
    <2> QED BY <1>1, <1>4, <1>6 DEF Locals
  <1>8. k(top).pc = "scan" /\ k(top).used = [l.used EXCEPT ![l.chain] = top]
    BY <1>1, <1>3 DEF Locals
  <1> HIDE DEF k
  <1> DEFINE m == ScanOn(k(top), hits # {})
  <1>9. /\ m \in Locals /\ m.used = k(top).used
        /\ m.pc \in {"scan", "recover_store"}
    <2> HIDE DEF hits
    <2>1. (hits # {}) \in BOOLEAN
      OBVIOUS
    <2> QED BY <1>7, <1>8, <2>1, ScanOnType
  <1> HIDE DEF m
  <1>10. m.used["MINING"] <= store.depth["MINING"]
    <2>1. "MINING" \in Chain /\ l.used \in [Chain -> Nat]
      BY <1>1 DEF Locals, Chain
    <2> QED BY <1>1, <1>5, <1>8, <1>9, <2>1 DEF Behaves
  <1>11. task' = [task EXCEPT ![t] = m]
    BY <1>2 DEF m
  <1> QED BY <1>9, <1>10, <1>11, QuietTame DEF Inserting, Offering

LEMMA RecoverTame ==
  ASSUME TypeOK, CallsBehave, NEW t \in Task,
         \/ RecoverStore(t) \/ RecoverStored(t)
         \/ RecoverReadDepth(t) \/ RecoverSetDepth(t)
  PROVE  Tame(t)
  <1>1. PICK l \in Locals : l = task[t] /\ Behaves(l, store.depth["MINING"])
    BY DepthTypes DEF CallsBehave
  <1>2. l.used["MINING"] <= store.depth["MINING"]
    BY <1>1 DEF Behaves
  <1>3. CASE RecoverStore(t)
    <2>1. PICK s \in Listed(l.new) : task' = [task EXCEPT ![t].new = [@ EXCEPT ![s] = 0]]
      BY <1>1, <1>3 DEF RecoverStore
    <2>2. PICK m : m = [l EXCEPT !.new = [@ EXCEPT ![s] = 0]]
      OBVIOUS
    <2>3. m \in Locals
      BY <2>1, <2>2, MaxAmountAssumption DEF Locals, Coins, Amount, Listed
    <2>4. m.pc = "recover_store" /\ m.used = l.used
      BY <1>1, <1>3, <2>2 DEF RecoverStore, Locals
    <2>5. task' = [task EXCEPT ![t] = m]
      BY <1>1, <2>1, <2>2, DepthTypes
    <2> QED BY <1>2, <2>3, <2>4, <2>5, QuietTame DEF Inserting, Offering
  <1>4. CASE RecoverStored(t)
    BY <1>4, GotoTame DEF RecoverStored, PC, Other, Inserting, Offering
  <1>5. CASE task' = [task EXCEPT ![t] = NextChain(l)]
    <2>1. PICK m : m = NextChain(l)
      OBVIOUS
    <2>2. CASE l.chain \in DOMAIN ChainAfter
      <3>1. m \in Locals
        <4>1. ChainAfter[l.chain] \in Chain /\ "recover_depths" \in PC
          BY <2>2 DEF ChainAfter, Chain, PC, Other
        <4> QED BY <2>1, <2>2, <4>1 DEF NextChain, Locals
      <3>2. m.pc = "recover_depths" /\ m.used = l.used
        BY <2>1, <2>2 DEF NextChain, Locals
      <3> QED BY <1>2, <1>5, <2>1, <3>1, <3>2, QuietTame DEF Inserting, Offering
    <2>3. CASE l.chain \notin DOMAIN ChainAfter
      <3>1. m \in Locals
        BY <2>1, <2>3, IdleType DEF NextChain, Locals, PC, AtRest
      <3>2. m.pc = "recovered" /\ m.used = Idle.used
        BY <2>1, <2>3 DEF NextChain, Idle
      <3> QED BY <1>5, <2>1, <3>1, <3>2, QuietTame, DepthTypes, IdleBehaves
          DEF Behaves, Inserting, Offering
    <2> QED BY <2>2, <2>3
  <1>6. CASE RecoverReadDepth(t) /\ l.used[l.chain] > store.depth[l.chain]
    <2>1. task' = [task EXCEPT ![t] = [l EXCEPT !.pc = "recover_set"]]
      BY <1>1, <1>6 DEF RecoverReadDepth
    <2>2. PICK m : m = [l EXCEPT !.pc = "recover_set"]
      OBVIOUS
    <2>3. m \in Locals
      BY <2>2 DEF Locals, PC, Other
    <2>4. m.pc = "recover_set" /\ m.used = l.used /\ m.chain = l.chain
      BY <2>2 DEF Locals
    <2>5. l.chain # "MINING"
      <3>1. l.used["MINING"] \in Nat
        BY DEF Locals, Chain
      <3> QED BY <1>2, <1>6, <3>1, DepthTypes
    <2> QED BY <1>2, <2>1, <2>2, <2>3, <2>4, <2>5, QuietTame DEF Inserting, Offering
  <1>7. RecoverSetDepth(t) => task' = [task EXCEPT ![t] = NextChain(l)]
    BY <1>1 DEF RecoverSetDepth
  <1>8. RecoverReadDepth(t) /\ ~(l.used[l.chain] > store.depth[l.chain])
          => task' = [task EXCEPT ![t] = NextChain(l)]
    BY <1>1 DEF RecoverReadDepth
  <1> QED BY <1>3, <1>4, <1>5, <1>6, <1>7, <1>8

LEMMA AdvanceTame ==
  ASSUME TypeOK, CallsBehave, RewardsCovered, NEW t \in Task, Advance(t)
  PROVE  Tame(t)
  <1>1. CASE \/ ServerReplaces(t) \/ ServerRefuses(t)
             \/ InsertValidate(t) \/ InsertStore(t) \/ InsertFallback(t)
    BY <1>1, AnswersTame
  <1>2. CASE \/ InsertSetDepth(t) \/ InsertDirect(t)
             \/ PayCommit(t) \/ MergeCommit(t) \/ PastBounds(t)
    BY <1>2, FinishTame
    DEF InsertSetDepth, InsertDirect, PayCommit, MergeCommit, Commit, PastBounds
  <1>3. CASE PaySend(t) \/ MergeSend(t)
    BY <1>3, SendTame
  <1>4. CASE RecoverScan(t)
    BY <1>4, ScanTame
  <1>5. CASE \/ RecoverStore(t) \/ RecoverStored(t)
             \/ RecoverReadDepth(t) \/ RecoverSetDepth(t)
    BY <1>5, RecoverTame
  <1> QED BY <1>1, <1>2, <1>3, <1>4, <1>5 DEF Advance
----------------------------------------------------------------------------
(* The store, the server and the requests *)

\* A call leaves the recorded depth of the mined outputs alone, and of the depths
\* it has read it writes the successors.
LEMMA AdvanceStore ==
  ASSUME TypeOK, CallsBehave, NEW t \in Task, Advance(t)
  PROVE  /\ store' \in Store
         /\ store'.depth["MINING"] = store.depth["MINING"]
         /\ ReadsDepths(task[t], store.depth) /\ ~RecoverSetDepth(t) =>
              \A c \in Chain : store'.depth[c] >= store.depth[c]
  <1>1. PICK l \in Locals : l = task[t] /\ Behaves(l, store.depth["MINING"])
    BY DepthTypes DEF CallsBehave
  <1>2. store \in Store /\ \A c \in Chain : store.depth[c] \in Nat
    BY DepthTypes
  <1>3. /\ "RECEIVE" \in Chain /\ "MINING" \in Chain
        /\ \A c \in Chain : l.read[c] \in Nat /\ l.used[c] \in Nat
    BY DEF Locals, Chain
  <1>4. CASE store' = store
    BY <1>2, <1>4, <1>3
  <1>5. ASSUME NEW coins \in Coins, NEW s \in Listed(coins),
               store' = insert_output(store, s, coins[s])
        PROVE  store' \in Store /\ store'.depth = store.depth
    <2>1. s \in Secret /\ coins[s] \in Amount
      BY DEF Listed, Coins
    <2> QED BY <1>2, <1>5, <2>1, StoreOpsType
  <1>6. CASE InsertStore(t) \/ InsertDirect(t) \/ RecoverStore(t)
    <2>1. l.ins \in Coins /\ l.new \in Coins
      BY DEF Locals
    <2>2. CASE InsertStore(t)
      BY <1>1, <1>2, <1>3, <1>4, <1>5, <2>1, <2>2 DEF InsertStore
    <2>3. CASE InsertDirect(t)
      BY <1>1, <1>2, <1>3, <1>4, <1>5, <2>1, <2>3 DEF InsertDirect, store_directly
    <2>4. CASE RecoverStore(t)
      BY <1>1, <1>2, <1>3, <1>4, <1>5, <2>1, <2>4 DEF RecoverStore, store_directly
    <2> QED BY <1>6, <2>2, <2>3, <2>4
  <1>7. CASE InsertSetDepth(t)
    <2>1. /\ store' = set_depth(store, "RECEIVE", l.read["RECEIVE"] + 1)
          /\ l.pc \in Inserting
      BY <1>1, <1>7 DEF InsertSetDepth, Inserting
    <2>2. \A c \in Chain : store'.depth[c] = IF c = "RECEIVE" THEN l.read["RECEIVE"] + 1
                                             ELSE store.depth[c]
      BY <1>2, <1>3, <2>1, StoreOpsType
    <2>3. store' \in Store
      BY <1>2, <1>3, <2>1, StoreOpsType
    <2> QED BY <1>1, <1>2, <1>3, <2>1, <2>2, <2>3 DEF ReadsDepths
  <1>8. CASE RecoverSetDepth(t)
    <2>1. /\ store' = set_depth(store, l.chain, l.used[l.chain])
          /\ l.chain \in Chain /\ l.chain # "MINING"
      BY <1>1, <1>8 DEF RecoverSetDepth, Behaves, Locals
    <2>2. store' \in Store /\ store'.depth["MINING"] = store.depth["MINING"]
      BY <1>2, <1>3, <2>1, StoreOpsType
    <2> QED BY <1>8, <2>2
  <1>9. CASE /\ PayCommit(t) \/ MergeCommit(t)
             /\ store' = Recorded(t)
    <2>1. l.pc \in Offering
      BY <1>1, <1>9 DEF PayCommit, MergeCommit, Offering
    <2>2. \A s \in Listed(l.new) : s[1] \in {"PAY", "CHANGE"}
      BY <1>1, <2>1 DEF Behaves, Proposes
    <2> DEFINE ms == mark_spent(store, Listed(l.ins))
    <2>3. ms \in Store /\ ms.depth = store.depth
      BY <1>2 DEF mark_spent, Store, RowState, Listed
    <2>4. RowsWith(ms.row, Kept(t)) \in [Secret -> RowState]
      BY <2>3 DEF RowsWith, Store, RowState
    <2>5. Updated(ms.amt, CoinsOf(Kept(t), l.new)) \in [Secret -> Amount]
      BY <2>3, CoinsOfType, UpdatedType DEF Store, Locals, Coins
    <2>6. DepthsPast(t, ms.depth) \in [Chain -> Nat]
      BY <1>1, <1>3, <2>3 DEF DepthsPast, Store
    <2> HIDE DEF ms
    <2>7. Recorded(t) = [ms EXCEPT
             !.row   = RowsWith(ms.row, Kept(t)),
             !.amt   = Updated(ms.amt, CoinsOf(Kept(t), l.new)),
             !.depth = DepthsPast(t, ms.depth)]
      BY <1>1, <2>3 DEF Recorded, ms, Store
    <2>8. Recorded(t) \in Store /\ Recorded(t).depth = DepthsPast(t, ms.depth)
      BY <2>3, <2>4, <2>5, <2>6, <2>7 DEF Store
    <2>9. \A c \in Chain :
            store'.depth[c] = IF \E s \in Listed(l.new) : s[1] = c
                              THEN l.read[c] + 1 ELSE store.depth[c]
      BY <1>1, <1>9, <2>3, <2>8 DEF DepthsPast
    <2>10. store'.depth["MINING"] = store.depth["MINING"]
      BY <1>3, <2>2, <2>9
    <2>11. ReadsDepths(l, store.depth) =>
             \A c \in Chain : store'.depth[c] >= store.depth[c]
      BY <1>2, <1>3, <2>1, <2>9 DEF ReadsDepths
    <2> QED BY <1>1, <1>9, <2>8, <2>10, <2>11
  <1>10. \/ store' = store
         \/ InsertStore(t) \/ InsertDirect(t) \/ RecoverStore(t)
         \/ InsertSetDepth(t) \/ RecoverSetDepth(t)
         \/ (PayCommit(t) \/ MergeCommit(t)) /\ store' = Recorded(t)
    BY DEF Advance, ServerReplaces, ServerRefuses, InsertValidate, InsertFallback,
       PaySend, PayCommit, MergeSend, MergeCommit, Commit, Send, PastBounds,
       RecoverScan, RecoverStored, RecoverReadDepth
  <1> QED BY <1>4, <1>6, <1>7, <1>8, <1>9, <1>10

\* What a request at the server offers.
LEMMA OffersNothingMined ==
  ASSUME TypeOK, CallsBehave, NEW t \in Task, task[t].pc \in Sent
  PROVE  /\ RequestOf(t) \in Request
         /\ \A d \in Depth : <<"MINING", d>> \notin Listed(RequestOf(t).new)
         /\ \A s \in Listed(RequestOf(t).new) :
              \E c \in Chain : s = <<c, task[t].read[c]>>
         /\ ReadsDepths(task[t], store.depth) =>
              \A s \in Listed(RequestOf(t).new) :
                \E c \in Chain : s = <<c, store.depth[c]>>
  <1>1. PICK l \in Locals : l = task[t] /\ Behaves(l, store.depth["MINING"])
    BY DepthTypes DEF CallsBehave
  <1>2. RequestOf(t) \in Request /\ RequestOf(t).new = l.new
    BY <1>1 DEF RequestOf, Request, Locals
  <1>3. {"RECEIVE", "PAY", "CHANGE"} \subseteq Chain
    BY DEF Chain
  <1>4. CASE l.pc \in Inserting
    <2>1. \A s \in Listed(l.new) : s = <<"RECEIVE", l.read["RECEIVE"]>>
      BY <1>1, <1>4 DEF Behaves, Proposes
    <2> QED BY <1>1, <1>2, <1>3, <1>4, <2>1 DEF ReadsDepths
  <1>5. CASE l.pc \in Offering
    <2>1. \A s \in Listed(l.new) : s \in {<<"PAY", l.read["PAY"]>>,
                                          <<"CHANGE", l.read["CHANGE"]>>}
      BY <1>1, <1>5 DEF Behaves, Proposes
    <2> QED BY <1>1, <1>2, <1>3, <1>5, <2>1 DEF ReadsDepths
  <1> QED BY <1>1, <1>4, <1>5 DEF Sent, Inserting, Offering

\* The server takes no mined output for known that it has not minted.
NothingMined == \A d \in Depth : Known(<<"MINING", d>>)' => Known(<<"MINING", d>>)

LedgerOK == srv' \in [Secret -> Status] /\ worth' \in [Secret -> Amount]

LEMMA ReplaceMinesNothing ==
  ASSUME TypeOK, NEW req \in Request, Replaceable(req), Replace(req),
         \A d \in Depth : <<"MINING", d>> \notin Listed(req.new)
  PROVE  LedgerOK /\ NothingMined
  <1>1. worth' \in [Secret -> Amount]
    BY UpdatedType DEF TypeOK, Replace, Request, Coins
  <1>2. srv' \in [Secret -> Status]
    BY DEF TypeOK, Replace, Status
  <1>3. \A s \in Secret : Known(s)' <=> Known(s) \/ s \in Listed(req.new)
    BY ReplaceGrows
  <1>4. "MINING" \in Chain
    BY DEF Chain
  <1> QED BY <1>1, <1>2, <1>3, <1>4, DerivedSecret DEF LedgerOK, NothingMined

LEMMA LedgerStands ==
  ASSUME TypeOK, UNCHANGED <<srv, worth>>
  PROVE  LedgerOK /\ NothingMined
  BY DEF TypeOK, LedgerOK, NothingMined, Known

LEMMA AdvanceLedger ==
  ASSUME TypeOK, CallsBehave, NEW t \in Task, Advance(t)
  PROVE  LedgerOK /\ NothingMined
  <1>1. CASE ServerReplaces(t)
    BY <1>1, OffersNothingMined, ReplaceMinesNothing DEF ServerReplaces
  <1>2. CASE ~ServerReplaces(t)
    <2>1. UNCHANGED <<srv, worth>>
      BY <1>2 DEF Advance, ServerRefuses, InsertValidate, InsertStore,
         InsertSetDepth, InsertFallback, InsertDirect, PaySend, PayCommit,
         MergeSend, MergeCommit, Send, PastBounds, RecoverScan, RecoverStore,
         RecoverStored, RecoverReadDepth, RecoverSetDepth
    <2> QED BY <2>1, LedgerStands
  <1> QED BY <1>1, <1>2

LEMMA AdvancePaid ==
  ASSUME TypeOK, CallsBehave, NEW t \in Task, Advance(t)
  PROVE  paid' \subseteq {"PAY"} \X Depth
  <1>1. CASE PayCommit(t)
    <2>1. task[t].pc \in Offering
      BY <1>1 DEF PayCommit, Offering
    <2>2. \A s \in Listed(task[t].new) : s \in Derived /\ s[1] \in {"PAY", "CHANGE"}
      BY <2>1 DEF CallsBehave, Behaves, Proposes
    <2>3. \A s \in Listed(task[t].new) \ Kept(t) : s \in {"PAY"} \X Depth
      BY <2>2 DEF Kept, Derived
    <2> QED BY <1>1, <2>3 DEF PayCommit, TypeOK
  <1>2. CASE ~PayCommit(t)
    <2>1. paid' = paid
      BY <1>2 DEF Advance, ServerReplaces, ServerRefuses, InsertValidate, InsertStore,
         InsertSetDepth, InsertFallback, InsertDirect, PaySend,
         MergeSend, MergeCommit, Send, PastBounds, RecoverScan, RecoverStore,
         RecoverStored, RecoverReadDepth, RecoverSetDepth
    <2> QED BY <2>1 DEF TypeOK
  <1> QED BY <1>1, <1>2

LEMMA AdvanceLate ==
  ASSUME NEW t \in Task, Advance(t)
  PROVE  late' = late
  BY DEF Advance, ServerReplaces, ServerRefuses, InsertValidate, InsertStore,
     InsertSetDepth, InsertFallback, InsertDirect, PaySend, PayCommit, MergeSend,
     MergeCommit, Send, PastBounds, RecoverScan, RecoverStore, RecoverStored,
     RecoverReadDepth, RecoverSetDepth
----------------------------------------------------------------------------
(* MineInv is inductive *)

LEMMA TameCalls ==
  ASSUME TypeOK, CallsBehave, NEW t \in Task, Tame(t),
         store'.depth["MINING"] = store.depth["MINING"]
  PROVE  task' \in [Task -> Locals] /\ CallsBehave'
  <1>1. PICK l \in Locals : /\ task' = [task EXCEPT ![t] = l]
                            /\ Behaves(l, store.depth["MINING"])
    BY DEF Tame
  <1>2. task' \in [Task -> Locals]
    BY <1>1, DepthTypes
  <1>3. ASSUME NEW u \in Task PROVE Behaves(task'[u], store.depth["MINING"])
    <2>1. task'[u] = l \/ task'[u] = task[u]
      BY <1>1, DepthTypes
    <2> QED BY <1>1, <2>1 DEF CallsBehave
  <1> QED BY <1>2, <1>3 DEF CallsBehave

LEMMA IdleCalls ==
  ASSUME TypeOK, store' = store, task' \in [Task -> Locals],
         \A u \in Task : task'[u] \in {Idle, task[u]}, CallsBehave
  PROVE  CallsBehave'
  BY DepthTypes, IdleBehaves DEF CallsBehave

\* A step of the wallet, to what the miners know.
LEMMA MineStands ==
  ASSUME MineInv, UNCHANGED <<miner, reported, alone>>,
         TypeOK', CallsBehave', LateBehave', NothingMined,
         store'.depth["MINING"] = store.depth["MINING"]
  PROVE  MineInv'
  <1>1. MinerTypeOK'
    BY DEF MineInv, MinerInv, MinerTypeOK
  <1>2. RewardsCovered'
    BY DEF MineInv, MinerInv, RewardsCovered, NothingMined, Pending, ReportOf
  <1>3. MinersBehave'
    BY DEF MineInv, MinersBehave
  <1> QED BY <1>1, <1>2, <1>3 DEF MineInv, MinerInv

LEMMA MineCall ==
  ASSUME MineInv, NEW t \in Task, Call(t), UNCHANGED <<miner, reported, alone>>
  PROVE  MineInv'
  <1>1. TypeOK /\ CallsBehave /\ LateBehave
    BY DEF MineInv, MinerInv, MinerTypeOK
  <1>2. UNCHANGED <<srv, worth, store, late, paid>>
    BY DEF Call, InsertBegin, PayBegin, MergeBegin, RecoverBegin, Begin
  <1>3. task' \in [Task -> Locals] /\ CallsBehave'
    BY <1>1, <1>2, CallTame, TameCalls
  <1>4. TypeOK'
    BY <1>1, <1>2, <1>3 DEF TypeOK
  <1>5. NothingMined /\ LateBehave'
    BY <1>1, <1>2, LedgerStands DEF LateBehave
  <1> QED BY <1>2, <1>3, <1>4, <1>5, MineStands

LEMMA MineAdvance ==
  ASSUME MineInv, NEW t \in Task, Advance(t), UNCHANGED <<miner, reported, alone>>
  PROVE  MineInv'
  <1>1. TypeOK /\ CallsBehave /\ LateBehave /\ RewardsCovered
    BY DEF MineInv, MinerInv, MinerTypeOK
  <1>2. store' \in Store /\ store'.depth["MINING"] = store.depth["MINING"]
    BY <1>1, AdvanceStore
  <1>3. task' \in [Task -> Locals] /\ CallsBehave'
    BY <1>1, <1>2, AdvanceTame, TameCalls
  <1>4. late' = late /\ LedgerOK /\ NothingMined /\ paid' \subseteq {"PAY"} \X Depth
    BY <1>1, AdvanceLate, AdvanceLedger, AdvancePaid
  <1>5. TypeOK' /\ LateBehave'
    BY <1>1, <1>2, <1>3, <1>4 DEF TypeOK, LedgerOK, LateBehave
  <1> QED BY <1>2, <1>3, <1>4, <1>5, MineStands

LEMMA AbandonedBehave ==
  ASSUME TypeOK, CallsBehave, LateBehave,
         late' \subseteq late \cup
                  {RequestOf(u) : u \in {v \in Task : task[v].pc \in Sent}}
  PROVE  late' \subseteq Request /\ LateBehave'
  BY OffersNothingMined DEF TypeOK, LateBehave

LEMMA MineGiveUp ==
  ASSUME MineInv, NEW t \in Task, GiveUp(t), UNCHANGED <<miner, reported, alone>>
  PROVE  MineInv'
  <1>1. TypeOK /\ CallsBehave /\ LateBehave
    BY DEF MineInv, MinerInv, MinerTypeOK
  <1>2. late' \subseteq late \cup
                  {RequestOf(u) : u \in {v \in Task : task[v].pc \in Sent}}
    BY DEF GiveUp, Abandoned
  <1>3. UNCHANGED <<srv, worth, store, paid>>
    BY DEF GiveUp
  <1>4. task' \in [Task -> Locals] /\ \A u \in Task : task'[u] \in {Idle, task[u]}
    BY <1>1, IdleType DEF GiveUp, Finish, TypeOK
  <1>5. CallsBehave'
    BY <1>1, <1>3, <1>4, IdleCalls
  <1>6. TypeOK' /\ LateBehave' /\ NothingMined
    BY <1>1, <1>2, <1>3, <1>4, AbandonedBehave, LedgerStands DEF TypeOK
  <1> QED BY <1>3, <1>5, <1>6, MineStands

LEMMA MineLateReplace ==
  ASSUME MineInv, NEW req \in late, LateReplace(req),
         UNCHANGED <<miner, reported, alone>>
  PROVE  MineInv'
  <1>1. TypeOK /\ CallsBehave /\ LateBehave
    BY DEF MineInv, MinerInv, MinerTypeOK
  <1>2. late' \subseteq late /\ UNCHANGED <<store, task, paid>> /\ req \in Request
    BY <1>1 DEF LateReplace, TypeOK
  <1>3. LedgerOK /\ NothingMined
    BY <1>1, <1>2, ReplaceMinesNothing, LedgerStands
    DEF LateReplace, LateBehave, ledgerVars
  <1>4. TypeOK' /\ LateBehave' /\ CallsBehave'
    BY <1>1, <1>2, <1>3 DEF TypeOK, LedgerOK, LateBehave, CallsBehave
  <1> QED BY <1>2, <1>3, <1>4, MineStands

LEMMA MineOthersSpend ==
  ASSUME MineInv, NEW s \in Foreign \cup paid, OthersSpend(s),
         UNCHANGED <<miner, reported, alone>>
  PROVE  MineInv'
  <1>1. TypeOK /\ CallsBehave /\ LateBehave
    BY DEF MineInv, MinerInv, MinerTypeOK
  <1>2. /\ srv[s] = "unspent" /\ srv' = [srv EXCEPT ![s] = "spent"]
        /\ UNCHANGED <<worth, store, task, late, paid>>
    BY DEF OthersSpend, SpentElsewhere
  <1>3. TypeOK'
    BY <1>1, <1>2 DEF TypeOK, Status
  <1>4. NothingMined
    <2>1. \A x \in Secret : Known(x)' => Known(x)
      BY <1>1, <1>2 DEF Known, TypeOK
    <2> QED BY <2>1, DerivedSecret DEF NothingMined, Chain
  <1>5. LateBehave' /\ CallsBehave'
    BY <1>1, <1>2 DEF LateBehave, CallsBehave
  <1> QED BY <1>2, <1>3, <1>4, <1>5, MineStands

LEMMA MineWalletStep ==
  ASSUME MineInv, WalletStep
  PROVE  MineInv'
  <1>1. ASSUME NEW t \in Task, Call(t) PROVE MineInv'
    BY <1>1, MineCall DEF WalletStep
  <1>2. ASSUME NEW t \in Task, RecoverBegin(t) PROVE MineInv'
    BY <1>1, <1>2 DEF Call
  <1>3. ASSUME Progress PROVE MineInv'
    BY <1>3, MineAdvance, MineGiveUp, MineLateReplace, MineOthersSpend
    DEF WalletStep, Progress
  <1> QED BY <1>1, <1>2, <1>3 DEF WalletStep
----------------------------------------------------------------------------
(* The miners *)

LEMMA RestType ==
  /\ Rest \in Working /\ Rest.pc = "rest"
  /\ Listed(Rest.mined) = {} /\ Listed(Rest.extra) = {}
  <1>1. NoCoins \in Coins /\ 0 \in Amount
    BY MaxAmountAssumption DEF NoCoins, Coins, Amount
  <1> QED BY <1>1, NothingListed DEF Rest, Working

LEMMA UpdatedLists ==
  ASSUME NEW old \in Coins, NEW new \in Coins
  PROVE  Listed(Updated(old, new)) = Listed(old) \cup Listed(new)
  BY DEF Listed, Updated, Coins

LEMMA ReportLists ==
  ASSUME NEW m \in Mining, miner[m] \in Working
  PROVE  /\ ReportOf(m) \in Coins
         /\ Listed(ReportOf(m)) = Listed(miner[m].mined) \cup Listed(miner[m].extra)
  BY UpdatedType, UpdatedLists DEF ReportOf, Working

\* What may be minted after a miner's step was to be minted before, or is what it
\* has just taken.
LEMMA PendingAfter ==
  ASSUME MinerTypeOK, NEW m \in Mining, NEW w \in Working,
         miner' = [miner EXCEPT ![m] = w],
         reported' \subseteq reported \cup
           {ReportOf(n) : n \in {k \in Mining : miner[k].pc = "report"}},
         NEW s, Pending(s)'
  PROVE  \/ Pending(s)
         \/ w.pc # "rest" /\ s \in Listed(w.mined) \cup Listed(w.extra)
  <1>1. miner \in [Mining -> Working]
    BY DEF MinerTypeOK
  <1>2. CASE \E n \in Mining : miner'[n].pc # "rest" /\ s \in Listed(ReportOf(n)')
    <2>1. PICK n \in Mining : miner'[n].pc # "rest" /\ s \in Listed(ReportOf(n)')
      BY <1>2
    <2>2. CASE n = m
      <3>1. miner'[n] = w
        BY <1>1, <2>2
      <3>2. Listed(Updated(w.mined, w.extra)) = Listed(w.mined) \cup Listed(w.extra)
        BY UpdatedLists DEF Working
      <3> QED BY <2>1, <3>1, <3>2 DEF ReportOf
    <2>3. CASE n # m
      <3>1. miner'[n] = miner[n]
        BY <1>1, <2>3
      <3> QED BY <2>1, <3>1 DEF ReportOf, Pending
    <2> QED BY <2>2, <2>3
  <1>3. CASE \E coins \in reported' : s \in Listed(coins)
    BY <1>3 DEF Pending
  <1> QED BY <1>2, <1>3 DEF Pending, Listed

\* A step of a miner to which the store and the server pay no attention.
LEMMA MinerMoves ==
  ASSUME MineInv, NEW m \in Mining, NEW w \in Working,
         miner' = [miner EXCEPT ![m] = w],
         UNCHANGED <<srv, worth, store, late, paid, alone>>,
         task' = task \/ task' = [t \in Task |-> Idle],
         reported' \subseteq reported \cup
           {ReportOf(n) : n \in {k \in Mining : miner[k].pc = "report"}},
         w.pc = "advance" => w.depth \in Depth /\ w.depth = store.depth["MINING"],
         \/ Listed(w.mined) = {} /\ Listed(w.extra) = {}
         \/ miner[m].pc # "rest" /\ w.mined = miner[m].mined /\ w.extra = miner[m].extra
  PROVE  MineInv'
  <1>1. MinerTypeOK /\ TypeOK /\ RewardsCovered /\ CallsBehave /\ LateBehave
        /\ MinersBehave
    BY DEF MineInv, MinerInv, MinerTypeOK
  <1>2. miner \in [Mining -> Working] /\ reported \subseteq Coins
    BY <1>1 DEF MinerTypeOK
  <1>3. task' \in [Task -> Locals] /\ \A u \in Task : task'[u] \in {Idle, task[u]}
    BY <1>1, IdleType DEF TypeOK
  <1>4. CallsBehave' /\ TypeOK'
    BY <1>1, <1>3, IdleCalls DEF TypeOK
  <1>5. miner' \in [Mining -> Working] /\ reported' \subseteq Coins
    BY <1>2, ReportLists
  <1>6. ASSUME NEW s, Pending(s)' PROVE Pending(s)
    <2>1. Listed(miner[m].mined) \cup Listed(miner[m].extra) = Listed(ReportOf(m))
      BY <1>2, ReportLists
    <2> QED BY <1>1, <1>6, <2>1, PendingAfter DEF Pending
  <1>7. RewardsCovered'
    BY <1>1, <1>6 DEF RewardsCovered, Known
  <1>8. MinersBehave'
    <2>1. ASSUME NEW n \in Mining
          PROVE  /\ miner'[n].pc = "advance" =>
                      /\ miner'[n].depth \in Depth
                      /\ miner'[n].depth = store.depth["MINING"]
                 /\ Listed(miner'[n].mined) \cup Listed(miner'[n].extra)
                      \subseteq {"MINING"} \X Depth
      <3>1. CASE n = m
        <4>1. miner'[n] = w
          BY <1>2, <3>1
        <4> QED BY <1>1, <4>1 DEF MinersBehave
      <3>2. CASE n # m
        <4>1. miner'[n] = miner[n]
          BY <1>2, <3>2
        <4> QED BY <1>1, <4>1 DEF MinersBehave
      <3> QED BY <3>1, <3>2
    <2> QED BY <2>1 DEF MinersBehave
  <1>9. LateBehave'
    BY <1>1 DEF LateBehave
  <1> QED BY <1>1, <1>4, <1>5, <1>7, <1>8, <1>9 DEF MineInv, MinerInv, MinerTypeOK

LEMMA MineMoves ==
  ASSUME MineInv, NEW m \in Mining,
         \/ MineBegin(m) \/ ReadDepth(m) \/ ReportRefused(m)
         \/ MinePastBounds(m) \/ MineGivesUp(m)
  PROVE  MineInv'
  <1>1. miner \in [Mining -> Working] /\ miner[m] \in Working /\ TypeOK
    BY DEF MineInv, MinerInv, MinerTypeOK
  <1>2. CASE MineBegin(m)
    <2>1. PICK reward \in Reward, subsidy \in Subsidy :
            miner' = [miner EXCEPT ![m] = [Rest EXCEPT !.pc = "read",
                                                       !.reward = reward,
                                                       !.subsidy = subsidy]]
      BY <1>2 DEF MineBegin
    <2>2. PICK w : w = [Rest EXCEPT !.pc = "read", !.reward = reward,
                                    !.subsidy = subsidy]
      OBVIOUS
    <2>3. reward \in Amount /\ subsidy \in Amount
      BY MinerAssumption
    <2>4. w \in Working /\ w.pc = "read" /\ w.mined = Rest.mined /\ w.extra = Rest.extra
      BY <2>2, <2>3, RestType DEF Rest, Working
    <2>5. task' = task \/ task' = [t \in Task |-> Idle]
      <3>1. CASE alone
        BY <1>2, <3>1 DEF MineBegin
      <3>2. CASE ~alone
        BY <1>1, <1>2, <3>2 DEF MineBegin, TypeOK
      <3> QED BY <3>1, <3>2
    <2>6. UNCHANGED <<srv, worth, store, late, paid, reported, alone>>
      BY <1>2 DEF MineBegin
    <2> QED BY <2>1, <2>2, <2>4, <2>5, <2>6, RestType, MinerMoves
  <1>3. CASE ReadDepth(m)
    <2>1. PICK w : w = [miner[m] EXCEPT !.pc = "advance",
                                        !.depth = store.depth["MINING"]]
      OBVIOUS
    <2>2. /\ miner' = [miner EXCEPT ![m] = w] /\ miner[m].pc = "read"
          /\ store.depth["MINING"] \in Depth /\ UNCHANGED <<vars, reported, alone>>
      BY <1>3, <2>1 DEF ReadDepth
    <2>3. w \in Working
      BY <1>1, <2>1, DepthTypes DEF Working
    <2>4. /\ w.pc = "advance" /\ w.depth = store.depth["MINING"]
          /\ w.mined = miner[m].mined /\ w.extra = miner[m].extra
      BY <1>1, <2>1 DEF Working
    <2> QED BY <2>2, <2>3, <2>4, MinerMoves DEF vars
  <1>4. CASE ReportRefused(m) \/ MinePastBounds(m) \/ MineGivesUp(m)
    <2>1. miner' = [miner EXCEPT ![m] = Rest] /\ UNCHANGED <<vars, alone>>
      BY <1>4 DEF ReportRefused, MinePastBounds, MineGivesUp
    <2>2. reported' \subseteq reported \cup
            {ReportOf(n) : n \in {k \in Mining : miner[k].pc = "report"}}
      BY <1>4 DEF ReportRefused, MinePastBounds, MineGivesUp, LeftBehind
    <2> QED BY <2>1, <2>2, RestType, MinerMoves DEF vars
  <1> QED BY <1>2, <1>3, <1>4
\* A higher depth of the mined outputs disturbs no call.
LEMMA HigherBehave ==
  ASSUME TypeOK, CallsBehave, store'.depth["MINING"] \in Nat,
         store'.depth["MINING"] >= store.depth["MINING"], task' = task
  PROVE  CallsBehave'
  <1>1. ASSUME NEW t \in Task
        PROVE  Behaves(task[t], store'.depth["MINING"])
    <2>1. PICK l \in Locals : l = task[t] /\ Behaves(l, store.depth["MINING"])
      BY DepthTypes DEF CallsBehave
    <2>2. l.used["MINING"] \in Nat /\ l.used["MINING"] <= store.depth["MINING"]
      BY <2>1 DEF Behaves, Locals, Chain
    <2>3. l.used["MINING"] <= store'.depth["MINING"]
      BY <2>2, DepthTypes
    <2> QED BY <2>1, <2>3 DEF Behaves
  <1> QED BY <1>1 DEF CallsBehave

LEMMA MineSetDepth ==
  ASSUME OneMiner, MineInv, NEW m \in Mining, SetDepth(m)
  PROVE  /\ MineInv'
         /\ \A c \in Chain : store'.depth[c] >= store.depth[c]
         /\ store'.row = store.row
  <1>1. MinerTypeOK /\ TypeOK /\ RewardsCovered /\ CallsBehave /\ LateBehave
        /\ MinersBehave
    BY DEF MineInv, MinerInv, MinerTypeOK
  <1>2. miner \in [Mining -> Working] /\ reported \subseteq Coins
    BY <1>1 DEF MinerTypeOK
  <1>3. PICK v \in Working : v = miner[m]
    BY <1>2
  <1>4. /\ v.pc = "advance" /\ v.depth \in Depth /\ v.depth = store.depth["MINING"]
        /\ Listed(v.mined) \cup Listed(v.extra) \subseteq {"MINING"} \X Depth
    BY <1>1, <1>3 DEF SetDepth, MinersBehave
  <1> DEFINE s == <<"MINING", v.depth>>
  <1>5. s \in Secret /\ s \in {"MINING"} \X Depth
    BY <1>4, DerivedSecret DEF Chain
  <1>6. \E w \in Working :
          /\ miner' = [miner EXCEPT ![m] = w]
          /\ w.pc # "advance"
          /\ Listed(w.mined) \cup Listed(w.extra)
               \subseteq Listed(v.mined) \cup Listed(v.extra) \cup {s}
    <2>1. CASE v.mined = NoCoins
      <3>1. PICK w : w = [v EXCEPT !.pc = IF v.subsidy > 0 THEN "read" ELSE "report",
                                   !.mined = Coin(s, v.reward)]
        OBVIOUS
      <3>2. Coin(s, v.reward) \in Coins /\ Listed(Coin(s, v.reward)) \subseteq {s}
        BY <1>5, CoinType, CoinListsOne DEF Working
      <3>3. w \in Working
        BY <3>1, <3>2 DEF Working
      <3>4. w.mined = Coin(s, v.reward) /\ w.extra = v.extra /\ w.pc # "advance"
        BY <3>1 DEF Working
      <3>5. miner' = [miner EXCEPT ![m] = w]
        BY <1>3, <2>1, <3>1 DEF SetDepth
      <3> QED BY <3>2, <3>3, <3>4, <3>5
    <2>2. CASE v.mined # NoCoins
      <3>1. PICK w : w = [v EXCEPT !.pc = "report", !.extra = Coin(s, v.subsidy)]
        OBVIOUS
      <3>2. Coin(s, v.subsidy) \in Coins /\ Listed(Coin(s, v.subsidy)) \subseteq {s}
        BY <1>5, CoinType, CoinListsOne DEF Working
      <3>3. w \in Working
        BY <3>1, <3>2 DEF Working
      <3>4. w.mined = v.mined /\ w.extra = Coin(s, v.subsidy) /\ w.pc # "advance"
        BY <3>1 DEF Working
      <3>5. miner' = [miner EXCEPT ![m] = w]
        BY <1>3, <2>2, <3>1 DEF SetDepth
      <3> QED BY <3>2, <3>3, <3>4, <3>5
    <2> QED BY <2>1, <2>2
  <1>7. PICK w \in Working :
          /\ miner' = [miner EXCEPT ![m] = w]
          /\ w.pc # "advance"
          /\ Listed(w.mined) \cup Listed(w.extra)
               \subseteq Listed(v.mined) \cup Listed(v.extra) \cup {s}
    BY <1>6
  <1>8. /\ store' = set_depth(store, "MINING", v.depth + 1)
        /\ UNCHANGED <<srv, worth, task, late, paid, reported, alone>>
    BY <1>3 DEF SetDepth
  <1>9. /\ store' \in Store /\ store'.depth["MINING"] = store.depth["MINING"] + 1
        /\ \A c \in Chain : c # "MINING" => store'.depth[c] = store.depth[c]
        /\ store'.row = store.row
    <2>1. v.depth + 1 \in Nat /\ "MINING" \in Chain
      BY <1>4, MaxDepthAssumption DEF Depth, Chain
    <2>2. store'.row = store.row
      BY <1>1, <1>8, DepthTypes DEF set_depth, Store
    <2> QED BY <1>1, <1>4, <1>8, <2>1, <2>2, StoreOpsType, DepthTypes
  <1>10. \A c \in Chain : store'.depth[c] >= store.depth[c]
    BY <1>1, <1>9, DepthTypes
  <1>11. CallsBehave' /\ TypeOK'
    <2>1. CallsBehave'
      BY <1>1, <1>8, <1>9, HigherBehave, DepthTypes
    <2> QED BY <1>1, <1>8, <1>9, <2>1 DEF TypeOK
  <1>12. ASSUME NEW d \in Depth, Known(<<"MINING", d>>)' \/ Pending(<<"MINING", d>>)'
         PROVE  d < store'.depth["MINING"]
    <2>1. CASE Known(<<"MINING", d>>)
      BY <1>1, <1>9, <2>1, DepthTypes DEF RewardsCovered, Depth
    <2>2. CASE Pending(<<"MINING", d>>)'
      <3> DEFINE x == <<"MINING", d>>
      <3>1. Pending(x) \/ x \in Listed(w.mined) \cup Listed(w.extra)
        <4>1. reported' \subseteq reported \cup
                {ReportOf(n) : n \in {k \in Mining : miner[k].pc = "report"}}
          BY <1>8
        <4> QED BY <1>1, <1>7, <2>2, <4>1, PendingAfter
      <3>2. Listed(v.mined) \cup Listed(v.extra) = Listed(ReportOf(m))
        BY <1>2, <1>3, ReportLists
      <3>3. Pending(x) \/ x = s
        BY <1>3, <1>4, <1>7, <3>1, <3>2 DEF Pending
      <3>4. x = s => d = store.depth["MINING"]
        BY <1>4
      <3> HIDE DEF x
      <3>5. d < store.depth["MINING"] \/ d = store.depth["MINING"]
        BY <1>1, <3>3, <3>4 DEF RewardsCovered, x
      <3> QED BY <1>1, <1>9, <3>5, DepthTypes DEF Depth
    <2> QED BY <1>8, <1>12, <2>1, <2>2 DEF Known
  <1>13. MinersBehave'
    <2>1. ASSUME NEW n \in Mining
          PROVE  /\ miner'[n].pc # "advance"
                 /\ Listed(miner'[n].mined) \cup Listed(miner'[n].extra)
                      \subseteq {"MINING"} \X Depth
      <3>1. miner'[n] = w
        BY <1>2, <1>7 DEF OneMiner
      <3> QED BY <1>4, <1>5, <1>7, <3>1
    <2> QED BY <2>1 DEF MinersBehave
  <1>14. MinerTypeOK' /\ RewardsCovered' /\ LateBehave'
    BY <1>1, <1>2, <1>7, <1>8, <1>11, <1>12
    DEF MinerTypeOK, RewardsCovered, LateBehave
  <1> QED BY <1>9, <1>10, <1>11, <1>13, <1>14 DEF MineInv, MinerInv

LEMMA MintGrows ==
  ASSUME TypeOK, NEW coins \in Coins, Mint(coins)
  PROVE  /\ LedgerOK
         /\ \A s \in Secret : Known(s)' <=> Known(s) \/ s \in Listed(coins)
         /\ \A s \in Secret : Known(s) => srv'[s] = srv[s]
  <1>1. worth' \in [Secret -> Amount]
    BY UpdatedType DEF TypeOK, Mint, Coins
  <1>2. srv' \in [Secret -> Status]
    BY DEF TypeOK, Mint, Status
  <1>3. \A s \in Secret : Known(s)' <=> Known(s) \/ s \in Listed(coins)
    BY DEF TypeOK, Mint, Known
  <1>4. \A s \in Secret : Known(s) => srv'[s] = srv[s]
    BY DEF TypeOK, Mint
  <1> QED BY <1>1, <1>2, <1>3, <1>4 DEF LedgerOK

\* The server mints what a report lists.
LEMMA MineMint ==
  ASSUME MineInv, NEW coins \in Coins, Mint(coins),
         \A s \in Listed(coins) : Pending(s),
         UNCHANGED <<store, task, late, paid, alone>>,
         miner' \in [Mining -> Working], reported' \subseteq reported,
         \A n \in Mining : /\ miner'[n].pc # "advance" \/ miner'[n] = miner[n]
                           /\ miner[n].pc # "rest" \/ miner'[n].pc = "rest"
                           /\ miner'[n].mined = miner[n].mined
                           /\ miner'[n].extra = miner[n].extra
  PROVE  MineInv'
  <1>1. MinerTypeOK /\ TypeOK /\ RewardsCovered /\ CallsBehave /\ LateBehave
        /\ MinersBehave
    BY DEF MineInv, MinerInv, MinerTypeOK
  <1>2. LedgerOK /\ \A s \in Secret : Known(s)' <=> Known(s) \/ s \in Listed(coins)
    BY <1>1, MintGrows
  <1>3. TypeOK' /\ CallsBehave' /\ LateBehave'
    BY <1>1, <1>2 DEF TypeOK, LedgerOK, CallsBehave, LateBehave
  <1>4. MinerTypeOK'
    BY <1>1, <1>3 DEF MinerTypeOK
  <1>5. ASSUME NEW s, Pending(s)' PROVE Pending(s)
    BY <1>5 DEF Pending, ReportOf
  <1>6. RewardsCovered'
    <2>1. ASSUME NEW d \in Depth, Known(<<"MINING", d>>)' \/ Pending(<<"MINING", d>>)'
          PROVE  d < store.depth["MINING"]
      <3>1. <<"MINING", d>> \in Secret
        BY DerivedSecret DEF Chain
      <3> QED BY <1>1, <1>2, <1>5, <2>1, <3>1 DEF RewardsCovered
    <2> QED BY <2>1 DEF RewardsCovered
  <1>7. MinersBehave'
    BY <1>1 DEF MinersBehave
  <1> QED BY <1>3, <1>4, <1>6, <1>7 DEF MineInv, MinerInv

LEMMA MineReport ==
  ASSUME MineInv, NEW m \in Mining, ReportAccepted(m)
  PROVE  MineInv'
  <1>1. /\ miner \in [Mining -> Working] /\ miner[m].pc = "report"
        /\ Mint(ReportOf(m)) /\ UNCHANGED <<store, task, late, paid, reported, alone>>
    BY DEF ReportAccepted, MineInv, MinerInv, MinerTypeOK
  <1>2. PICK w : w = [miner[m] EXCEPT !.pc = "store"]
    OBVIOUS
  <1>3. /\ w \in Working /\ w.pc = "store" /\ w.mined = miner[m].mined
        /\ w.extra = miner[m].extra
    BY <1>1, <1>2 DEF Working
  <1>4. miner' = [miner EXCEPT ![m] = w]
    BY <1>1, <1>2 DEF ReportAccepted, MinerGoto
  <1>5. ReportOf(m) \in Coins /\ \A s \in Listed(ReportOf(m)) : Pending(s)
    BY <1>1, ReportLists DEF Pending
  <1>6. miner' \in [Mining -> Working]
    BY <1>1, <1>3, <1>4
  <1>7. \A n \in Mining : /\ miner'[n].pc # "advance" \/ miner'[n] = miner[n]
                          /\ miner[n].pc # "rest" \/ miner'[n].pc = "rest"
                          /\ miner'[n].mined = miner[n].mined
                          /\ miner'[n].extra = miner[n].extra
    <2>1. ASSUME NEW n \in Mining, n = m PROVE miner'[n] = w
      BY <1>1, <1>4, <2>1
    <2>2. ASSUME NEW n \in Mining, n # m PROVE miner'[n] = miner[n]
      BY <1>1, <1>4, <2>2
    <2> QED BY <1>1, <1>3, <2>1, <2>2
  <1> QED BY <1>1, <1>5, <1>6, <1>7, MineMint

LEMMA MineLateReport ==
  ASSUME MineInv, NEW coins \in reported, LateReport(coins)
  PROVE  MineInv'
  <1>1. /\ MinerTypeOK /\ reported' \subseteq reported
        /\ UNCHANGED <<store, task, late, paid, miner, alone>>
    BY DEF LateReport, MineInv, MinerInv
  <1>2. /\ coins \in Coins /\ miner \in [Mining -> Working]
        /\ \A s \in Listed(coins) : Pending(s)
    BY <1>1 DEF MinerTypeOK, Pending
  <1>3. CASE Mint(coins)
    BY <1>1, <1>2, <1>3, MineMint
  <1>4. CASE UNCHANGED <<srv, worth>>
    <2>1. TypeOK' /\ CallsBehave' /\ LateBehave' /\ MinersBehave'
      BY <1>1, <1>4
      DEF MineInv, MinerInv, MinerTypeOK, TypeOK, CallsBehave, LateBehave, MinersBehave
    <2>2. MinerTypeOK' /\ RewardsCovered'
      BY <1>1, <1>4, <2>1
      DEF MineInv, MinerInv, MinerTypeOK, RewardsCovered, Known, Pending, ReportOf
    <2> QED BY <2>1, <2>2 DEF MineInv, MinerInv
  <1> QED BY <1>3, <1>4 DEF LateReport, ledgerVars

LEMMA MineStore ==
  ASSUME MineInv, NEW m \in Mining, StoreMined(m)
  PROVE  /\ MineInv'
         /\ store'.depth = store.depth
         /\ \A s \in Secret : store'.row[s] = "spent" => store.row[s] = "spent"
  <1>1. MinerTypeOK /\ TypeOK /\ RewardsCovered /\ CallsBehave /\ LateBehave
        /\ MinersBehave
    BY DEF MineInv, MinerInv, MinerTypeOK
  <1>2. miner \in [Mining -> Working] /\ miner[m] \in Working
    BY <1>1 DEF MinerTypeOK
  <1>3. PICK s \in Listed(miner[m].mined) : store_directly(s, miner[m].mined[s])
    BY DEF StoreMined
  <1>4. s \in Secret /\ miner[m].mined[s] \in Amount
    BY <1>2 DEF Listed, Working, Coins
  <1>5. /\ store' \in Store /\ store'.depth = store.depth
        /\ \A x \in Secret : store'.row[x] = "spent" => store.row[x] = "spent"
    <2>1. store' = store \/ store' = insert_output(store, s, miner[m].mined[s])
      BY <1>3 DEF store_directly
    <2>2. store \in Store
      BY <1>1, DepthTypes
    <2>3. \A x \in Secret :
            insert_output(store, s, miner[m].mined[s]).row[x] = "spent"
              => store.row[x] = "spent"
      BY <2>2 DEF insert_output, Store
    <2> QED BY <1>4, <2>1, <2>2, <2>3, StoreOpsType
  <1>6. /\ miner' = [miner EXCEPT ![m] = Rest]
        /\ UNCHANGED <<srv, worth, task, late, paid, reported, alone>>
    BY DEF StoreMined
  <1>7. TypeOK' /\ CallsBehave' /\ LateBehave'
    BY <1>1, <1>5, <1>6 DEF TypeOK, CallsBehave, LateBehave
  <1>8. MinerTypeOK'
    BY <1>1, <1>2, <1>6, <1>7, RestType DEF MinerTypeOK
  <1>9. ASSUME NEW x, Pending(x)' PROVE Pending(x)
    <2>1. reported' \subseteq reported \cup
            {ReportOf(n) : n \in {k \in Mining : miner[k].pc = "report"}}
      BY <1>6
    <2> QED BY <1>1, <1>6, <1>9, <2>1, RestType, PendingAfter
  <1>10. RewardsCovered'
    BY <1>1, <1>5, <1>6, <1>9 DEF RewardsCovered, Known
  <1>11. MinersBehave'
    <2>1. \A n \in Mining : miner'[n] \in {Rest, miner[n]}
      BY <1>2, <1>6
    <2> QED BY <1>1, <1>5, <2>1, RestType DEF MinersBehave
  <1> QED BY <1>5, <1>7, <1>8, <1>10, <1>11 DEF MineInv, MinerInv

LEMMA MineCrash ==
  ASSUME MineInv, MinerCrash
  PROVE  MineInv'
  <1>1. MinerTypeOK /\ TypeOK /\ RewardsCovered /\ CallsBehave /\ LateBehave
    BY DEF MineInv, MinerInv, MinerTypeOK
  <1>2. /\ UNCHANGED <<srv, worth, store, paid, alone>>
        /\ task' = [t \in Task |-> Idle] /\ miner' = [m \in Mining |-> Rest]
        /\ late' \subseteq late \cup
             {RequestOf(u) : u \in {v \in Task : task[v].pc \in Sent}}
        /\ reported' \subseteq reported \cup
             {ReportOf(n) : n \in {k \in Mining : miner[k].pc = "report"}}
    BY DEF MinerCrash, Abandoned, LeftBehind
  <1>3. late' \subseteq Request /\ LateBehave'
    BY <1>1, <1>2, AbandonedBehave
  <1>4. task' \in [Task -> Locals] /\ \A u \in Task : task'[u] \in {Idle, task[u]}
    BY <1>2, IdleType
  <1>5. CallsBehave'
    BY <1>1, <1>2, <1>4, IdleCalls
  <1>6. TypeOK'
    BY <1>1, <1>2, <1>3, <1>4 DEF TypeOK
  <1>7. reported' \subseteq Coins
    <2>1. \A n \in Mining : ReportOf(n) \in Coins
      BY <1>1, ReportLists DEF MinerTypeOK
    <2> QED BY <1>1, <1>2, <2>1 DEF MinerTypeOK
  <1>8. MinerTypeOK'
    BY <1>1, <1>2, <1>6, <1>7, RestType DEF MinerTypeOK
  <1>9. ASSUME NEW x, Pending(x)' PROVE Pending(x)
    BY <1>2, <1>9, RestType DEF Pending
  <1>10. RewardsCovered'
    BY <1>1, <1>2, <1>9 DEF RewardsCovered, Known
  <1>11. MinersBehave'
    BY <1>2, RestType DEF MinersBehave
  <1> QED BY <1>3, <1>5, <1>8, <1>10, <1>11 DEF MineInv, MinerInv

LEMMA MineStep ==
  ASSUME OneMiner
  PROVE  MineInv /\ [MinerNext]_minerVars => MineInv'
  <1> SUFFICES ASSUME MineInv, [MinerNext]_minerVars PROVE MineInv'
    OBVIOUS
  <1>1. CASE UNCHANGED minerVars
    <2>1. TypeOK' /\ CallsBehave' /\ LateBehave' /\ NothingMined
      BY <1>1 DEF minerVars, vars, MineInv, MinerInv, MinerTypeOK, TypeOK, CallsBehave,
                  LateBehave, NothingMined, Known
    <2> QED BY <1>1, <2>1, MineStands DEF minerVars, vars
  <1>2. ASSUME NEW m \in Mining, Mine(m) PROVE MineInv'
    BY <1>2, MineMoves, MineSetDepth, MineReport, MineStore DEF Mine
  <1> QED BY <1>1, <1>2, MineWalletStep, MineLateReport, MineCrash DEF MinerNext

LEMMA MineInit == MinerInit => MineInv
  <1> SUFFICES ASSUME MinerInit PROVE MineInv
    OBVIOUS
  <1>1. CoverInv /\ TypeOK
    BY CoverInit DEF MinerInit, CoverInv
  <1>2. /\ miner = [m \in Mining |-> Rest] /\ reported = {} /\ alone \in BOOLEAN
        /\ task = [t \in Task |-> Idle] /\ late = {}
    BY MinerAssumption DEF MinerInit, Init
  <1>3. MinerTypeOK /\ MinersBehave /\ LateBehave
    BY <1>1, <1>2, RestType DEF MinerTypeOK, MinersBehave, LateBehave
  <1>4. CallsBehave
    BY <1>1, <1>2, IdleBehaves, DepthTypes DEF CallsBehave
  <1>5. ASSUME NEW d \in Depth PROVE ~Known(<<"MINING", d>>)
    <2>1. <<"MINING", d>> \in Secret /\ <<"MINING", d>> \notin Foreign
      BY DerivedSecret, ForeignAssumption DEF Chain
    <2> DEFINE opened == {<<"RECEIVE", i - 1>> : i \in 1 .. Len(Opening)}
    <2>2. <<"MINING", d>> \notin opened
      OBVIOUS
    <2> HIDE DEF opened
    <2>3. \E offered \in SUBSET Foreign :
            srv = [s \in Secret |-> IF s \in opened \cup offered
                                    THEN "unspent" ELSE "unknown"]
      BY DEF MinerInit, Init, opened
    <2> QED BY <2>1, <2>2, <2>3 DEF Known
  <1>6. ASSUME NEW s PROVE ~Pending(s)
    BY <1>2, RestType DEF Pending
  <1>7. RewardsCovered
    BY <1>5, <1>6 DEF RewardsCovered
  <1> QED BY <1>3, <1>4, <1>7 DEF MineInv, MinerInv

\* MineInv holds in every reachable state of one miner beside any number of
\* recover()s, or in turn with any number of calls of every kind: mined outputs are offered by the miner alone, and nobody else
\* raises the depth its next reward is derived at.
THEOREM MineAlways ==
  ASSUME OneMiner
  PROVE  MinerSpec => []MineInv
  BY MineInit, MineStep, PTL DEF MinerSpec

\* One miner beside any number of recover()s, or in turn with calls of every
\* kind: what the server has minted or may yet mint is below the recorded depth, whatever
\* reports were refused or lost and wherever the process stopped.
THEOREM RewardsAlways ==
  ASSUME OneMiner
  PROVE  MinerSpec => []MinerInv
  <1>1. MineInv => MinerInv
    BY DEF MineInv
  <1> QED BY <1>1, MineAlways, PTL
----------------------------------------------------------------------------
(* A recover() of the only caller                                          *)
(*                                                                         *)
(* Its chains may have gaps, where reports were refused; but nothing is    *)
(* known past the recorded depth, so a window that lies past it and holds  *)
(* nothing used ends its chain.                                            *)

\* One caller and one miner, who make one call at a time and whose abandoned
\* requests do not reach the server later.
Solitary == OneTask /\ OneMiner /\ MaxLate = 0

AllIdle == \A t \in Task : task[t].pc = "idle"

\* The server knows no secret past the next one of its chain.
OneAhead == \A c \in Chain, d \in Depth : Known(<<c, d>>) => d <= store.depth[c]

Worth == \A s \in Secret : Known(s) => worth[s] > 0

OneRead == \A t \in Task : ReadsDepths(task[t], store.depth)

AloneInv ==
    /\ NoMining \/ AllIdle
    /\ late = {} /\ reported = {}
    /\ OneRead /\ OneAhead /\ Worth
    /\ RecoverInv

LEMMA MineParts ==
  ASSUME MineInv
  PROVE  /\ MinerTypeOK /\ TypeOK /\ RewardsCovered /\ CallsBehave /\ LateBehave
         /\ MinersBehave
  BY DEF MineInv, MinerInv, MinerTypeOK

\* A step that leaves the server's knowledge as it is and takes no depth back.
LEMMA AheadStands ==
  ASSUME TypeOK, OneAhead, Worth, UNCHANGED worth, store' \in Store,
         \A s \in Secret : Known(s)' => Known(s),
         \A c \in Chain : store'.depth[c] >= store.depth[c]
  PROVE  OneAhead' /\ Worth'
  <1>1. \A c \in Chain : store.depth[c] \in Nat /\ store'.depth[c] \in Nat
    BY DepthTypes DEF Store
  <1>2. \A d \in Depth : d \in Nat
    BY DEF Depth
  <1>3. OneAhead'
    <2>1. ASSUME NEW c \in Chain, NEW d \in Depth, Known(<<c, d>>)'
          PROVE  d <= store'.depth[c]
      <3>1. d <= store.depth[c]
        BY <2>1, DerivedSecret DEF OneAhead
      <3> QED BY <1>1, <1>2, <3>1
    <2> QED BY <2>1 DEF OneAhead
  <1>4. Worth'
    BY DEF Worth
  <1> QED BY <1>3, <1>4

\* What comes into being is worth something.
LEMMA WorthUpdated ==
  ASSUME TypeOK, Worth, NEW coins \in Coins, worth' = Updated(worth, coins),
         \A s \in Secret : Known(s)' => Known(s) \/ s \in Listed(coins)
  PROVE  Worth'
  BY DEF Worth, Updated, Listed

LEMMA AloneScanEnds ==
  ASSUME TypeOK, OneAhead, RecoverInv
  PROVE  ScanEnds
  <1>1. SUFFICES ASSUME NEW t \in Task, NEW l \in Locals, l = task[t], l.pc = "scan",
                        Hits(l.chain, {d \in Depth : /\ d >= l.from
                                                     /\ d < l.from + GapLimit}) = {},
                        ~(l.from + GapLimit <= l.read[l.chain]),
                        NEW d \in Depth, Known(<<l.chain, d>>), ~(d < l.from)
                 PROVE  FALSE
    BY DepthTypes DEF ScanEnds
  <1>2. l.read = store.depth
    BY <1>1 DEF RecoverInv, Established, ScanEstablished
  <1>3. /\ l.from \in Nat /\ d \in Nat /\ GapLimit \in Nat /\ l.chain \in Chain
        /\ store.depth[l.chain] \in Nat
    BY DepthTypes, WalletAssumption DEF Locals, Depth
  <1>4. d <= store.depth[l.chain]
    BY <1>1, <1>3 DEF OneAhead
  <1>5. d >= l.from /\ d < l.from + GapLimit
    BY <1>1, <1>2, <1>3, <1>4
  <1>6. Used(l.chain, d)
    BY <1>1, <1>3, DerivedSecret DEF Used
  <1> QED BY <1>1, <1>5, <1>6 DEF Hits

LEMMA TameRead ==
  ASSUME OneTask, TypeOK, OneRead, NEW t \in Task, Tame(t)
  PROVE  OneRead'
  <1>1. PICK l \in Locals :
          /\ task' = [task EXCEPT ![t] = l]
          /\ ReadsDepths(task[t], store.depth) => ReadsDepths(l, store'.depth)
    BY DEF Tame
  <1>2. ASSUME NEW u \in Task PROVE ReadsDepths(task'[u], store'.depth)
    <2>1. u = t
      BY DEF OneTask
    <2>2. task'[u] = l
      BY <1>1, <2>1, DepthTypes
    <2> QED BY <1>1, <2>2 DEF OneRead
  <1> QED BY <1>2 DEF OneRead

LEMMA IdleRead ==
  ASSUME \A t \in Task : task'[t] = Idle
  PROVE  OneRead'
  BY IdleBehaves DEF OneRead

----------------------------------------------------------------------------
(* The calls *)

LEMMA AloneCall ==
  ASSUME Solitary, MineInv, AloneInv, NoMining, NEW t \in Task, Call(t),
         UNCHANGED <<miner, reported>>
  PROVE  AloneInv'
  <1>1. TypeOK /\ OneTask /\ OneRead /\ OneAhead /\ Worth /\ RecoverInv
    BY MineParts DEF AloneInv, Solitary
  <1>2. UNCHANGED <<srv, worth, store, late, paid>>
    BY DEF Call, InsertBegin, PayBegin, MergeBegin, RecoverBegin, Begin
  <1>3. OneRead'
    BY <1>1, CallTame, TameRead
  <1>4. RecoverInv'
    BY <1>1, BeginRecovers
  <1>5. OneAhead' /\ Worth'
    BY <1>1, <1>2 DEF OneAhead, Worth, Known
  <1> QED BY <1>2, <1>3, <1>4, <1>5 DEF AloneInv, NoMining

LEMMA AdvanceNotIdle ==
  ASSUME NEW t \in Task, Advance(t) \/ GiveUp(t)
  PROVE  task[t].pc # "idle"
  BY DEF Advance, GiveUp, ServerReplaces, ServerRefuses, InsertValidate, InsertStore,
     InsertSetDepth, InsertFallback, InsertDirect, PaySend, PayCommit, MergeSend,
     MergeCommit, PastBounds, RecoverScan, RecoverStore, RecoverStored,
     RecoverReadDepth, RecoverSetDepth, Sent, Replaced, Checking

LEMMA AloneAdvance ==
  ASSUME Solitary, MineInv, AloneInv, NEW t \in Task, Advance(t),
         UNCHANGED <<miner, reported>>
  PROVE  AloneInv'
  <1>1. /\ TypeOK /\ CallsBehave /\ RewardsCovered
        /\ OneTask /\ OneRead /\ OneAhead /\ Worth /\ RecoverInv
    BY MineParts DEF AloneInv, Solitary
  <1>2. NoMining'
    BY AdvanceNotIdle DEF AloneInv, AllIdle, NoMining
  <1>3. late' = late
    BY AdvanceLate
  <1>4. OneRead'
    BY <1>1, AdvanceTame, TameRead
  <1>5. RecoverInv'
    <2>1. ScanEnds
      BY <1>1, AloneScanEnds
    <2> QED BY <1>1, <2>1, PassingRecovers, InsertingRecovers, CommitRecovers,
        ReplacesRecovers, ScanRecovers, FindsRecovers, StoredRecovers, DepthsRecovers
        DEF Advance, Worth
  <1>6. store' \in Store
    BY <1>1, AdvanceStore
  <1>7. CASE ServerReplaces(t)
    <2>1. /\ task[t].pc \in Sent /\ Replaceable(RequestOf(t)) /\ Replace(RequestOf(t))
          /\ store' = store
      BY <1>7 DEF ServerReplaces
    <2>2. /\ RequestOf(t) \in Request
          /\ \A s \in Listed(RequestOf(t).new) :
               \E c \in Chain : s = <<c, store.depth[c]>>
      BY <1>1, <2>1, OffersNothingMined DEF OneRead
    <2>3. \A s \in Secret : Known(s)' <=> Known(s) \/ s \in Listed(RequestOf(t).new)
      BY <1>1, <2>1, <2>2, ReplaceGrows
    <2>4. Worth'
      BY <1>1, <2>1, <2>2, <2>3, WorthUpdated DEF Replace, Request
    <2>5. ASSUME NEW c \in Chain, NEW d \in Depth, Known(<<c, d>>)'
          PROVE  d <= store.depth[c]
      <3>1. CASE Known(<<c, d>>)
        BY <1>1, <3>1 DEF OneAhead
      <3>2. CASE <<c, d>> \in Listed(RequestOf(t).new)
        <4>1. d = store.depth[c]
          BY <2>2, <3>2
        <4> QED BY <1>1, <4>1, DepthTypes
      <3> QED BY <2>3, <2>5, <3>1, <3>2, DerivedSecret
    <2>6. OneAhead'
      BY <2>1, <2>5 DEF OneAhead
    <2> QED BY <1>2, <1>3, <1>4, <1>5, <2>4, <2>6 DEF AloneInv
  <1>8. ~ServerReplaces(t) => UNCHANGED <<srv, worth>>
    BY DEF Advance, ServerRefuses, InsertValidate, InsertStore,
       InsertSetDepth, InsertFallback, InsertDirect, PaySend, PayCommit,
       MergeSend, MergeCommit, Send, PastBounds, RecoverScan, RecoverStore,
       RecoverStored, RecoverReadDepth, RecoverSetDepth
  <1>9. CASE RecoverSetDepth(t)
    <2>1. PICK l \in Locals : l = task[t]
      BY <1>1, DepthTypes
    <2>2. /\ l.pc = "recover_set" /\ UNCHANGED <<srv, worth>>
          /\ store' = set_depth(store, l.chain, l.used[l.chain])
      BY <1>9, <2>1 DEF RecoverSetDepth
    <2>3. \A d \in Depth : Known(<<l.chain, d>>) => d < l.used[l.chain]
      <3>1. DepthsEstablished(l)
        BY <1>1, <2>1 DEF RecoverInv, Established
      <3> QED BY <2>2, <3>1 DEF DepthsEstablished, Seen, Locals
    <2>4. /\ l.chain \in Chain /\ l.used[l.chain] \in Nat
          /\ \A c \in Chain : store'.depth[c] = IF c = l.chain THEN l.used[l.chain]
                                                ELSE store.depth[c]
      <3>1. l.chain \in Chain /\ l.used[l.chain] \in Nat
        BY DEF Locals
      <3>2. store \in Store
        BY <1>1, DepthTypes
      <3> QED BY <2>2, <3>1, <3>2, StoreOpsType
    <2>5. \A d \in Depth : d \in Nat
      BY DEF Depth
    <2>6. OneAhead'
      <3>1. ASSUME NEW c \in Chain, NEW d \in Depth, Known(<<c, d>>)'
            PROVE  d <= store'.depth[c]
        <4>1. Known(<<c, d>>)
          BY <2>2, <3>1 DEF Known
        <4>2. CASE c = l.chain
          BY <2>3, <2>4, <2>5, <4>1, <4>2
        <4>3. CASE c # l.chain
          BY <1>1, <2>4, <4>1, <4>3 DEF OneAhead
        <4> QED BY <4>2, <4>3
      <3> QED BY <3>1 DEF OneAhead
    <2>7. Worth'
      BY <1>1, <2>2 DEF Worth, Known
    <2> QED BY <1>2, <1>3, <1>4, <1>5, <2>6, <2>7 DEF AloneInv
  <1>10. CASE ~ServerReplaces(t) /\ ~RecoverSetDepth(t)
    <2>1. \A c \in Chain : store'.depth[c] >= store.depth[c]
      BY <1>1, <1>10, AdvanceStore DEF OneRead
    <2>2. \A s \in Secret : Known(s)' => Known(s)
      BY <1>8, <1>10 DEF Known
    <2>3. OneAhead' /\ Worth'
      BY <1>1, <1>6, <1>8, <1>10, <2>1, <2>2, AheadStands
    <2> QED BY <1>2, <1>3, <1>4, <1>5, <2>3 DEF AloneInv
  <1> QED BY <1>7, <1>9, <1>10

\* With MaxLate = 0 nothing outlives its caller.
LEMMA NothingLeft ==
  ASSUME MaxLate = 0, NEW left, NEW x, NEW more, left \in {{}, more},
         more \subseteq {x}, Cardinality(left) <= MaxLate
  PROVE  left = {}
  <1>1. left \in {{}, {x}} /\ Cardinality(left) <= 0
    OBVIOUS
  <1>2. Cardinality({x}) = 1
    BY FS_Singleton
  <1> QED BY <1>1, <1>2

LEMMA AbandonedNothing ==
  ASSUME Solitary, late = {},
         Abandoned({}) \/ \E x : \E R \in SUBSET {x} : Abandoned(R)
  PROVE  late' = {}
  <1>1. PICK x, R : R \subseteq {x} /\ late' \in {{}, R} /\ Cardinality(late') <= MaxLate
    BY DEF Abandoned
  <1> QED BY <1>1, NothingLeft DEF Solitary

\* Every call has ended.
LEMMA AloneEnds ==
  ASSUME Solitary, AloneInv, TypeOK, UNCHANGED <<srv, worth, store>>,
         late' = {}, reported' = {}, \A t \in Task : task'[t] = Idle
  PROVE  AloneInv'
  <1>1. SpentRows'
    BY RowsStaySpent DEF AloneInv
  <1>2. \A t \in Task : task'[t].pc = "idle"
    BY DEF Idle
  <1>3. RecoverInv'
    BY <1>1, <1>2, PlainRecovers DEF Solitary, Interesting
  <1>4. OneAhead' /\ Worth' /\ OneRead'
    BY IdleRead DEF AloneInv, OneAhead, Worth, Known
  <1> QED BY <1>2, <1>3, <1>4 DEF AloneInv, AllIdle

LEMMA AloneGiveUp ==
  ASSUME Solitary, MineInv, AloneInv, NEW t \in Task, GiveUp(t),
         UNCHANGED <<miner, reported>>
  PROVE  AloneInv'
  <1>1. TypeOK
    BY MineParts
  <1>2. late' = {}
    BY AbandonedNothing DEF GiveUp, AloneInv
  <1>3. \A u \in Task : task'[u] = Idle
    BY <1>1, DepthTypes DEF GiveUp, Finish, Solitary, OneTask
  <1> QED BY <1>1, <1>2, <1>3, AloneEnds DEF GiveUp, AloneInv

LEMMA AloneOthersSpend ==
  ASSUME Solitary, MineInv, AloneInv, NEW s \in Foreign \cup paid, OthersSpend(s),
         UNCHANGED <<miner, reported>>
  PROVE  AloneInv'
  <1>1. TypeOK /\ srv \in [Secret -> Status] /\ store \in Store /\ OneAhead /\ Worth
    BY MineParts DEF TypeOK, AloneInv
  <1>2. /\ UNCHANGED <<worth, store, task, late>>
        /\ srv[s] = "unspent" /\ srv' = [srv EXCEPT ![s] = "spent"]
    BY DEF OthersSpend, SpentElsewhere
  <1>3. /\ \A x \in Secret : Known(x)' <=> Known(x)
        /\ \A x \in Secret : srv'[x] = "unspent" => srv[x] = "unspent"
        /\ \A x \in Secret : srv[x] = "spent" => srv'[x] = "spent"
    BY <1>1, <1>2 DEF Known
  <1>4. RecoverInv'
    BY <1>1, <1>2, <1>3, OthersRecover DEF AloneInv
  <1>5. OneAhead' /\ Worth'
    <2>1. \A c \in Chain : store'.depth[c] >= store.depth[c]
      BY <1>1, <1>2, DepthTypes
    <2> QED BY <1>1, <1>2, <1>3, <2>1, AheadStands
  <1> QED BY <1>2, <1>4, <1>5 DEF AloneInv, OneRead, AllIdle, NoMining
----------------------------------------------------------------------------
(* The miner *)

\* While a miner works the calls rest; the server spends nothing.
LEMMA AloneMiner ==
  ASSUME Solitary, MineInv, AloneInv, AllIdle, task' = task, late' = {}, reported' = {},
         OneAhead', Worth',
         \A s \in Secret : store'.row[s] = "spent" => store.row[s] = "spent",
         \A s \in Secret : srv[s] = "spent" => srv'[s] = "spent"
  PROVE  AloneInv'
  <1>1. SpentRows'
    BY RowsStaySpent DEF AloneInv
  <1>2. \A t \in Task : task'[t].pc = "idle"
    BY DEF AllIdle
  <1>3. RecoverInv'
    BY <1>1, <1>2, PlainRecovers DEF Solitary, Interesting
  <1>4. OneRead'
    <2>1. ASSUME NEW t \in Task PROVE ReadsDepths(task'[t], store'.depth)
      <3>1. PICK l : l = task'[t]
        OBVIOUS
      <3>2. l.pc = "idle"
        BY <1>2, <3>1
      <3> QED BY <3>1, <3>2 DEF ReadsDepths, Inserting, Offering
    <2> QED BY <2>1 DEF OneRead
  <1> QED BY <1>2, <1>3, <1>4 DEF AloneInv, AllIdle

LEMMA AloneMine ==
  ASSUME Solitary, MineInv, AloneInv, alone, NEW m \in Mining, Mine(m)
  PROVE  AloneInv'
  <1>1. /\ MinerTypeOK /\ TypeOK /\ RewardsCovered /\ MinersBehave
        /\ OneMiner /\ OneTask /\ MaxLate = 0
        /\ late = {} /\ reported = {} /\ OneAhead /\ Worth
    BY MineParts DEF AloneInv, Solitary
  <1>2. miner[m].pc # "rest" => AllIdle
    BY DEF AloneInv, NoMining
  <1>3. CASE MineBegin(m)
    <2>1. /\ task' = [t \in Task |-> Idle]
          /\ UNCHANGED <<srv, worth, store, late, reported>>
      BY <1>3 DEF MineBegin
    <2>2. late' = {} /\ reported' = {} /\ \A t \in Task : task'[t] = Idle
      BY <1>1, <2>1
    <2> QED BY <1>1, <2>1, <2>2, AloneEnds
  <1>4. ASSUME UNCHANGED <<srv, worth, store, late, reported>>, task' = task, AllIdle
        PROVE  AloneInv'
    <2>1. OneAhead' /\ Worth'
      BY <1>1, <1>4 DEF OneAhead, Worth, Known
    <2> QED BY <1>1, <1>4, <2>1, AloneMiner
  <1>5. CASE ReadDepth(m) \/ ReportRefused(m) \/ MinePastBounds(m)
    BY <1>2, <1>4, <1>5 DEF ReadDepth, ReportRefused, MinePastBounds, vars
  <1>6. CASE MineGivesUp(m)
    <2>1. reported' = {}
      <3>1. \E R \in SUBSET {ReportOf(m)} :
              reported' \in {{}, R} /\ Cardinality(reported') <= MaxLate
        BY <1>1, <1>6 DEF MineGivesUp, LeftBehind
      <3> QED BY <1>1, <3>1, NothingLeft
    <2> QED BY <1>1, <1>2, <1>4, <1>6, <2>1 DEF MineGivesUp, vars
  <1>7. CASE SetDepth(m)
    <2>1. /\ UNCHANGED <<srv, worth, task, late, reported>>
          /\ miner[m].pc = "advance"
      BY <1>7 DEF SetDepth
    <2>2. /\ MineInv' /\ store'.row = store.row
          /\ \A c \in Chain : store'.depth[c] >= store.depth[c]
      BY <1>1, <1>7, MineSetDepth
    <2>3. store' \in Store
      BY <2>2 DEF MineInv, MinerInv, MinerTypeOK, TypeOK
    <2>4. \A s \in Secret : Known(s)' => Known(s)
      BY <2>1 DEF Known
    <2>5. OneAhead' /\ Worth'
      BY <1>1, <2>1, <2>2, <2>3, <2>4, AheadStands
    <2> QED BY <1>1, <1>2, <2>1, <2>2, <2>5, AloneMiner
  <1>8. CASE StoreMined(m)
    <2>1. /\ UNCHANGED <<srv, worth, task, late, reported>>
          /\ miner[m].pc = "store"
      BY <1>8 DEF StoreMined
    <2>2. /\ MineInv' /\ store'.depth = store.depth
          /\ \A s \in Secret : store'.row[s] = "spent" => store.row[s] = "spent"
      BY <1>1, <1>8, MineStore
    <2>3. store' \in Store
      BY <2>2 DEF MineInv, MinerInv, MinerTypeOK, TypeOK
    <2>4. /\ \A s \in Secret : Known(s)' => Known(s)
          /\ \A c \in Chain : store'.depth[c] >= store.depth[c]
      BY <1>1, <2>1, <2>2, DepthTypes DEF Known
    <2>5. OneAhead' /\ Worth'
      BY <1>1, <2>1, <2>3, <2>4, AheadStands
    <2> QED BY <1>1, <1>2, <2>1, <2>2, <2>5, AloneMiner
  <1>9. CASE ReportAccepted(m)
    <2>1. /\ Mint(ReportOf(m)) /\ miner[m].pc = "report"
          /\ UNCHANGED <<store, task, late, reported>>
      BY <1>9 DEF ReportAccepted
    <2>2. miner[m] \in Working
      BY <1>1 DEF MinerTypeOK
    <2>3. /\ ReportOf(m) \in Coins
          /\ Listed(ReportOf(m)) \subseteq {"MINING"} \X Depth
          /\ \A s \in Listed(ReportOf(m)) : Pending(s)
      BY <1>1, <2>1, <2>2, ReportLists DEF MinersBehave, Pending
    <2>4. /\ \A s \in Secret : Known(s)' <=> Known(s) \/ s \in Listed(ReportOf(m))
          /\ \A s \in Secret : Known(s) => srv'[s] = srv[s]
      BY <1>1, <2>1, <2>3, MintGrows
    <2>5. Worth'
      BY <1>1, <2>1, <2>3, <2>4, WorthUpdated DEF Mint
    <2>6. OneAhead'
      <3>1. ASSUME NEW c \in Chain, NEW d \in Depth, Known(<<c, d>>)'
            PROVE  d <= store.depth[c]
        <4>1. CASE Known(<<c, d>>)
          BY <1>1, <4>1 DEF OneAhead
        <4>2. CASE <<c, d>> \in Listed(ReportOf(m))
          <5>1. c = "MINING" /\ Pending(<<"MINING", d>>)
            BY <2>3, <4>2
          <5>2. d < store.depth["MINING"]
            BY <1>1, <5>1 DEF RewardsCovered
          <5>3. d \in Nat /\ store.depth["MINING"] \in Nat
            BY <1>1, DepthTypes DEF Depth
          <5> QED BY <5>1, <5>2, <5>3
        <4> QED BY <2>4, <3>1, <4>1, <4>2, DerivedSecret
      <3> QED BY <2>1, <3>1 DEF OneAhead
    <2>7. \A s \in Secret : srv[s] = "spent" => srv'[s] = "spent"
      BY <2>4 DEF Known
    <2> QED BY <1>1, <1>2, <2>1, <2>5, <2>6, <2>7, AloneMiner
  <1> QED BY <1>3, <1>5, <1>6, <1>7, <1>8, <1>9 DEF Mine

LEMMA AloneCrash ==
  ASSUME Solitary, MineInv, AloneInv, MinerCrash
  PROVE  AloneInv'
  <1>1. UNCHANGED <<srv, worth, store>> /\ \A t \in Task : task'[t] = Idle
    BY DEF MinerCrash
  <1>2. late' = {}
    <2>1. \E x : \E R \in SUBSET {x} : Abandoned(R)
      <3> DEFINE R == {RequestOf(t) : t \in {u \in Task : task[u].pc \in Sent}}
      <3>1. Abandoned(R)
        BY DEF MinerCrash
      <3>2. CASE R = {}
        BY <3>1, <3>2
      <3>3. CASE R # {}
        <4>1. PICK x \in R : TRUE
          BY <3>3
        <4>2. R \subseteq {x}
          BY <4>1 DEF Solitary, OneTask
        <4> QED BY <3>1, <4>2
      <3> QED BY <3>2, <3>3
    <2> QED BY <2>1, AbandonedNothing DEF AloneInv
  <1>3. reported' = {}
    <2> DEFINE R == {ReportOf(m) : m \in {n \in Mining : miner[n].pc = "report"}}
    <2>1. reported' \in {{}, R} /\ Cardinality(reported') <= MaxLate
      BY DEF MinerCrash, LeftBehind, AloneInv
    <2>2. CASE R = {}
      BY <2>1, <2>2
    <2>3. CASE R # {}
      <3>1. PICK x \in R : TRUE
        BY <2>3
      <3>2. R \subseteq {x}
        BY <3>1 DEF Solitary, OneMiner
      <3> HIDE DEF R
      <3>3. MaxLate = 0
        BY DEF Solitary
      <3>4. \E more \in SUBSET {x} :
              reported' \in {{}, more} /\ Cardinality(reported') <= MaxLate
        BY <2>1, <3>2
      <3> QED BY <3>3, <3>4, NothingLeft
    <2> QED BY <2>2, <2>3
  <1> QED BY <1>1, <1>2, <1>3, MineParts, AloneEnds

LEMMA AloneStep ==
  ASSUME Solitary
  PROVE  MineInv /\ (alone => AloneInv) /\ [MinerNext]_minerVars => (alone => AloneInv)'
  <1> SUFFICES ASSUME MineInv, alone => AloneInv, [MinerNext]_minerVars, alone'
               PROVE  AloneInv'
    OBVIOUS
  <1>1. alone' = alone
    BY DEF MinerNext, minerVars, WalletStep, Mine, MineBegin, ReadDepth, SetDepth,
       ReportAccepted, ReportRefused, StoreMined, MinePastBounds, MineGivesUp,
       LateReport, MinerCrash
  <1>2. alone /\ AloneInv
    BY <1>1
  <1>3. CASE UNCHANGED minerVars
    <2>1. TypeOK /\ UNCHANGED <<srv, worth, store, task, late, miner, reported>>
      BY <1>3, MineParts DEF minerVars, vars
    <2>2. RecoverInv'
      BY <1>2, <2>1, OthersRecover DEF AloneInv, Known
    <2> QED BY <1>2, <2>1, <2>2
        DEF AloneInv, NoMining, AllIdle, OneRead, OneAhead, Worth, Known
  <1>4. CASE WalletStep
    <2>1. UNCHANGED <<miner, reported>>
      BY <1>4 DEF WalletStep
    <2>2. ~\E req \in late : LateReplace(req)
      BY <1>2 DEF AloneInv
    <2> QED BY <1>2, <1>4, <2>1, <2>2, AloneCall, AloneAdvance, AloneGiveUp,
        AloneOthersSpend DEF WalletStep, Progress
  <1>5. ASSUME NEW m \in Mining, Mine(m) PROVE AloneInv'
    BY <1>2, <1>5, AloneMine
  <1>6. ~\E coins \in reported : LateReport(coins)
    BY <1>2 DEF AloneInv
  <1> QED BY <1>2, <1>3, <1>4, <1>5, <1>6, AloneCrash DEF MinerNext

\* One caller who makes every call in turn, mining included, and none of whose
\* requests arrives after it was abandoned: a recover() that has ended leaves
\* every live secret spendable in the store and every chain at a secret the
\* server has not seen, past the depths that refused reports have burned,
\* whatever replies were lost and wherever the process had stopped.
THEOREM AloneAlways ==
  ASSUME Solitary
  PROVE  MinerSpec => []RecoverCompletesAlone
  <1>1. MinerInit => (alone => AloneInv)
    <2> SUFFICES ASSUME MinerInit PROVE AloneInv
      OBVIOUS
    <2>1. MineInv /\ CoverInv /\ TypeOK
      BY MineInit, CoverInit DEF MinerInit, CoverInv
    <2>2. NoMining /\ late = {} /\ reported = {} /\ task = [t \in Task |-> Idle]
      BY RestType DEF MinerInit, Init, NoMining
    <2>3. OneRead
      BY <2>2, IdleBehaves DEF OneRead
    <2>4. OneAhead
      <3>1. ASSUME NEW c \in Chain, NEW d \in Depth, Known(<<c, d>>)
            PROVE  d < store.depth[c]
        <4>1. \A x \in Chain : store.depth[x] = IF x = "RECEIVE" THEN Len(Opening) ELSE 0
          BY DEF MinerInit, Init
        <4>2. <<c, d>> \in Secret /\ <<c, d>> \notin Foreign
          BY DerivedSecret, ForeignAssumption
        <4> DEFINE opened == {<<"RECEIVE", i - 1>> : i \in 1 .. Len(Opening)}
        <4>3. \E offered \in SUBSET Foreign :
                srv = [s \in Secret |-> IF s \in opened \cup offered
                                        THEN "unspent" ELSE "unknown"]
          BY DEF MinerInit, Init
        <4>4. <<c, d>> \in opened
          BY <3>1, <4>2, <4>3 DEF Known
        <4>5. Len(Opening) \in Nat
          BY WalletAssumption
        <4>6. PICK i \in 1 .. Len(Opening) : <<c, d>> = <<"RECEIVE", i - 1>>
          BY <4>4
        <4> QED BY <4>1, <4>5, <4>6
      <3>2. \A c \in Chain, d \in Depth : d \in Nat /\ store.depth[c] \in Nat
        BY <2>1, DepthTypes DEF Depth
      <3> QED BY <3>1, <3>2 DEF OneAhead
    <2>5. Worth
      BY <2>1 DEF Worth, CoverInv, KnownWorth
    <2>6. RecoverInv
      <3>1. \A s \in Secret : store.row[s] # "spent"
        BY DEF MinerInit, Init
      <3>2. \A t \in Task : task[t].pc = "idle"
        BY <2>2 DEF Idle
      <3> QED BY <3>1, <3>2
          DEF RecoverInv, SpentRows, Established, ScanEstablished, StoreEstablished,
              DepthsEstablished, EndEstablished, InputsSpent
    <2> QED BY <2>2, <2>3, <2>4, <2>5, <2>6 DEF AloneInv
  <1>2. AloneInv => RecoverCompletes
    BY DEF AloneInv, RecoverInv, Established, EndEstablished, RecoverCompletes, Unused,
       Live, Spendable
  <1>3. (alone => AloneInv) => RecoverCompletesAlone
    BY <1>2 DEF RecoverCompletesAlone
  <1>4. OneMiner
    BY DEF Solitary
  <1> QED BY <1>1, <1>3, <1>4, AloneStep, MineAlways, PTL DEF MinerSpec
============================================================================
