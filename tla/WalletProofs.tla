---------------------------- MODULE WalletProofs ----------------------------
(***************************************************************************)
(* Proofs about Wallet, whatever the number of calls, foreign secrets and  *)
(* depths, with every fault and recover() included: CoverInv is inductive, *)
(* so the variables have their types and no depth of a chain is ever       *)
(* burned; no money gets out of reach of a recover() from the seed; what   *)
(* is marked spent stays spent; every row is backed by the server.         *)
(***************************************************************************)
EXTENDS Wallet, TLAPS

----------------------------------------------------------------------------
(* Types of the helpers *)

LEMMA IdleType == Idle \in Locals
  BY MaxAmountAssumption
  DEF Idle, Locals, PC, AtRest, Coins, NoCoins, Amount, Chain

LEMMA CoinType ==
  ASSUME NEW s \in Secret, NEW a \in Amount
  PROVE  Coin(s, a) \in Coins
  BY MaxAmountAssumption DEF Coin, Coins, NoCoins, Amount

LEMMA CoinListed ==
  ASSUME NEW s \in Secret, NEW a \in Amount, a > 0
  PROVE  Listed(Coin(s, a)) = {s}
  BY MaxAmountAssumption DEF Coin, Listed, NoCoins, Amount

LEMMA CoinListsOne ==
  ASSUME NEW s \in Secret, NEW a \in Amount
  PROVE  Listed(Coin(s, a)) \subseteq {s}
  BY DEF Coin, Listed, NoCoins

LEMMA CoinsOfType ==
  ASSUME NEW S, NEW amt \in [Secret -> Amount]
  PROVE  CoinsOf(S, amt) \in Coins
  BY MaxAmountAssumption DEF CoinsOf, Coins, Amount

LEMMA UpdatedType ==
  ASSUME NEW old \in Coins, NEW new \in Coins
  PROVE  Updated(old, new) \in Coins
  BY DEF Updated, Coins

LEMMA DerivedSecret ==
  ASSUME NEW c \in Chain, NEW d \in Depth
  PROVE  <<c, d>> \in Derived /\ <<c, d>> \in Secret
  BY DEF Derived, Secret

LEMMA IdleCovered == Covered(Idle)
  <1>1. \A c \in Chain : Idle.read[c] = 0 /\ Idle.used[c] = 0
    BY DEF Idle
  <1>2. \A c \in Chain : Prefix(c, 0)
    BY MaxDepthAssumption DEF Prefix, Depth
  <1>3. Idle.pc \notin Inserting \cup Sent \cup Replaced
             \cup {"pay_sent", "pay_replaced"}
    BY DEF Idle, Inserting, Sent, Replaced
  <1> QED
    BY <1>1, <1>2, <1>3 DEF Covered

----------------------------------------------------------------------------
(* The initial states *)

LEMMA CoverInit == Init => CoverInv
  <1> SUFFICES ASSUME Init PROVE CoverInv
    OBVIOUS
  <1> DEFINE opened == {<<"RECEIVE", i - 1>> : i \in 1 .. Len(Opening)}
             sum(s) == IF s \in opened THEN Opening[s[2] + 1] ELSE 0
  <1>1. Len(Opening) \in Nat /\ Len(Opening) <= MaxDepth + 1
    BY WalletAssumption
  <1>2. \A s \in opened : /\ s \in Secret /\ s[1] = "RECEIVE"
                          /\ s[2] \in 0 .. Len(Opening) - 1
                          /\ Opening[s[2] + 1] \in Amount \ {0}
    BY <1>1, WalletAssumption, MaxDepthAssumption
    DEF Secret, Derived, Chain, Depth
  <1>3. \A d \in Depth : <<"RECEIVE", d>> \in opened <=> d < Len(Opening)
    <2>1. ASSUME NEW d \in Depth, d < Len(Opening)
          PROVE  <<"RECEIVE", d>> \in opened
      <3>1. d + 1 \in 1 .. Len(Opening) /\ d = (d + 1) - 1
        BY <2>1, <1>1, MaxDepthAssumption DEF Depth
      <3> QED BY <3>1
    <2>2. ASSUME NEW d \in Depth, <<"RECEIVE", d>> \in opened
          PROVE  d < Len(Opening)
      BY <2>2, <1>2, <1>1
    <2> QED BY <2>1, <2>2
  <1>4. PICK offered \in SUBSET Foreign :
           /\ srv = [s \in Secret |-> IF s \in opened \cup offered
                                      THEN "unspent" ELSE "unknown"]
           /\ worth = [s \in Secret |-> IF s \in offered
                                        THEN FaceValue[s] ELSE sum(s)]
    BY DEF Init
  <1>5. \A s \in Secret : sum(s) \in Amount /\ (s \in opened => sum(s) > 0)
    BY <1>2, MaxAmountAssumption DEF Amount
  <1>6. TypeOK
    <2>1. srv \in [Secret -> Status] /\ worth \in [Secret -> Amount]
      BY <1>4, <1>5, WalletAssumption DEF Status
    <2>2. store \in Store
      BY <1>1, <1>5 DEF Init, Store, RowState
    <2>3. task \in [Task -> Locals] /\ late = {} /\ paid = {}
      BY IdleType DEF Init
    <2> QED BY <2>1, <2>2, <2>3 DEF TypeOK
  <1>7. \A s \in Secret : Known(s) <=> s \in opened \cup offered
    BY <1>4 DEF Known
  <1>8. ChainsContiguous
    <2> SUFFICES ASSUME NEW c \in Chain, NEW d \in Depth
                 PROVE  /\ d < store.depth[c] => Known(<<c, d>>)
                        /\ Known(<<c, d>>) =>
                             \A e \in 0 .. d : Known(<<c, e>>)
      BY DEF ChainsContiguous
    <2>1. \A e \in 0 .. d : e \in Depth
      BY MaxDepthAssumption DEF Depth
    <2>2. \A e \in Depth : Known(<<c, e>>) <=> <<c, e>> \in opened
      BY <1>7, DerivedSecret, ForeignAssumption
    <2>3. \A e \in Depth : <<c, e>> \in opened <=>
                             c = "RECEIVE" /\ e < Len(Opening)
      BY <1>2, <1>3
    <2>4. store.depth[c] = IF c = "RECEIVE" THEN Len(Opening) ELSE 0
      BY DEF Init
    <2> QED BY <2>1, <2>2, <2>3, <2>4, <1>1 DEF Depth
  <1>9. CallsCovered
    BY IdleCovered DEF CallsCovered, Init
  <1>10. LateCovered
    BY DEF Init, LateCovered
  <1>11. KnownWorth
    BY <1>4, <1>5, <1>7, WalletAssumption DEF KnownWorth, Init, Amount
  <1> QED BY <1>6, <1>8, <1>9, <1>10, <1>11 DEF CoverInv

----------------------------------------------------------------------------
(* What a step does to CoverInv, by what it does to the server *)

\* A secret the server knows stays known, and so does a prefix of a chain.
LEMMA CoveredGrows ==
  ASSUME \A s \in Secret : Known(s) => Known(s)',
         NEW l \in Locals, Covered(l)
  PROVE  Covered(l)'
  <1>1. \A c \in Chain : \A n : Prefix(c, n) => Prefix(c, n)'
    BY DerivedSecret DEF Prefix
  <1>2. \A s \in Listed(l.new) : s \in Secret
    BY DEF Listed
  <1> QED BY <1>1, <1>2 DEF Covered

LEMMA LateGrows ==
  ASSUME LateCovered, \A s \in Secret : Known(s) => Known(s)',
         late' \subseteq late
  PROVE  LateCovered'
  BY DerivedSecret DEF LateCovered, Prefix, Derived, Secret

\* A call advances and nothing else changes.
LEMMA LocalStep ==
  ASSUME CoverInv, UNCHANGED <<srv, worth, store, late, paid>>,
         NEW t \in Task, NEW l \in Locals, Covered(l),
         task' = [task EXCEPT ![t] = l]
  PROVE  CoverInv'
  <1>1. TypeOK'
    BY DEF CoverInv, TypeOK
  <1>2. ChainsContiguous' /\ LateCovered' /\ KnownWorth'
    BY DEF CoverInv, ChainsContiguous, LateCovered, KnownWorth, Prefix, Known
  <1>3. CallsCovered'
    <2> SUFFICES ASSUME NEW u \in Task PROVE Covered(task[u])'
      BY DEF CallsCovered
    <2>1. task'[u] = IF u = t THEN l ELSE task[u]
      BY DEF CoverInv, TypeOK
    <2>2. Covered(l)' /\ Covered(task[u])
      BY CoveredGrows DEF CoverInv, CallsCovered, TypeOK, Known
    <2>3. task[u] \in Locals
      BY DEF CoverInv, TypeOK
    <2>4. CASE u = t
      BY <2>1, <2>2, <2>4 DEF Covered
    <2>5. CASE u # t
      <3>1. task'[u] = task[u]
        BY <2>1, <2>5
      <3> QED BY <3>1, <2>2 DEF Covered, Prefix, Known
    <2> QED BY <2>4, <2>5
  <1> QED BY <1>1, <1>2, <1>3 DEF CoverInv

\* A call writes to the store; what it records is backed by the server.
LEMMA StoreStep ==
  ASSUME CoverInv, UNCHANGED <<srv, worth, late>>,
         NEW t \in Task, NEW l \in Locals, Covered(l),
         task' = [task EXCEPT ![t] = l],
         NEW st \in Store, store' = st,
         \A c \in Chain : Prefix(c, st.depth[c]),
         paid' \subseteq {"PAY"} \X Depth,
         \A s \in paid' : Known(s)
  PROVE  CoverInv'
  <1>1. TypeOK'
    BY DEF CoverInv, TypeOK
  <1>2. ChainsContiguous'
    BY DEF CoverInv, ChainsContiguous, Known, Prefix
  <1>3. LateCovered' /\ KnownWorth'
    BY DEF CoverInv, LateCovered, KnownWorth, Prefix, Known
  <1>4. CallsCovered'
    <2> SUFFICES ASSUME NEW u \in Task PROVE Covered(task[u])'
      BY DEF CallsCovered
    <2>1. task'[u] = IF u = t THEN l ELSE task[u]
      BY DEF CoverInv, TypeOK
    <2>2. Covered(l)' /\ Covered(task[u])
      BY CoveredGrows DEF CoverInv, CallsCovered, TypeOK, Known
    <2>3. task[u] \in Locals
      BY DEF CoverInv, TypeOK
    <2>4. CASE u = t
      BY <2>1, <2>2, <2>4 DEF Covered
    <2>5. CASE u # t
      <3>1. task'[u] = task[u]
        BY <2>1, <2>5
      <3> QED BY <3>1, <2>2 DEF Covered, Prefix, Known
    <2> QED BY <2>4, <2>5
  <1> QED BY <1>1, <1>2, <1>3, <1>4 DEF CoverInv

\* The server replaces: its outputs continue their chains.
LEMMA ReplaceStep ==
  ASSUME CoverInv, NEW req \in Request, Replaceable(req), Replace(req),
         \A s \in Listed(req.new) : s \in Derived /\ Prefix(s[1], s[2]),
         UNCHANGED <<store, paid>>, late' \subseteq late,
         task' \in [Task -> Locals], CallsCovered'
  PROVE  /\ CoverInv'
  <1>1. TypeOK'
    <2>1. worth' \in [Secret -> Amount]
      BY UpdatedType DEF CoverInv, TypeOK, Replace, Request, Coins
    <2>2. srv' \in [Secret -> Status]
      BY DEF CoverInv, TypeOK, Replace, Status
    <2> QED BY <2>1, <2>2 DEF CoverInv, TypeOK
  <1>2. \A s \in Secret : Known(s)' <=> Known(s) \/ s \in Listed(req.new)
    BY DEF Known, Replace, Replaceable, CoverInv, TypeOK, Status
  <1>3. ChainsContiguous'
    <2> SUFFICES ASSUME NEW c \in Chain, NEW d \in Depth
                 PROVE  /\ d < store.depth[c] => Known(<<c, d>>)'
                        /\ Known(<<c, d>>)' =>
                             \A e \in 0 .. d : Known(<<c, e>>)'
      BY DEF ChainsContiguous
    <2>1. <<c, d>> \in Secret /\ \A e \in 0 .. d : e \in Depth
      BY DerivedSecret, MaxDepthAssumption DEF Depth
    <2>2. d < store.depth[c] => Known(<<c, d>>)'
      BY <2>1, <1>2 DEF CoverInv, ChainsContiguous
    <2>3. CASE Known(<<c, d>>)
      BY <2>1, <2>2, <2>3, <1>2, DerivedSecret DEF CoverInv, ChainsContiguous
    <2>4. CASE <<c, d>> \in Listed(req.new)
      <3>1. Prefix(c, d)
        BY <2>4
      <3>2. \A e \in 0 .. d : e = d \/ Known(<<c, e>>)
        BY <3>1, <2>1, MaxDepthAssumption DEF Prefix, Depth
      <3> QED BY <3>2, <2>1, <2>2, <2>4, <1>2, DerivedSecret
    <2> QED BY <2>1, <2>2, <2>3, <2>4, <1>2
  <1>4. LateCovered'
    BY <1>2, LateGrows DEF CoverInv
  <1>5. KnownWorth'
    <2>1. \A s \in Secret : Known(s)' => worth'[s] > 0
      BY <1>2 DEF CoverInv, KnownWorth, Replace, Updated, Listed
    <2>2. \A s \in paid : s \in Secret
      BY DEF CoverInv, TypeOK, Secret, Derived, Chain
    <2> QED BY <2>1, <2>2, <1>2 DEF CoverInv, KnownWorth
  <1> QED BY <1>1, <1>3, <1>4, <1>5 DEF CoverInv

----------------------------------------------------------------------------
(* One lemma per action *)

LEMMA TaskType ==
  ASSUME CoverInv, NEW t \in Task
  PROVE  task[t] \in Locals /\ Covered(task[t])
  BY DEF CoverInv, TypeOK, CallsCovered

\* A call that has nothing at the server, and never had, may go anywhere.
LEMMA QuietCovered ==
  ASSUME NEW l \in Locals, Covered(l), NEW m \in Locals,
         m.read = l.read, m.used = l.used,
         m.pc \notin Inserting \cup Sent \cup Replaced
  PROVE  Covered(m)
  BY DEF Covered, Sent, Replaced

LEMMA FinishStep ==
  ASSUME CoverInv, NEW t \in Task, Finish(t),
         UNCHANGED <<srv, worth, store, late, paid>>
  PROVE  CoverInv'
  BY LocalStep, IdleType, IdleCovered DEF Finish

LEMMA InsertBeginStep ==
  ASSUME CoverInv, NEW t \in Task, NEW s \in Foreign \cup paid,
         NEW validate \in BOOLEAN, InsertBegin(t, s, validate)
  PROVE  CoverInv'
  <1> DEFINE d == store.depth["RECEIVE"]
             a == IF s \in Foreign THEN FaceValue[s] ELSE worth[s]
             l == [Idle EXCEPT !.pc = IF validate THEN "insert_validate"
                                      ELSE "insert_sent",
                               !.ins = Coin(s, a),
                               !.new = Coin(<<"RECEIVE", d>>, a),
                               !.read = [@ EXCEPT !["RECEIVE"] = d]]
  <1>1. d \in Depth /\ task' = [task EXCEPT ![t] = l]
        /\ UNCHANGED <<srv, worth, store, late, paid>>
    BY DEF InsertBegin, Begin
  <1>2. s \in Secret /\ <<"RECEIVE", d>> \in Secret
        /\ <<"RECEIVE", d>> \in Derived
    BY <1>1, DerivedSecret
    DEF CoverInv, TypeOK, Secret, Derived, Chain
  <1>3. a \in Amount /\ a > 0
    <2>1. CASE s \in Foreign
      BY <2>1, WalletAssumption, MaxAmountAssumption DEF Amount
    <2>2. CASE s \notin Foreign
      <3>1. worth \in [Secret -> Amount] /\ worth[s] > 0
        BY <1>2, <2>2 DEF CoverInv, TypeOK, KnownWorth
      <3> QED BY <1>2, <2>2, <3>1
    <2> QED BY <2>1, <2>2
  <1>4. Coin(s, a) \in Coins /\ Coin(<<"RECEIVE", d>>, a) \in Coins
        /\ Listed(Coin(<<"RECEIVE", d>>, a)) = {<<"RECEIVE", d>>}
    <2> HIDE DEF a, d
    <2> QED BY <1>2, <1>3, CoinType, CoinListed
  <1>5. l \in Locals
    <2> HIDE DEF a, d
    <2>1. d \in Nat
      BY <1>1, MaxDepthAssumption DEF Depth
    <2>2. (IF validate THEN "insert_validate" ELSE "insert_sent") \in PC
      BY DEF PC, Checking, Sent
    <2> QED BY <2>1, <2>2, <1>4, IdleType DEF Locals
  <1>6. /\ l.new = Coin(<<"RECEIVE", d>>, a) /\ l.used = Idle.used
        /\ l.pc \in {"insert_validate", "insert_sent"}
        /\ l.read = [Idle.read EXCEPT !["RECEIVE"] = d]
    BY DEF Idle
  <1>7. /\ l.read["RECEIVE"] = d
        /\ \A c \in Chain : l.read[c] = IF c = "RECEIVE" THEN d ELSE 0
    BY <1>6 DEF Idle, Chain
  <1>8. \A c \in Chain : Prefix(c, l.read[c]) /\ Prefix(c, l.used[c])
    BY <1>6, <1>7, IdleCovered, <1>1
    DEF Covered, CoverInv, ChainsContiguous, Prefix, Idle
  <1>9. Covered(l)
    BY <1>2, <1>4, <1>6, <1>7, <1>8 DEF Covered, Replaced, Inserting
  <1> QED BY <1>1, <1>5, <1>9, LocalStep

LEMMA PayBeginStep ==
  ASSUME CoverInv, NEW t \in Task, NEW amount \in Amount \ {0},
         PayBegin(t, amount)
  PROVE  CoverInv'
  <1>1. PICK S \in Selections(amount) :
           task' = [task EXCEPT ![t] = [Idle EXCEPT !.pc = "pay_selected",
                                                    !.ins = CoinsOf(S, store.amt),
                                                    !.amount = amount]]
    BY DEF PayBegin
  <1> DEFINE l == [Idle EXCEPT !.pc = "pay_selected",
                               !.ins = CoinsOf(S, store.amt),
                               !.amount = amount]
  <1>2. store.amt \in [Secret -> Amount]
    BY DEF CoverInv, TypeOK, Store
  <1>3. l \in Locals
    BY <1>2, CoinsOfType, IdleType DEF Locals, PC, Other
  <1>4. Covered(l)
    BY <1>3, IdleType, IdleCovered, QuietCovered
    DEF Locals, Inserting, Sent, Replaced
  <1> QED BY <1>1, <1>3, <1>4, LocalStep DEF PayBegin, Begin

LEMMA MergeBeginStep ==
  ASSUME CoverInv, NEW t \in Task, MergeBegin(t)
  PROVE  CoverInv'
  <1>1. PICK S \in SUBSET Unspent(store) :
           task' = [task EXCEPT ![t] = [Idle EXCEPT !.pc = "merge_selected",
                                                    !.ins = CoinsOf(S, store.amt)]]
    BY DEF MergeBegin
  <1> DEFINE l == [Idle EXCEPT !.pc = "merge_selected",
                               !.ins = CoinsOf(S, store.amt)]
  <1>2. store.amt \in [Secret -> Amount]
    BY DEF CoverInv, TypeOK, Store
  <1>3. l \in Locals
    BY <1>2, CoinsOfType, IdleType DEF Locals, PC, Other
  <1>4. Covered(l)
    BY <1>3, IdleType, IdleCovered, QuietCovered
    DEF Locals, Inserting, Sent, Replaced
  <1> QED BY <1>1, <1>3, <1>4, LocalStep DEF MergeBegin, Begin

LEMMA RecoverBeginStep ==
  ASSUME CoverInv, NEW t \in Task, RecoverBegin(t)
  PROVE  CoverInv'
  <1> DEFINE l == [Idle EXCEPT !.pc = "scan", !.read = store.depth]
  <1>1. l \in Locals
    BY IdleType DEF Locals, PC, Checking, CoverInv, TypeOK, Store
  <1>2. l.read = store.depth /\ l.used = Idle.used /\ l.pc = "scan"
    BY DEF Idle
  <1>3. \A c \in Chain : Prefix(c, l.read[c]) /\ Prefix(c, l.used[c])
    BY <1>2, IdleCovered DEF Covered, CoverInv, ChainsContiguous, Prefix
  <1>4. Covered(l)
    BY <1>2, <1>3 DEF Covered, Inserting, Sent, Replaced
  <1> QED BY <1>1, <1>4, LocalStep DEF RecoverBegin, Begin

----------------------------------------------------------------------------
(* The server's answers *)

LEMMA ReplaceGrows ==
  ASSUME TypeOK, NEW req \in Request, Replaceable(req), Replace(req)
  PROVE  \A s \in Secret : Known(s)' <=> Known(s) \/ s \in Listed(req.new)
  BY DEF Known, Replace, Replaceable, TypeOK, Status

\* What a request at the server creates continues its chains.
LEMMA RequestCovered ==
  ASSUME CoverInv, NEW t \in Task, task[t].pc \in Sent
  PROVE  /\ RequestOf(t) \in Request
         /\ \A s \in Listed(RequestOf(t).new) :
              s \in Derived /\ Prefix(s[1], s[2])
  <1>1. task[t] \in Locals /\ Covered(task[t])
    BY TaskType
  <1>2. \A s \in Derived : s[1] \in Chain
    BY DEF Derived
  <1> QED BY <1>1, <1>2 DEF Covered, RequestOf, Request, Locals

LEMMA ServerReplacesStep ==
  ASSUME CoverInv, NEW t \in Task, ServerReplaces(t)
  PROVE  CoverInv'
  <1>1. PICK l \in Locals : l = task[t]
    BY TaskType
  <1> DEFINE m == [l EXCEPT !.pc = NextPC[l.pc]]
  <1>2. /\ l.pc \in Sent /\ Replaceable(RequestOf(t)) /\ Replace(RequestOf(t))
        /\ task' = [task EXCEPT ![t] = m]
        /\ UNCHANGED <<store, late, paid>>
    BY <1>1 DEF ServerReplaces, Goto, CoverInv, TypeOK
  <1>3. Covered(l)
    BY <1>1, TaskType
  <1>4. m \in Locals
    BY <1>2 DEF Locals, NextPC, PC, Sent, Replaced
  <1>5. /\ m.read = l.read /\ m.used = l.used /\ m.new = l.new
        /\ m.pc = NextPC[l.pc]
    BY DEF Locals
  <1>6. \A s \in Secret : Known(s)' <=> Known(s) \/ s \in Listed(l.new)
    BY <1>1, <1>2, RequestCovered, ReplaceGrows DEF CoverInv, RequestOf
  <1>7. Covered(l)'
    BY <1>3, <1>6, CoveredGrows
  <1>8. Covered(m)'
    <2>1. \A s \in Listed(m.new) : s \in Secret /\ Known(s)'
      BY <1>5, <1>6 DEF Listed
    <2>2. \/ l.pc = "insert_sent" /\ m.pc = "insert_replaced"
          \/ l.pc = "pay_sent" /\ m.pc = "pay_replaced"
          \/ l.pc = "merge_sent" /\ m.pc = "merge_replaced"
      BY <1>2, <1>5 DEF Sent, NextPC
    <2> HIDE DEF m
    <2> QED BY <2>1, <2>2, <1>5, <1>7 DEF Covered, Inserting, Sent, Replaced
  <1>9. task' \in [Task -> Locals]
    BY <1>2, <1>4 DEF CoverInv, TypeOK
  <1>10. CallsCovered'
    <2> SUFFICES ASSUME NEW u \in Task PROVE Covered(task[u])'
      BY DEF CallsCovered
    <2>1. PICK k \in Locals : k = task[u] /\ Covered(k)
      BY TaskType
    <2>2. Covered(k)'
      BY <2>1, <1>6, CoveredGrows
    <2>3. task'[u] = IF u = t THEN m ELSE k
      BY <1>2, <2>1 DEF CoverInv, TypeOK
    <2> HIDE DEF m
    <2>4. CASE u = t
      BY <2>3, <2>4, <1>8 DEF Covered
    <2>5. CASE u # t
      BY <2>2, <2>3, <2>5 DEF Covered
    <2> QED BY <2>4, <2>5
  <1> QED
    BY <1>2, <1>9, <1>10, RequestCovered, ReplaceStep, <1>1

LEMMA ServerRefusesStep ==
  ASSUME CoverInv, NEW t \in Task, ServerRefuses(t)
  PROVE  CoverInv'
  <1>1. CASE Finish(t)
    BY <1>1, FinishStep DEF ServerRefuses
  <1>2. CASE Goto(t, "insert_fallback")
    <2> DEFINE m == [task[t] EXCEPT !.pc = "insert_fallback"]
    <2>1. m \in Locals /\ Covered(m)
      BY TaskType, QuietCovered
      DEF Locals, PC, Checking, Inserting, Sent, Replaced
    <2> QED BY <2>1, <1>2, LocalStep DEF Goto, ServerRefuses
  <1> QED BY <1>1, <1>2 DEF ServerRefuses

LEMMA LateReplaceStep ==
  ASSUME CoverInv, NEW req \in late, LateReplace(req)
  PROVE  CoverInv'
  <1>1. late' \subseteq late /\ UNCHANGED <<store, task, paid>>
    BY DEF LateReplace
  <1>2. req \in Request
    BY DEF CoverInv, TypeOK
  <1>3. CASE Replaceable(req) /\ Replace(req)
    <2>1. \A s \in Listed(req.new) : s \in Derived /\ Prefix(s[1], s[2])
      BY DEF CoverInv, LateCovered
    <2>2. \A s \in Secret : Known(s) => Known(s)'
      BY <1>2, <1>3, ReplaceGrows DEF CoverInv
    <2>3. CallsCovered'
      <3> SUFFICES ASSUME NEW u \in Task PROVE Covered(task[u])'
        BY DEF CallsCovered
      <3>1. PICK k \in Locals : k = task[u] /\ Covered(k)
        BY TaskType
      <3>2. Covered(k)'
        BY <3>1, <2>2, CoveredGrows
      <3> QED BY <3>1, <3>2, <1>1 DEF Covered
    <2>4. task' \in [Task -> Locals]
      BY <1>1 DEF CoverInv, TypeOK
    <2> QED BY <1>1, <1>2, <1>3, <2>1, <2>3, <2>4, ReplaceStep
  <1>4. CASE UNCHANGED ledgerVars
    <2>1. TypeOK'
      BY <1>1, <1>4 DEF CoverInv, TypeOK, ledgerVars
    <2>2. ChainsContiguous' /\ KnownWorth'
      BY <1>1, <1>4
      DEF CoverInv, ChainsContiguous, KnownWorth, Known, ledgerVars
    <2>3. LateCovered'
      BY <1>1, <1>4, LateGrows DEF CoverInv, Known, ledgerVars
    <2>4. CallsCovered'
      BY <1>1, <1>4 DEF CoverInv, CallsCovered, Covered, Prefix, Known, ledgerVars
    <2> QED BY <2>1, <2>2, <2>3, <2>4 DEF CoverInv
  <1> QED BY <1>3, <1>4 DEF LateReplace

LEMMA OthersSpendStep ==
  ASSUME CoverInv, NEW s \in Foreign \cup paid, OthersSpend(s)
  PROVE  CoverInv'
  <1>1. /\ srv[s] = "unspent" /\ srv' = [srv EXCEPT ![s] = "spent"]
        /\ UNCHANGED <<worth, store, task, late, paid>>
    BY DEF OthersSpend, SpentElsewhere
  <1>2. \A x \in Secret : Known(x)' <=> Known(x)
    BY <1>1 DEF Known, CoverInv, TypeOK
  <1>3. TypeOK'
    BY <1>1 DEF CoverInv, TypeOK, Status
  <1>4. ChainsContiguous'
    <2> SUFFICES ASSUME NEW c \in Chain, NEW d \in Depth
                 PROVE  /\ d < store.depth[c] => Known(<<c, d>>)'
                        /\ Known(<<c, d>>)' =>
                             \A e \in 0 .. d : Known(<<c, e>>)'
      BY <1>1 DEF ChainsContiguous
    <2>1. \A e \in 0 .. d : e \in Depth
      BY MaxDepthAssumption DEF Depth
    <2> QED BY <2>1, <1>2, DerivedSecret DEF CoverInv, ChainsContiguous
  <1>5. LateCovered'
    BY <1>1, <1>2, LateGrows DEF CoverInv
  <1>6. KnownWorth'
    BY <1>1, <1>2 DEF CoverInv, KnownWorth, TypeOK, Secret, Derived, Chain
  <1>7. CallsCovered'
    <2> SUFFICES ASSUME NEW u \in Task PROVE Covered(task[u])'
      BY DEF CallsCovered
    <2>1. PICK k \in Locals : k = task[u] /\ Covered(k)
      BY TaskType
    <2>2. Covered(k)'
      BY <2>1, <1>2, CoveredGrows
    <2> QED BY <2>1, <2>2, <1>1 DEF Covered
  <1> QED BY <1>3, <1>4, <1>5, <1>6, <1>7 DEF CoverInv

----------------------------------------------------------------------------
(* What the store becomes *)

LEMMA StoreOpsType ==
  ASSUME NEW st \in Store
  PROVE  /\ \A s \in Secret, a \in Amount : insert_output(st, s, a) \in Store
         /\ \A c \in Chain, d \in Nat : set_depth(st, c, d) \in Store
         /\ \A s \in Secret, a \in Amount :
              insert_output(st, s, a).depth = st.depth
         /\ \A c, e \in Chain, d \in Nat :
              set_depth(st, c, d).depth[e] = IF e = c THEN d ELSE st.depth[e]
  <1>1. \A s \in Secret, a \in Amount :
          /\ insert_output(st, s, a) \in Store
          /\ insert_output(st, s, a).depth = st.depth
    BY DEF insert_output, Store, RowState
  <1>2. \A c \in Chain, d \in Nat : set_depth(st, c, d) \in Store
    BY DEF set_depth, Store
  <1>3. \A c, e \in Chain, d \in Nat :
          set_depth(st, c, d).depth[e] = IF e = c THEN d ELSE st.depth[e]
    BY DEF set_depth, Store
  <1> QED BY <1>1, <1>2, <1>3

\* A write of an output leaves the depths alone.
LEMMA OutputStep ==
  ASSUME CoverInv, UNCHANGED <<srv, worth, late, paid>>,
         NEW t \in Task, NEW l \in Locals, Covered(l),
         task' = [task EXCEPT ![t] = l],
         NEW s \in Secret, NEW a \in Amount,
         \/ store' = insert_output(store, s, a)
         \/ store' = store
  PROVE  CoverInv'
  <1>1. PICK st \in Store : st = store'
    BY StoreOpsType DEF CoverInv, TypeOK
  <1>2. st.depth = store.depth
    BY <1>1, StoreOpsType DEF CoverInv, TypeOK
  <1>3. \A c \in Chain : Prefix(c, st.depth[c])
    BY <1>2 DEF Prefix, CoverInv, ChainsContiguous
  <1>4. paid' \subseteq {"PAY"} \X Depth /\ \A x \in paid' : Known(x)
    BY DEF CoverInv, TypeOK, KnownWorth
  <1> QED BY <1>1, <1>3, <1>4, StoreStep

\* So does a write of a depth below which everything is known.
LEMMA DepthStep ==
  ASSUME CoverInv, UNCHANGED <<srv, worth, late, paid>>,
         NEW t \in Task, NEW l \in Locals, Covered(l),
         task' = [task EXCEPT ![t] = l],
         NEW c \in Chain, NEW d \in Nat, Prefix(c, d),
         store' = set_depth(store, c, d)
  PROVE  CoverInv'
  <1>1. PICK st \in Store : st = store'
    BY StoreOpsType DEF CoverInv, TypeOK
  <1>2. \A e \in Chain : st.depth[e] = IF e = c THEN d ELSE store.depth[e]
    BY <1>1, StoreOpsType DEF CoverInv, TypeOK
  <1>3. \A e \in Chain : Prefix(e, st.depth[e])
    BY <1>2 DEF Prefix, CoverInv, ChainsContiguous
  <1>4. paid' \subseteq {"PAY"} \X Depth /\ \A x \in paid' : Known(x)
    BY DEF CoverInv, TypeOK, KnownWorth
  <1> QED BY <1>1, <1>3, <1>4, StoreStep

----------------------------------------------------------------------------
(* insert *)

\* A prefix grows by a depth the server knows.
LEMMA PrefixNext ==
  ASSUME NEW c \in Chain, NEW d \in Nat, Prefix(c, d), Known(<<c, d>>)
  PROVE  Prefix(c, d + 1)
  BY MaxDepthAssumption DEF Prefix, Depth

LEMMA InsertValidateStep ==
  ASSUME CoverInv, NEW t \in Task, InsertValidate(t)
  PROVE  CoverInv'
  <1>1. CASE Finish(t)
    BY <1>1, FinishStep DEF InsertValidate
  <1>2. CASE Goto(t, "insert_sent")
    <2> DEFINE m == [task[t] EXCEPT !.pc = "insert_sent"]
    <2>1. task[t] \in Locals /\ Covered(task[t])
      BY TaskType
    <2>2. m \in Locals
      BY <2>1 DEF Locals, PC, Sent
    <2>3. /\ task[t].pc = "insert_validate" /\ m.pc = "insert_sent"
          /\ m.new = task[t].new /\ m.read = task[t].read
          /\ m.used = task[t].used
      BY <2>1 DEF Locals, InsertValidate
    <2>4. Covered(m)
      BY <2>1, <2>3 DEF Covered, Inserting, Sent, Replaced
    <2> QED BY <2>2, <2>4, <1>2, LocalStep DEF Goto, InsertValidate
  <1> QED BY <1>1, <1>2 DEF InsertValidate

LEMMA InsertStoreStep ==
  ASSUME CoverInv, NEW t \in Task, InsertStore(t)
  PROVE  CoverInv'
  <1>1. PICK s \in Listed(task[t].new) :
          \/ /\ store' = insert_output(store, s, task[t].new[s])
             /\ Goto(t, "insert_stored")
          \/ Finish(t) /\ UNCHANGED store
    BY DEF InsertStore
  <1>2. task[t] \in Locals /\ Covered(task[t])
    BY TaskType
  <1>3. s \in Secret /\ task[t].new[s] \in Amount
    BY <1>2 DEF Locals, Coins, Listed
  <1>4. CASE Finish(t) /\ UNCHANGED store
    BY <1>4, FinishStep DEF InsertStore
  <1>5. CASE Goto(t, "insert_stored")
    <2> DEFINE m == [task[t] EXCEPT !.pc = "insert_stored"]
    <2>1. m \in Locals
      BY <1>2 DEF Locals, PC, Replaced
    <2>2. /\ task[t].pc = "insert_replaced" /\ m.pc = "insert_stored"
          /\ m.new = task[t].new /\ m.read = task[t].read
          /\ m.used = task[t].used
      BY <1>2 DEF Locals, InsertStore
    <2>3. Covered(m)
      BY <1>2, <2>2 DEF Covered, Inserting, Sent, Replaced
    <2>4. \/ store' = insert_output(store, s, task[t].new[s])
          \/ store' = store
      BY <1>1
    <2>5. task' = [task EXCEPT ![t] = m] /\ UNCHANGED <<srv, worth, late, paid>>
      BY <1>5 DEF Goto, InsertStore
    <2> HIDE DEF m
    <2> QED BY <2>1, <2>3, <2>4, <2>5, <1>3, OutputStep
  <1> QED BY <1>1, <1>4, <1>5

LEMMA InsertSetDepthStep ==
  ASSUME CoverInv, NEW t \in Task, InsertSetDepth(t)
  PROVE  CoverInv'
  <1> DEFINE d == task[t].read["RECEIVE"]
  <1>1. /\ store' = set_depth(store, "RECEIVE", d + 1)
        /\ task' = [task EXCEPT ![t] = Idle]
        /\ UNCHANGED <<srv, worth, late, paid>>
        /\ task[t].pc = "insert_stored"
    BY DEF InsertSetDepth, Finish
  <1>2. d \in Nat /\ "RECEIVE" \in Chain
    BY TaskType DEF Locals, Chain
  <1>3. Prefix("RECEIVE", d) /\ Known(<<"RECEIVE", d>>)
    BY <1>1, <1>2, TaskType DEF Covered, Inserting, Replaced
  <1>4. Prefix("RECEIVE", d + 1) /\ d + 1 \in Nat
    BY <1>2, <1>3, PrefixNext
  <1> HIDE DEF d
  <1> QED BY <1>1, <1>2, <1>4, DepthStep, IdleType, IdleCovered

LEMMA InsertFallbackStep ==
  ASSUME CoverInv, NEW t \in Task, InsertFallback(t)
  PROVE  CoverInv'
  <1>1. CASE Finish(t)
    BY <1>1, FinishStep DEF InsertFallback
  <1>2. CASE Goto(t, "insert_direct")
    <2> DEFINE m == [task[t] EXCEPT !.pc = "insert_direct"]
    <2>1. m \in Locals /\ Covered(m)
      BY TaskType, QuietCovered
      DEF Locals, PC, Other, Inserting, Sent, Replaced
    <2> QED BY <2>1, <1>2, LocalStep DEF Goto, InsertFallback
  <1> QED BY <1>1, <1>2 DEF InsertFallback

LEMMA InsertDirectStep ==
  ASSUME CoverInv, NEW t \in Task, InsertDirect(t)
  PROVE  CoverInv'
  <1>1. PICK s \in Listed(task[t].ins) :
          \/ store' = insert_output(store, s, task[t].ins[s])
          \/ store' = store
    BY DEF InsertDirect, store_directly
  <1>2. s \in Secret /\ task[t].ins[s] \in Amount
    BY TaskType DEF Locals, Coins, Listed
  <1>3. task' = [task EXCEPT ![t] = Idle] /\ UNCHANGED <<srv, worth, late, paid>>
    BY DEF InsertDirect, Finish
  <1> QED BY <1>1, <1>2, <1>3, OutputStep, IdleType, IdleCovered

----------------------------------------------------------------------------
(* pay and merge *)

LEMMA SendStep ==
  ASSUME CoverInv, NEW t \in Task, NEW pc \in {"pay_sent", "merge_sent"},
         NEW new \in Coins, Send(t, pc, new),
         \A s \in Listed(new) : /\ s \in Derived
                                /\ s[1] \in {"PAY", "CHANGE"}
                                /\ s[2] = store.depth[s[1]]
  PROVE  CoverInv'
  <1> DEFINE m == [task[t] EXCEPT !.pc = pc, !.read = store.depth, !.new = new]
  <1>1. task' = [task EXCEPT ![t] = m]
        /\ UNCHANGED <<srv, worth, store, late, paid>>
    BY DEF Send
  <1>2. task[t] \in Locals /\ Covered(task[t])
    BY TaskType
  <1>3. store.depth \in [Chain -> Nat]
    BY DEF CoverInv, TypeOK, Store
  <1>4. m \in Locals
    BY <1>2, <1>3 DEF Locals, PC, Sent
  <1>5. /\ m.pc = pc /\ m.read = store.depth /\ m.new = new
        /\ m.used = task[t].used
    BY <1>2 DEF Locals
  <1>6. \A c \in Chain : Prefix(c, store.depth[c])
    BY DEF CoverInv, ChainsContiguous, Prefix
  <1> HIDE DEF m
  <1>7. Covered(m)
    BY <1>2, <1>5, <1>6 DEF Covered, Inserting, Replaced
  <1> QED BY <1>1, <1>4, <1>7, LocalStep

LEMMA PaySendStep ==
  ASSUME CoverInv, NEW t \in Task, PaySend(t)
  PROVE  CoverInv'
  <1> DEFINE p == <<"PAY", store.depth["PAY"]>>
             q == <<"CHANGE", store.depth["CHANGE"]>>
             amount == task[t].amount
  <1>1. PICK change \in Amount :
          /\ p \in Derived /\ (change > 0 => q \in Derived)
          /\ Send(t, "pay_sent", IF change > 0
                                 THEN Updated(Coin(p, amount), Coin(q, change))
                                 ELSE Coin(p, amount))
    BY DEF PaySend
  <1>2. amount \in Amount
    BY TaskType DEF Locals
  <1>3. p[1] = "PAY" /\ p[2] = store.depth[p[1]]
        /\ q[1] = "CHANGE" /\ q[2] = store.depth[q[1]]
    OBVIOUS
  <1>4. \A s \in Derived : s \in Secret
    BY DEF Secret
  <1> HIDE DEF p, q, amount
  <1>5. Coin(p, amount) \in Coins /\ Listed(Coin(p, amount)) \subseteq {p}
    BY <1>1, <1>2, <1>4, CoinType, CoinListsOne
  <1>6. CASE change > 0
    <2>1. Coin(q, change) \in Coins /\ Listed(Coin(q, change)) \subseteq {q}
      BY <1>1, <1>4, <1>6, CoinType, CoinListsOne
    <2> DEFINE new == Updated(Coin(p, amount), Coin(q, change))
    <2>2. new \in Coins
      BY <1>5, <2>1, UpdatedType
    <2>3. Listed(new) \subseteq {p, q}
      BY <1>5, <2>1 DEF Listed, Updated
    <2>4. Send(t, "pay_sent", new)
      BY <1>1, <1>6
    <2> HIDE DEF new
    <2> QED BY <2>2, <2>3, <2>4, <1>1, <1>3, <1>6, SendStep
  <1>7. CASE ~(change > 0)
    <2>1. Send(t, "pay_sent", Coin(p, amount))
      BY <1>1, <1>7
    <2> QED BY <2>1, <1>1, <1>3, <1>5, SendStep
  <1> QED BY <1>6, <1>7

LEMMA MergeSendStep ==
  ASSUME CoverInv, NEW t \in Task, MergeSend(t)
  PROVE  CoverInv'
  <1> DEFINE q == <<"CHANGE", store.depth["CHANGE"]>>
  <1>1. PICK sum \in Amount : Send(t, "merge_sent", Coin(q, sum))
    BY DEF MergeSend
  <1>2. q \in Derived /\ q[1] = "CHANGE" /\ q[2] = store.depth[q[1]]
    BY DEF MergeSend
  <1> HIDE DEF q
  <1>3. q \in Secret
    BY <1>2 DEF Secret
  <1>4. Coin(q, sum) \in Coins /\ Listed(Coin(q, sum)) \subseteq {q}
    BY <1>3, CoinType, CoinListsOne
  <1> QED BY <1>1, <1>2, <1>4, SendStep

\* The transaction leaves the depths at or past what the call has used.
LEMMA RecordedStore ==
  ASSUME CoverInv, NEW t \in Task,
         task[t].pc \in {"pay_replaced", "merge_replaced"}
  PROVE  /\ Recorded(t) \in Store
         /\ \A c \in Chain : Prefix(c, Recorded(t).depth[c])
  <1>1. task[t] \in Locals /\ Covered(task[t])
    BY TaskType
  <1>2. store \in Store
    BY DEF CoverInv, TypeOK
  <1> DEFINE ms == mark_spent(store, Listed(task[t].ins))
  <1>3. ms \in Store /\ ms.depth = store.depth
    BY <1>2 DEF mark_spent, Store, RowState, Listed
  <1>4. RowsWith(ms.row, Kept(t)) \in [Secret -> RowState]
    BY <1>3 DEF RowsWith, Store, RowState
  <1>5. Updated(ms.amt, CoinsOf(Kept(t), task[t].new)) \in [Secret -> Amount]
    BY <1>1, <1>3, CoinsOfType, UpdatedType DEF Store, Locals, Coins
  <1>6. DepthsPast(t, ms.depth) \in [Chain -> Nat]
    BY <1>1, <1>3 DEF DepthsPast, Store, Locals
  <1> HIDE DEF ms
  <1>7. Recorded(t) = [ms EXCEPT
           !.row   = RowsWith(ms.row, Kept(t)),
           !.amt   = Updated(ms.amt, CoinsOf(Kept(t), task[t].new)),
           !.depth = DepthsPast(t, ms.depth)]
    BY <1>3 DEF Recorded, ms, Store
  <1>8. Recorded(t) \in Store /\ Recorded(t).depth = DepthsPast(t, ms.depth)
    BY <1>3, <1>4, <1>5, <1>6, <1>7 DEF Store
  <1>9. ASSUME NEW c \in Chain PROVE Prefix(c, DepthsPast(t, store.depth)[c])
    <2>1. CASE \E s \in Listed(task[t].new) : s[1] = c
      <3>1. PICK s \in Listed(task[t].new) : s[1] = c
        BY <2>1
      <3>2. s \in Derived /\ s[2] = task[t].read[c] /\ Known(s)
        BY <1>1, <3>1 DEF Covered, Replaced
      <3>3. s = <<c, task[t].read[c]>>
        BY <3>1, <3>2 DEF Derived
      <3>4. task[t].read[c] \in Nat /\ Prefix(c, task[t].read[c])
        BY <1>1 DEF Locals, Covered
      <3>5. Prefix(c, task[t].read[c] + 1)
        BY <3>2, <3>3, <3>4, PrefixNext
      <3> QED BY <3>5, <2>1 DEF DepthsPast
    <2>2. CASE ~\E s \in Listed(task[t].new) : s[1] = c
      BY <2>2 DEF DepthsPast, CoverInv, ChainsContiguous, Prefix
    <2> QED BY <2>1, <2>2
  <1> QED BY <1>3, <1>8, <1>9

LEMMA CommitStep ==
  ASSUME CoverInv, NEW t \in Task, Commit(t), UNCHANGED <<srv, worth, late>>,
         task[t].pc \in {"pay_replaced", "merge_replaced"},
         paid' \subseteq {"PAY"} \X Depth,
         \A s \in paid' : Known(s)
  PROVE  CoverInv'
  <1>1. store' = Recorded(t) \/ store' = store
    BY DEF Commit
  <1>2. task' = [task EXCEPT ![t] = Idle]
    BY DEF Commit, Finish
  <1>3. store' \in Store /\ \A c \in Chain : Prefix(c, store'.depth[c])
    BY <1>1, RecordedStore DEF CoverInv, TypeOK, ChainsContiguous, Prefix
  <1>4. PICK st \in Store : st = store'
    BY <1>3
  <1> QED BY <1>2, <1>3, <1>4, StoreStep, IdleType, IdleCovered

LEMMA PayCommitStep ==
  ASSUME CoverInv, NEW t \in Task, PayCommit(t)
  PROVE  CoverInv'
  <1>1. task[t] \in Locals /\ Covered(task[t]) /\ task[t].pc = "pay_replaced"
    BY TaskType DEF PayCommit
  <1>2. paid' \subseteq paid \cup (Listed(task[t].new) \ Kept(t))
    BY DEF PayCommit
  <1>3. \A s \in Listed(task[t].new) :
           Known(s) /\ s \in Derived /\ s[1] \in {"PAY", "CHANGE"}
    BY <1>1 DEF Covered, Replaced, Sent
  <1>4. \A s \in Listed(task[t].new) \ Kept(t) : s \in {"PAY"} \X Depth
    BY <1>3 DEF Kept, Derived
  <1>5. paid' \subseteq {"PAY"} \X Depth /\ \A s \in paid' : Known(s)
    BY <1>2, <1>3, <1>4 DEF CoverInv, TypeOK, KnownWorth
  <1> QED BY <1>1, <1>5, CommitStep DEF PayCommit

LEMMA MergeCommitStep ==
  ASSUME CoverInv, NEW t \in Task, MergeCommit(t)
  PROVE  CoverInv'
  <1>1. paid' \subseteq {"PAY"} \X Depth /\ \A s \in paid' : Known(s)
    BY DEF MergeCommit, CoverInv, TypeOK, KnownWorth
  <1> QED BY <1>1, CommitStep DEF MergeCommit

----------------------------------------------------------------------------
(* recover *)

LEMMA ScanOnType ==
  ASSUME NEW k \in Locals, k.pc = "scan", NEW hit \in BOOLEAN
  PROVE  /\ ScanOn(k, hit) \in Locals
         /\ ScanOn(k, hit).read = k.read /\ ScanOn(k, hit).used = k.used
         /\ ScanOn(k, hit).pc \in {"scan", "recover_store"}
  <1>1. k.from + GapLimit \in Nat
    BY WalletAssumption DEF Locals
  <1>2. k.chain \in DOMAIN ChainAfter => ChainAfter[k.chain] \in Chain
    BY DEF ChainAfter, Chain
  <1>3. "recover_store" \in PC /\ "RECEIVE" \in Chain
    BY DEF PC, Other, Chain
  <1> QED BY <1>1, <1>2, <1>3 DEF ScanOn, Locals

LEMMA NextChainType ==
  ASSUME NEW l \in Locals, Covered(l),
         l.pc \in {"recover_depths", "recover_set"}
  PROVE  NextChain(l) \in Locals /\ Covered(NextChain(l))
  <1>1. CASE l.chain \in DOMAIN ChainAfter
    <2> DEFINE m == [l EXCEPT !.pc = "recover_depths",
                              !.chain = ChainAfter[l.chain]]
    <2>1. NextChain(l) = m
      BY <1>1 DEF NextChain
    <2>2. m \in Locals
      <3>1. ChainAfter[l.chain] \in Chain
        BY <1>1 DEF ChainAfter, Chain
      <3>2. "recover_depths" \in PC
        BY DEF PC, Other
      <3> QED BY <3>1, <3>2 DEF Locals
    <2>3. m.read = l.read /\ m.used = l.used /\ m.pc = "recover_depths"
      BY DEF Locals
    <2> HIDE DEF m
    <2>4. Covered(m)
      BY <2>2, <2>3, QuietCovered DEF Inserting, Sent, Replaced
    <2> QED BY <2>1, <2>2, <2>4
  <1>2. CASE l.chain \notin DOMAIN ChainAfter
    <2> DEFINE m == [Idle EXCEPT !.pc = "recovered"]
    <2>1. NextChain(l) = m
      BY <1>2 DEF NextChain
    <2>2. m \in Locals
      BY IdleType DEF Locals, PC, AtRest
    <2>3. m.read = Idle.read /\ m.used = Idle.used /\ m.pc = "recovered"
      BY DEF Idle
    <2> HIDE DEF m
    <2>4. Covered(m)
      BY <2>2, <2>3, IdleType, IdleCovered, QuietCovered
      DEF Inserting, Sent, Replaced
    <2> QED BY <2>1, <2>2, <2>4
  <1> QED BY <1>1, <1>2

LEMMA RecoverScanStep ==
  ASSUME CoverInv, NEW t \in Task, RecoverScan(t)
  PROVE  CoverInv'
  <1> DEFINE l == task[t]
  <1>1. l \in Locals /\ Covered(l)
    BY TaskType
  <1> DEFINE window == {d \in Depth : d >= l.from /\ d < l.from + GapLimit}
             hits == Hits(l.chain, window)
             live == {s \in Secret : /\ srv[s] = "unspent"
                                     /\ \E d \in hits : s = <<l.chain, d>>}
             k(top) == [l EXCEPT
                          !.used = [@ EXCEPT ![l.chain] = top],
                          !.new = Updated(@, CoinsOf(live, worth))]
  <1>2. PICK top \in 0 .. MaxDepth + 1 :
          /\ \/ hits = {} /\ top = l.used[l.chain]
             \/ top - 1 \in hits /\ \A d \in hits : d < top
          /\ task' = [task EXCEPT ![t] = ScanOn(k(top), hits # {})]
    BY DEF RecoverScan
  <1>3. l.pc = "scan" /\ UNCHANGED <<srv, worth, store, late, paid>>
    BY DEF RecoverScan
  <1> HIDE DEF l
  <1>4. top \in Nat
    BY <1>2, MaxDepthAssumption
  <1>5. Prefix(l.chain, top)
    <2>1. CASE top = l.used[l.chain]
      BY <2>1, <1>1 DEF Covered, Locals
    <2>2. CASE top - 1 \in hits
      <3>1. top - 1 \in Depth /\ Known(<<l.chain, top - 1>>)
        BY <2>2 DEF Hits, Used
      <3>2. \A e \in 0 .. top - 1 : Known(<<l.chain, e>>)
        BY <3>1, <1>1 DEF CoverInv, ChainsContiguous, Locals
      <3> QED BY <3>2, <1>4, MaxDepthAssumption DEF Prefix, Depth
    <2> QED BY <2>1, <2>2, <1>2
  <1>6. Updated(l.new, CoinsOf(live, worth)) \in Coins
    BY <1>1, CoinsOfType, UpdatedType DEF CoverInv, TypeOK, Locals
  <1>7. k(top) \in Locals
    <2> HIDE DEF live
    <2> QED BY <1>1, <1>4, <1>6 DEF Locals
  <1>8. /\ k(top).pc = "scan" /\ k(top).read = l.read
        /\ k(top).used = [l.used EXCEPT ![l.chain] = top]
    BY <1>1, <1>3 DEF Locals
  <1> HIDE DEF k
  <1>9. Covered(k(top))
    BY <1>1, <1>5, <1>8 DEF Covered, Inserting, Sent, Replaced, Locals
  <1> DEFINE m == ScanOn(k(top), hits # {})
  <1>10. /\ m \in Locals /\ m.read = k(top).read /\ m.used = k(top).used
         /\ m.pc \in {"scan", "recover_store"}
    <2> HIDE DEF hits
    <2>1. (hits # {}) \in BOOLEAN
      OBVIOUS
    <2> QED BY <1>7, <1>8, <2>1, ScanOnType
  <1> HIDE DEF m
  <1>11. Covered(m)
    BY <1>7, <1>9, <1>10, QuietCovered DEF Inserting, Sent, Replaced
  <1>12. task' = [task EXCEPT ![t] = m]
    BY <1>2 DEF m
  <1> USE DEF l
  <1> QED BY <1>3, <1>10, <1>11, <1>12, LocalStep

LEMMA RecoverStoreStep ==
  ASSUME CoverInv, NEW t \in Task, RecoverStore(t)
  PROVE  CoverInv'
  <1>1. PICK s \in Listed(task[t].new) :
          /\ \/ store' = insert_output(store, s, task[t].new[s])
             \/ store' = store
          /\ task' = [task EXCEPT ![t].new = [@ EXCEPT ![s] = 0]]
    BY DEF RecoverStore, store_directly
  <1> DEFINE m == [task[t] EXCEPT !.new = [@ EXCEPT ![s] = 0]]
  <1>2. task[t] \in Locals /\ Covered(task[t])
    BY TaskType
  <1>3. s \in Secret /\ task[t].new[s] \in Amount
    BY <1>2 DEF Locals, Coins, Listed
  <1>4. [task[t].new EXCEPT ![s] = 0] \in Coins
    <2>1. task[t].new \in [Secret -> Amount] /\ 0 \in Amount
      BY <1>2, MaxAmountAssumption DEF Locals, Coins, Amount
    <2> QED BY <2>1 DEF Coins
  <1>5. m \in Locals
    BY <1>2, <1>4 DEF Locals
  <1>6. /\ m.read = task[t].read /\ m.used = task[t].used
        /\ m.pc = "recover_store"
    BY <1>2 DEF Locals, RecoverStore
  <1>7. task' = [task EXCEPT ![t] = m] /\ UNCHANGED <<srv, worth, late, paid>>
    BY <1>1 DEF RecoverStore
  <1> HIDE DEF m
  <1>8. Covered(m)
    BY <1>2, <1>5, <1>6, QuietCovered DEF Inserting, Sent, Replaced
  <1> QED BY <1>1, <1>3, <1>5, <1>7, <1>8, OutputStep

LEMMA RecoverStoredStep ==
  ASSUME CoverInv, NEW t \in Task, RecoverStored(t)
  PROVE  CoverInv'
  <1> DEFINE m == [task[t] EXCEPT !.pc = "recover_depths"]
  <1>1. m \in Locals /\ Covered(m)
    BY TaskType, QuietCovered
    DEF Locals, PC, Other, Inserting, Sent, Replaced
  <1> QED BY <1>1, LocalStep DEF Goto, RecoverStored

LEMMA RecoverReadDepthStep ==
  ASSUME CoverInv, NEW t \in Task, RecoverReadDepth(t)
  PROVE  CoverInv'
  <1>1. task[t] \in Locals /\ Covered(task[t]) /\ task[t].pc = "recover_depths"
    BY TaskType DEF RecoverReadDepth
  <1> DEFINE m == [task[t] EXCEPT !.pc = "recover_set"]
  <1>2. m \in Locals /\ Covered(m)
    BY <1>1, QuietCovered DEF Locals, PC, Other, Inserting, Sent, Replaced
  <1>3. NextChain(task[t]) \in Locals /\ Covered(NextChain(task[t]))
    BY <1>1, NextChainType
  <1>4. /\ \/ task' = [task EXCEPT ![t] = m]
           \/ task' = [task EXCEPT ![t] = NextChain(task[t])]
        /\ UNCHANGED <<srv, worth, store, late, paid>>
    BY DEF RecoverReadDepth
  <1> HIDE DEF m
  <1> QED BY <1>2, <1>3, <1>4, LocalStep

LEMMA RecoverSetDepthStep ==
  ASSUME CoverInv, NEW t \in Task, RecoverSetDepth(t)
  PROVE  CoverInv'
  <1>1. task[t] \in Locals /\ Covered(task[t]) /\ task[t].pc = "recover_set"
    BY TaskType DEF RecoverSetDepth
  <1>2. NextChain(task[t]) \in Locals /\ Covered(NextChain(task[t]))
    BY <1>1, NextChainType
  <1> DEFINE c == task[t].chain
             d == task[t].used[c]
  <1>3. c \in Chain /\ d \in Nat /\ Prefix(c, d)
    BY <1>1 DEF Locals, Covered
  <1>4. /\ store' = set_depth(store, c, d)
        /\ task' = [task EXCEPT ![t] = NextChain(task[t])]
        /\ UNCHANGED <<srv, worth, late, paid>>
    BY DEF RecoverSetDepth
  <1> HIDE DEF c, d
  <1> QED BY <1>2, <1>3, <1>4, DepthStep

----------------------------------------------------------------------------
(* Lost replies and a stopped process *)

LEMMA AbandonStep ==
  ASSUME CoverInv, UNCHANGED <<srv, worth, store, paid>>,
         late' \subseteq late \cup
                  {RequestOf(u) : u \in {v \in Task : task[v].pc \in Sent}},
         task' \in [Task -> Locals],
         \A u \in Task : task'[u] \in {Idle, task[u]}
  PROVE  CoverInv'
  <1>1. \A req \in late' : /\ req \in Request
                            /\ \A s \in Listed(req.new) :
                                 s \in Derived /\ Prefix(s[1], s[2])
    BY RequestCovered DEF CoverInv, TypeOK, LateCovered
  <1>2. TypeOK'
    BY <1>1 DEF CoverInv, TypeOK
  <1>3. ChainsContiguous' /\ KnownWorth'
    BY DEF CoverInv, ChainsContiguous, KnownWorth, Known
  <1>4. LateCovered'
    BY <1>1 DEF LateCovered, Prefix, Known
  <1>5. CallsCovered'
    <2> SUFFICES ASSUME NEW u \in Task PROVE Covered(task[u])'
      BY DEF CallsCovered
    <2>1. PICK k : k = task'[u]
      OBVIOUS
    <2>2. Covered(k)
      BY <2>1, TaskType, IdleCovered
    <2> QED BY <2>1, <2>2 DEF Covered, Prefix, Known
  <1> QED BY <1>2, <1>3, <1>4, <1>5 DEF CoverInv

LEMMA GiveUpStep ==
  ASSUME CoverInv, NEW t \in Task, GiveUp(t)
  PROVE  CoverInv'
  <1>1. late' \subseteq late \cup
                  {RequestOf(u) : u \in {v \in Task : task[v].pc \in Sent}}
    BY DEF GiveUp, Abandoned
  <1>2. task' \in [Task -> Locals] /\ \A u \in Task : task'[u] \in {Idle, task[u]}
    BY IdleType DEF GiveUp, Finish, CoverInv, TypeOK
  <1> QED BY <1>1, <1>2, AbandonStep DEF GiveUp

LEMMA CrashStep ==
  ASSUME CoverInv, Crash
  PROVE  CoverInv'
  <1>1. late' \subseteq late \cup
                  {RequestOf(u) : u \in {v \in Task : task[v].pc \in Sent}}
    BY DEF Crash, Abandoned
  <1>2. task' \in [Task -> Locals] /\ \A u \in Task : task'[u] \in {Idle, task[u]}
    BY IdleType DEF Crash
  <1> QED BY <1>1, <1>2, AbandonStep DEF Crash

----------------------------------------------------------------------------
(* The theorems *)

LEMMA CoverStep == CoverInv /\ [Next]_vars => CoverInv'
  <1> SUFFICES ASSUME CoverInv, [Next]_vars PROVE CoverInv'
    OBVIOUS
  <1>1. CASE UNCHANGED vars
    <2>1. late' \subseteq late /\ \A u \in Task : task'[u] \in {Idle, task[u]}
      BY <1>1 DEF vars
    <2>2. task' \in [Task -> Locals] /\ UNCHANGED <<srv, worth, store, paid>>
      BY <1>1 DEF vars, CoverInv, TypeOK
    <2> QED BY <2>1, <2>2, AbandonStep
  <1>2. ASSUME NEW t \in Task, Call(t) PROVE CoverInv'
    BY <1>2, InsertBeginStep, PayBeginStep, MergeBeginStep, RecoverBeginStep
    DEF Call
  <1>3. ASSUME NEW t \in Task, Advance(t) PROVE CoverInv'
    <2>1. CASE ServerReplaces(t) \/ ServerRefuses(t)
      BY <2>1, ServerReplacesStep, ServerRefusesStep
    <2>2. CASE InsertValidate(t) \/ InsertStore(t) \/ InsertSetDepth(t)
               \/ InsertFallback(t) \/ InsertDirect(t)
      BY <2>2, InsertValidateStep, InsertStoreStep, InsertSetDepthStep,
         InsertFallbackStep, InsertDirectStep
    <2>3. CASE PaySend(t) \/ PayCommit(t) \/ MergeSend(t) \/ MergeCommit(t)
      BY <2>3, PaySendStep, PayCommitStep, MergeSendStep, MergeCommitStep
    <2>4. CASE PastBounds(t)
      BY <2>4, FinishStep DEF PastBounds
    <2>5. CASE RecoverScan(t) \/ RecoverStore(t) \/ RecoverStored(t)
               \/ RecoverReadDepth(t) \/ RecoverSetDepth(t)
      BY <2>5, RecoverScanStep, RecoverStoreStep, RecoverStoredStep,
         RecoverReadDepthStep, RecoverSetDepthStep
    <2> QED BY <1>3, <2>1, <2>2, <2>3, <2>4, <2>5 DEF Advance
  <1>4. ASSUME NEW t \in Task, GiveUp(t) PROVE CoverInv'
    BY <1>4, GiveUpStep
  <1>5. CASE Crash
    BY <1>5, CrashStep
  <1>6. ASSUME NEW req \in late, LateReplace(req) PROVE CoverInv'
    BY <1>6, LateReplaceStep
  <1>7. ASSUME NEW s \in Foreign \cup paid, OthersSpend(s) PROVE CoverInv'
    BY <1>7, OthersSpendStep
  <1> QED BY <1>1, <1>2, <1>3, <1>4, <1>5, <1>6, <1>7 DEF Next, Progress

\* CoverInv holds in every reachable state, whatever the calls, the lost
\* replies, the late requests and the crashes.
THEOREM CoverAlways == Spec => []CoverInv
  <1>1. Init => CoverInv
    BY CoverInit
  <1>2. CoverInv /\ [Next]_vars => CoverInv'
    BY CoverStep
  <1> QED BY <1>1, <1>2, PTL DEF Spec

\* Every variable keeps its type: payments are always on the PAY chain, and no
\* call ever asks for more than the store and the server can represent.
THEOREM TypeAlways == Spec => []TypeOK
  <1>1. CoverInv => TypeOK
    BY DEF CoverInv
  <1> QED BY <1>1, CoverAlways, PTL

\* No depth of a chain is ever burned: the server knows the secrets of each
\* chain without a gap, and the recorded depth never runs ahead of them.
THEOREM ContiguousAlways == Spec => []ChainsContiguous
  <1>1. CoverInv => ChainsContiguous
    BY DEF CoverInv
  <1> QED BY <1>1, CoverAlways, PTL

----------------------------------------------------------------------------
(* Recovery *)

\* A window below the one that holds d starts at or below d.
LEMMA WindowBelow ==
  ASSUME NEW d \in Nat, NEW g \in Nat \ {0}, NEW w \in 0 .. (d \div g) - 1
  PROVE  w * g \in Nat /\ w * g <= d /\ w * g <= (w + 1) * g - 1
  <1>1. d \div g \in Nat /\ g * (d \div g) <= d
    BY SMT
  <1>2. w \in Nat /\ w <= d \div g
    BY <1>1
  <1>3. w * g <= g * (d \div g)
    BY <1>1, <1>2, SMT
  <1>4. w * g \in Nat
    BY <1>2
  <1>5. (w + 1) * g = w * g + g
    BY <1>2
  <1> QED BY <1>1, <1>3, <1>4, <1>5

\* Where the chains have no gap, every window up to a used depth has a used one,
\* namely its first.
LEMMA ContiguousVisited ==
  ASSUME TypeOK, ChainsContiguous,
         NEW c \in Chain, NEW d \in Depth, Known(<<c, d>>)
  PROVE  Visited(c, d)
  <1> SUFFICES ASSUME NEW w \in 0 .. (d \div GapLimit) - 1
               PROVE  \E e \in w * GapLimit .. (w + 1) * GapLimit - 1 : Used(c, e)
    BY DEF Visited
  <1> DEFINE e == w * GapLimit
  <1>1. d \in Nat /\ GapLimit \in Nat \ {0}
    BY WalletAssumption, MaxDepthAssumption DEF Depth
  <1>2. e \in Nat /\ e <= d /\ e <= (w + 1) * GapLimit - 1
    BY <1>1, WindowBelow
  <1>3. (w + 1) * GapLimit - 1 \in Int /\ w \in Int
    BY <1>1
  <1>4. e \in 0 .. d /\ e \in Depth
    BY <1>1, <1>2, MaxDepthAssumption DEF Depth
  <1>5. Known(<<c, e>>)
    BY <1>4 DEF ChainsContiguous
  <1>6. Used(c, e)
    BY <1>4, <1>5 DEF Used, Derived
  <1>7. e \in w * GapLimit .. (w + 1) * GapLimit - 1
    BY <1>2, <1>3
  <1> QED BY <1>6, <1>7

\* No money is lost: what the server holds for a secret of this wallet is a
\* spendable row, or the scan of a recover() from the seed gets to it.
THEOREM RecoverableAlways == Spec => []Recoverable
  <1>1. CoverInv => Recoverable
    <2> SUFFICES ASSUME CoverInv, NEW c \in Chain, NEW d \in Depth,
                        srv[<<c, d>>] = "unspent"
                 PROVE  Visited(c, d)
      BY DEF Recoverable
    <2>1. Known(<<c, d>>)
      BY DEF Known
    <2> QED BY <2>1, ContiguousVisited DEF CoverInv
  <1> QED BY <1>1, CoverAlways, PTL

----------------------------------------------------------------------------
(* Spent rows *)

\* A row marked spent stays so through what a call does to the store.
LEMMA InsertKeepsSpent ==
  ASSUME TypeOK, NEW s \in Secret, NEW r \in Secret, NEW a,
         store.row[s] = "spent", CanInsert(store, r)
  PROVE  insert_output(store, r, a).row[s] = "spent"
  BY DEF TypeOK, Store, CanInsert, Stored, insert_output

LEMMA DirectKeepsSpent ==
  ASSUME TypeOK, NEW s \in Secret, NEW r \in Secret, NEW a,
         store.row[s] = "spent", store_directly(r, a)
  PROVE  store'.row[s] = "spent"
  BY InsertKeepsSpent DEF store_directly

LEMMA DepthKeepsSpent ==
  ASSUME TypeOK, NEW s \in Secret, NEW c, NEW d,
         store.row[s] = "spent"
  PROVE  set_depth(store, c, d).row[s] = "spent"
  BY DEF TypeOK, Store, set_depth

LEMMA CommitKeepsSpent ==
  ASSUME TypeOK, NEW t \in Task, NEW s \in Secret,
         store.row[s] = "spent", Commit(t)
  PROVE  store'.row[s] = "spent"
  <1>1. CASE \A k \in Kept(t) : CanInsert(store, k)
    <2>1. store'.row = RowsWith(mark_spent(store, Listed(task[t].ins)).row, Kept(t))
      BY <1>1 DEF Commit, Recorded, mark_spent, TypeOK, Store
    <2>2. mark_spent(store, Listed(task[t].ins)).row[s] = "spent"
      BY DEF mark_spent, TypeOK, Store
    <2>3. s \notin Kept(t)
      BY <1>1 DEF CanInsert, Stored
    <2> QED BY <2>1, <2>2, <2>3 DEF RowsWith
  <1>2. CASE ~ \A k \in Kept(t) : CanInsert(store, k)
    BY <1>2 DEF Commit
  <1> QED BY <1>1, <1>2

LEMMA StepKeepsSpent ==
  ASSUME TypeOK, NEW s \in Secret, store.row[s] = "spent", [Next]_vars
  PROVE  store'.row[s] = "spent"
  <1>1. ASSUME NEW t \in Task, InsertStore(t) PROVE store'.row[s] = "spent"
    BY <1>1, InsertKeepsSpent DEF InsertStore, Listed
  <1>2. ASSUME NEW t \in Task, InsertSetDepth(t) PROVE store'.row[s] = "spent"
    BY <1>2, DepthKeepsSpent DEF InsertSetDepth
  <1>3. ASSUME NEW t \in Task, InsertDirect(t) PROVE store'.row[s] = "spent"
    BY <1>3, DirectKeepsSpent DEF InsertDirect, Listed
  <1>4. ASSUME NEW t \in Task, RecoverStore(t) PROVE store'.row[s] = "spent"
    BY <1>4, DirectKeepsSpent DEF RecoverStore, Listed
  <1>5. ASSUME NEW t \in Task, RecoverSetDepth(t) PROVE store'.row[s] = "spent"
    BY <1>5, DepthKeepsSpent DEF RecoverSetDepth
  <1>6. ASSUME NEW t \in Task, PayCommit(t) \/ MergeCommit(t)
        PROVE  store'.row[s] = "spent"
    BY <1>6, CommitKeepsSpent DEF PayCommit, MergeCommit
  <1>7. ASSUME NEW t \in Task, Advance(t) PROVE store'.row[s] = "spent"
    <2>1. CASE \/ InsertStore(t) \/ InsertSetDepth(t) \/ InsertDirect(t)
               \/ RecoverStore(t) \/ RecoverSetDepth(t)
               \/ PayCommit(t) \/ MergeCommit(t)
      BY <2>1, <1>1, <1>2, <1>3, <1>4, <1>5, <1>6
    <2>2. CASE \/ ServerReplaces(t) \/ ServerRefuses(t)
               \/ InsertValidate(t) \/ InsertFallback(t)
               \/ PaySend(t) \/ MergeSend(t) \/ PastBounds(t)
               \/ RecoverScan(t) \/ RecoverStored(t) \/ RecoverReadDepth(t)
      BY <2>2 DEF ServerReplaces, ServerRefuses, InsertValidate, InsertFallback,
         PaySend, MergeSend, Send, PastBounds, RecoverScan, RecoverStored,
         RecoverReadDepth
    <2> QED BY <1>7, <2>1, <2>2 DEF Advance
  <1>8. ASSUME NEW t \in Task, Call(t) PROVE store' = store
    BY <1>8 DEF Call, InsertBegin, PayBegin, MergeBegin, RecoverBegin, Begin
  <1>9. CASE \/ \E t \in Task : GiveUp(t)
             \/ \E req \in late : LateReplace(req)
             \/ \E r \in Foreign \cup paid : OthersSpend(r)
             \/ Crash \/ UNCHANGED vars
    BY <1>9 DEF GiveUp, LateReplace, OthersSpend, Crash, vars
  <1> QED BY <1>7, <1>8, <1>9 DEF Next, Progress

\* An output once marked spent is never offered for spending again, not even by
\* a recover() whose scan is older than the call that spent it.
THEOREM SpentAlways == Spec => SpentStaysSpent
  <1>1. TypeOK /\ [Next]_vars =>
          [\A s \in Secret :
              store.row[s] = "spent" => store'.row[s] = "spent"]_vars
    BY StepKeepsSpent
  <1> QED BY <1>1, TypeAlways, PTL DEF Spec, SpentStaysSpent
----------------------------------------------------------------------------
(* Rows and the server *)

\* The server forgets no secret, no amount and no spending.
ServerKeeps ==
    \A s \in Secret : Known(s) =>
        /\ Known(s)' /\ worth'[s] = worth[s]
        /\ srv[s] = "spent" => srv'[s] = "spent"

RowsKept == \A s \in Secret : Stored(store, s) => Stored(store, s)'

LEMMA ListedSecret ==
  ASSUME NEW coins, NEW s \in Listed(coins)
  PROVE  s \in Secret
  BY DEF Listed

LEMMA NothingListed == Listed(NoCoins) = {}
  BY DEF Listed, NoCoins

LEMMA CoinsOfListed ==
  ASSUME NEW S, NEW amt, NEW s \in Listed(CoinsOf(S, amt))
  PROVE  s \in S /\ CoinsOf(S, amt)[s] = amt[s]
  BY DEF Listed, CoinsOf

LEMMA UpdatedListed ==
  ASSUME NEW old \in Coins, NEW new \in Coins, NEW s \in Listed(Updated(old, new))
  PROVE  \/ s \in Listed(new) /\ Updated(old, new)[s] = new[s]
         \/ s \in Listed(old) /\ Updated(old, new)[s] = old[s]
  BY DEF Listed, Updated, Coins

LEMMA IdleBacked == CallBacked(Idle)
  BY NothingListed
  DEF CallBacked, Idle, Inserting, Fallback, Spending, Replaced

LEMMA CallKept ==
  ASSUME ServerKeeps, RowsKept, NEW u \in Task, CallBacked(task[u]),
         task'[u] = task[u]
  PROVE  CallBacked(task[u])'
  <1>1. \A s \in Listed(task[u].ins) : s \in Secret
    BY DEF Listed
  <1>2. \A s \in Listed(task[u].new) : s \in Secret
    BY DEF Listed
  <1> QED BY <1>1, <1>2 DEF CallBacked, ServerKeeps, RowsKept, Listed, Known

LEMMA RowsStand ==
  ASSUME RowsBacked, ServerKeeps, UNCHANGED store
  PROVE  RowsBacked' /\ RowsKept
  BY DEF RowsBacked, ServerKeeps, RowsKept, Stored

\* One call advances.
LEMMA RowsOneCall ==
  ASSUME RowsInv, CoverInv', RowsBacked', FaceBacked', ServerKeeps, RowsKept,
         NEW t \in Task, CallBacked(task[t])',
         \A u \in Task : u # t => task'[u] = task[u]
  PROVE  RowsInv'
  <1>1. ASSUME NEW u \in Task PROVE CallBacked(task[u])'
    BY CallKept DEF RowsInv, CallsBacked
  <1> QED BY <1>1 DEF RowsInv, CallsBacked

\* Others do, and no call.
LEMMA RowsNoCall ==
  ASSUME RowsInv, CoverInv', FaceBacked', ServerKeeps, UNCHANGED store,
         \A u \in Task : task'[u] \in {task[u], Idle}
  PROVE  RowsInv'
  <1>1. RowsBacked' /\ RowsKept
    BY RowsStand DEF RowsInv
  <1>2. ASSUME NEW u \in Task PROVE CallBacked(task[u])'
    <2>1. CASE task'[u] = task[u]
      BY <1>1, <2>1, CallKept DEF RowsInv, CallsBacked
    <2>2. CASE task'[u] = Idle
      BY <2>2, NothingListed
      DEF CallBacked, Idle, Inserting, Fallback, Spending, Replaced
    <2> QED BY <2>1, <2>2
  <1> QED BY <1>1, <1>2 DEF RowsInv, CallsBacked

\* A call advances by itself.
LEMMA RowsLocal ==
  ASSUME RowsInv, CoverInv', UNCHANGED <<srv, worth, store>>,
         NEW t \in Task, NEW l, CallBacked(l), task' = [task EXCEPT ![t] = l]
  PROVE  RowsInv'
  <1>1. ServerKeeps
    BY DEF ServerKeeps, Known
  <1>2. RowsBacked' /\ RowsKept /\ FaceBacked'
    BY <1>1, RowsStand DEF RowsInv, FaceBacked, Known
  <1>3. task'[t] = l /\ \A u \in Task : u # t => task'[u] = task[u]
    BY DEF RowsInv, CoverInv, TypeOK
  <1>4. CallBacked(task[t])'
    BY <1>3 DEF CallBacked, Listed, Known, Stored
  <1> QED BY <1>1, <1>2, <1>3, <1>4, RowsOneCall

LEMMA RowsFinish ==
  ASSUME RowsInv, CoverInv', UNCHANGED <<srv, worth, store>>,
         NEW t \in Task, Finish(t)
  PROVE  RowsInv'
  BY IdleBacked, RowsLocal DEF Finish

\* A call goes on, with what it remembers.
LEMMA RowsGoto ==
  ASSUME RowsInv, CoverInv', UNCHANGED <<srv, worth, store>>,
         NEW t \in Task, NEW pc, Goto(t, pc),
         CallBacked([task[t] EXCEPT !.pc = pc])
  PROVE  RowsInv'
  <1> DEFINE l == [task[t] EXCEPT !.pc = pc]
  <1>1. task' = [task EXCEPT ![t] = l]
    BY DEF Goto
  <1>2. PICK m : m = l
    OBVIOUS
  <1>3. CallBacked(m) /\ task' = [task EXCEPT ![t] = m]
    BY <1>1, <1>2
  <1> QED BY <1>3, RowsLocal

LEMMA RowsInit == Init => RowsInv
  <1> SUFFICES ASSUME Init PROVE RowsInv
    OBVIOUS
  <1> DEFINE opened == {<<"RECEIVE", i - 1>> : i \in 1 .. Len(Opening)}
             sum(s) == IF s \in opened THEN Opening[s[2] + 1] ELSE 0
  <1>1. PICK offered \in SUBSET Foreign :
          /\ srv = [s \in Secret |-> IF s \in opened \cup offered
                                     THEN "unspent" ELSE "unknown"]
          /\ worth = [s \in Secret |-> IF s \in offered
                                       THEN FaceValue[s] ELSE sum(s)]
    BY DEF Init
  <1>2. /\ store.row = [s \in Secret |-> IF s \in opened THEN "unspent" ELSE "none"]
        /\ store.amt = [s \in Secret |-> sum(s)]
        /\ store.hashes = {}
    BY DEF Init
  <1>3. \A s \in opened : s \in Derived
    <2>1. \A i \in 1 .. Len(Opening) : i - 1 \in Depth
      BY WalletAssumption, MaxDepthAssumption DEF Depth
    <2> QED BY <2>1 DEF Derived, Chain
  <1>4. offered \cap opened = {}
    BY <1>3, ForeignAssumption
  <1> HIDE DEF opened, sum
  <1>5. RowsBacked
    BY <1>1, <1>2, <1>4 DEF RowsBacked, Stored, Known
  <1>6. FaceBacked
    <2> SUFFICES ASSUME NEW s \in Foreign, Known(s) PROVE s \in offered
      BY <1>1 DEF FaceBacked, Secret
    <2>1. s \in Secret /\ s \notin opened
      BY <1>3, ForeignAssumption DEF Secret
    <2> QED BY <1>1, <2>1 DEF Known
  <1>7. CallsBacked
    BY IdleBacked DEF CallsBacked, Init
  <1> QED BY <1>5, <1>6, <1>7, CoverInit DEF RowsInv

LEMMA RowsInsertBegin ==
  ASSUME RowsInv, CoverInv', NEW t \in Task, NEW s \in Foreign \cup paid,
         NEW validate \in BOOLEAN, InsertBegin(t, s, validate)
  PROVE  RowsInv'
  <1> DEFINE d == store.depth["RECEIVE"]
             a == IF s \in Foreign THEN FaceValue[s] ELSE worth[s]
             l == [Idle EXCEPT !.pc = IF validate THEN "insert_validate"
                                      ELSE "insert_sent",
                               !.ins = Coin(s, a),
                               !.new = Coin(<<"RECEIVE", d>>, a),
                               !.read = [@ EXCEPT !["RECEIVE"] = d]]
  <1>1. task' = [task EXCEPT ![t] = l] /\ UNCHANGED <<srv, worth, store>>
    BY DEF InsertBegin, Begin
  <1>2. s \in Secret /\ (s \notin Foreign => Known(s))
    BY DEF RowsInv, CoverInv, TypeOK, KnownWorth, Secret, Derived, Chain
  <1>3. a \in Amount
    BY <1>2, WalletAssumption DEF RowsInv, CoverInv, TypeOK
  <1>4. Listed(Coin(s, a)) \subseteq {s}
    BY <1>2, <1>3, CoinListsOne
  <1>5. Coin(s, a)[s] = a
    BY <1>2 DEF Coin, NoCoins
  <1>6. CallBacked(l)
    <2> HIDE DEF d
    <2>1. l.ins = Coin(s, a) /\ l.pc \in {"insert_validate", "insert_sent"}
      BY DEF Idle
    <2> HIDE DEF l
    <2> QED BY <2>1, <1>2, <1>4, <1>5
        DEF CallBacked, Inserting, Fallback, Spending, Replaced
  <1> HIDE DEF l
  <1> QED BY <1>1, <1>6, RowsLocal

\* pay and merge choose among the rows.
LEMMA RowsSelected ==
  ASSUME NEW l, l.pc \in {"pay_selected", "merge_selected"},
         NEW S \in SUBSET Unspent(store), l.ins = CoinsOf(S, store.amt)
  PROVE  CallBacked(l)
  <1>1. \A s \in Listed(l.ins) : Stored(store, s)
    BY CoinsOfListed DEF Unspent, Stored
  <1> QED BY <1>1 DEF CallBacked, Inserting, Fallback, Spending, Replaced

LEMMA RowsPayBegin ==
  ASSUME RowsInv, CoverInv', NEW t \in Task, NEW amount, PayBegin(t, amount)
  PROVE  RowsInv'
  <1>1. PICK S \in Selections(amount) :
           task' = [task EXCEPT ![t] = [Idle EXCEPT !.pc = "pay_selected",
                                                    !.ins = CoinsOf(S, store.amt),
                                                    !.amount = amount]]
    BY DEF PayBegin
  <1> DEFINE l == [Idle EXCEPT !.pc = "pay_selected",
                               !.ins = CoinsOf(S, store.amt), !.amount = amount]
  <1>2. l.pc = "pay_selected" /\ l.ins = CoinsOf(S, store.amt)
    BY DEF Idle
  <1>3. S \in SUBSET Unspent(store)
    BY DEF Selections
  <1>4. task' = [task EXCEPT ![t] = l]
    BY <1>1
  <1> HIDE DEF l
  <1>5. CallBacked(l)
    BY <1>2, <1>3, RowsSelected
  <1> QED BY <1>4, <1>5, RowsLocal DEF PayBegin, Begin

LEMMA RowsMergeBegin ==
  ASSUME RowsInv, CoverInv', NEW t \in Task, MergeBegin(t)
  PROVE  RowsInv'
  <1>1. PICK S \in SUBSET Unspent(store) :
           task' = [task EXCEPT ![t] = [Idle EXCEPT !.pc = "merge_selected",
                                                    !.ins = CoinsOf(S, store.amt)]]
    BY DEF MergeBegin
  <1> DEFINE l == [Idle EXCEPT !.pc = "merge_selected",
                               !.ins = CoinsOf(S, store.amt)]
  <1>2. l.pc = "merge_selected" /\ l.ins = CoinsOf(S, store.amt)
    BY DEF Idle
  <1>3. task' = [task EXCEPT ![t] = l]
    BY <1>1
  <1> HIDE DEF l
  <1>4. CallBacked(l)
    BY <1>2, RowsSelected
  <1> QED BY <1>3, <1>4, RowsLocal DEF MergeBegin, Begin

LEMMA RowsRecoverBegin ==
  ASSUME RowsInv, CoverInv', NEW t \in Task, RecoverBegin(t)
  PROVE  RowsInv'
  <1> DEFINE l == [Idle EXCEPT !.pc = "scan", !.read = store.depth]
  <1>1. l.pc = "scan" /\ l.new = NoCoins /\ task' = [task EXCEPT ![t] = l]
    BY DEF Idle, RecoverBegin
  <1> HIDE DEF l
  <1>2. CallBacked(l)
    BY <1>1, NothingListed
    DEF CallBacked, Inserting, Fallback, Spending, Replaced
  <1> QED BY <1>1, <1>2, RowsLocal DEF RecoverBegin, Begin

\* The server replaces: what it knew it keeps, and no foreign secret is new.
LEMMA ReplaceKeeps ==
  ASSUME RowsInv, NEW req \in Request, Replaceable(req), Replace(req),
         \A s \in Listed(req.new) : s \in Derived
  PROVE  /\ ServerKeeps /\ FaceBacked'
         /\ \A s \in Listed(req.ins) : srv'[s] = "spent"
         /\ \A s \in Listed(req.new) :
              srv'[s] = "unspent" /\ worth'[s] = req.new[s]
  <1>1. \A s \in Listed(req.ins) : s \in Secret /\ srv'[s] = "spent"
    BY DEF Replace, Listed
  <1>2. \A s \in Listed(req.new) :
          /\ s \in Secret /\ ~Known(s)
          /\ srv'[s] = "unspent" /\ worth'[s] = req.new[s]
    BY DEF Replace, Replaceable, Updated, Listed, Known
  <1>3. \A s \in Secret : s \notin Listed(req.new) => worth'[s] = worth[s]
    BY DEF Replace, Updated
  <1>4. \A s \in Secret : s \notin Listed(req.new) =>
          srv'[s] = srv[s] \/ (srv'[s] = "spent" /\ s \in Listed(req.ins))
    BY DEF Replace
  <1>5. \A s \in Listed(req.ins) : srv[s] = "unspent"
    BY DEF Replaceable
  <1>6. ServerKeeps
    BY <1>2, <1>3, <1>4, <1>5 DEF ServerKeeps, Known
  <1>7. \A s \in Foreign : s \notin Listed(req.new) /\ s \in Secret
    BY ForeignAssumption DEF Secret
  <1>8. FaceBacked'
    BY <1>3, <1>4, <1>5, <1>7 DEF RowsInv, FaceBacked, Known
  <1> QED BY <1>1, <1>2, <1>6, <1>8

LEMMA RowsServerReplaces ==
  ASSUME RowsInv, CoverInv', NEW t \in Task, ServerReplaces(t)
  PROVE  RowsInv'
  <1> DEFINE req == RequestOf(t)
  <1>1. /\ task[t].pc \in Sent /\ Replaceable(req) /\ Replace(req)
        /\ UNCHANGED <<store, late, paid>>
        /\ task' = [task EXCEPT ![t].pc = NextPC[task[t].pc]]
    BY DEF ServerReplaces, Goto
  <1>2. task \in [Task -> Locals] /\ CoverInv
    BY DEF RowsInv, CoverInv, TypeOK
  <1>3. req \in Request /\ \A s \in Listed(req.new) : s \in Derived
    BY <1>1, <1>2, RequestCovered
  <1>4. /\ task'[t].ins = task[t].ins /\ task'[t].new = task[t].new
        /\ task'[t].pc = NextPC[task[t].pc]
        /\ \A u \in Task : u # t => task'[u] = task[u]
    BY <1>1, <1>2 DEF Locals
  <1>5. req.ins = task[t].ins /\ req.new = task[t].new
    BY DEF RequestOf
  <1>6. /\ ServerKeeps /\ FaceBacked'
        /\ \A s \in Listed(req.ins) : srv'[s] = "spent"
        /\ \A s \in Listed(req.new) :
             srv'[s] = "unspent" /\ worth'[s] = req.new[s]
    BY <1>1, <1>3, ReplaceKeeps
  <1>7. RowsBacked' /\ RowsKept
    BY <1>1, <1>6, RowsStand DEF RowsInv
  <1>8. \A s \in Listed(task[t].new) : srv'[s] # "unknown" /\ worth'[s] = task[t].new[s]
    BY <1>5, <1>6
  <1>9. \A s \in Listed(task[t].ins) : srv'[s] = "spent" /\ s \in Secret
    BY <1>5, <1>6 DEF Listed
  <1>10. CallBacked(task[t])
    BY DEF RowsInv, CallsBacked
  <1>11. CASE task[t].pc = "insert_sent"
    <2>1. task'[t].pc = "insert_replaced"
      BY <1>4, <1>11 DEF NextPC
    <2>2. /\ \A s, r \in Listed(task[t].ins) : s = r
          /\ \A s \in Listed(task[t].ins) :
               \/ s \in Foreign /\ task[t].ins[s] = FaceValue[s]
               \/ Known(s) /\ task[t].ins[s] = worth[s]
      BY <1>10, <1>11 DEF CallBacked, Inserting
    <2>3. \A s \in Listed(task[t].ins) :
               \/ s \in Foreign /\ task[t].ins[s] = FaceValue[s]
               \/ Known(s)' /\ task[t].ins[s] = worth'[s]
      BY <2>2, <1>6, <1>9 DEF ServerKeeps
    <2>4. CallBacked(task[t])'
      BY <1>4, <1>8, <2>1, <2>2, <2>3
      DEF CallBacked, Fallback, Spending, Known
    <2> QED BY <2>4, <1>4, <1>6, <1>7, RowsOneCall
  <1>12. CASE task[t].pc \in {"pay_sent", "merge_sent"}
    <2>1. task'[t].pc \in {"pay_replaced", "merge_replaced"}
      BY <1>4, <1>12 DEF NextPC
    <2>2. \A s \in Listed(task[t].ins) : Stored(store, s)
      BY <1>10, <1>12 DEF CallBacked, Spending
    <2>3. \A s \in Listed(task[t].ins) : Stored(store', s)
      BY <2>2, <1>1
    <2>4. CallBacked(task[t])'
      BY <1>4, <1>8, <1>9, <2>1, <2>3
      DEF CallBacked, Fallback, Inserting, Known
    <2> QED BY <2>4, <1>4, <1>6, <1>7, RowsOneCall
  <1> QED BY <1>1, <1>11, <1>12 DEF Sent

LEMMA RowsServerRefuses ==
  ASSUME RowsInv, CoverInv', NEW t \in Task, ServerRefuses(t)
  PROVE  RowsInv'
  <1>1. UNCHANGED <<srv, worth, store>>
    BY DEF ServerRefuses
  <1>2. CASE /\ task[t].pc = "insert_sent" /\ RefusedAsSameLineage(RequestOf(t))
             /\ Goto(t, "insert_fallback")
    <2> DEFINE l == [task[t] EXCEPT !.pc = "insert_fallback"]
    <2>1. CallBacked(task[t]) /\ task[t] \in Locals
      BY DEF RowsInv, CallsBacked, CoverInv, TypeOK
    <2>2. l.pc = "insert_fallback" /\ l.ins = task[t].ins
      BY <2>1 DEF Locals
    <2>3. \A s \in Listed(task[t].ins) : Known(s)
      BY <1>2, <2>1 DEF CallBacked, Inserting, RefusedAsSameLineage, RequestOf
    <2>4. \A s \in Listed(task[t].ins) :
               \/ s \in Foreign /\ task[t].ins[s] = FaceValue[s]
               \/ Known(s) /\ task[t].ins[s] = worth[s]
      BY <1>2, <2>1 DEF CallBacked, Inserting
    <2> HIDE DEF l
    <2>5. CallBacked(l)
      BY <2>2, <2>3, <2>4 DEF CallBacked, Inserting, Spending, Replaced
    <2> USE DEF l
    <2> QED BY <1>1, <1>2, <2>5, RowsGoto
  <1>3. CASE Finish(t)
    BY <1>1, <1>3, RowsFinish
  <1> QED BY <1>2, <1>3 DEF ServerRefuses

LEMMA RowsLateReplace ==
  ASSUME RowsInv, CoverInv', NEW req \in late, LateReplace(req)
  PROVE  RowsInv'
  <1>1. UNCHANGED <<store, task>>
    BY DEF LateReplace
  <1>2. CASE Replaceable(req) /\ Replace(req)
    <2>1. req \in Request /\ \A s \in Listed(req.new) : s \in Derived
      BY DEF RowsInv, CoverInv, TypeOK, LateCovered
    <2> QED BY <1>1, <1>2, <2>1, ReplaceKeeps, RowsNoCall
  <1>3. CASE UNCHANGED ledgerVars
    <2>1. ServerKeeps /\ FaceBacked'
      BY <1>3 DEF ledgerVars, ServerKeeps, Known, RowsInv, FaceBacked
    <2> QED BY <1>1, <2>1, RowsNoCall
  <1> QED BY <1>2, <1>3 DEF LateReplace

LEMMA RowsOthersSpend ==
  ASSUME RowsInv, CoverInv', NEW s \in Foreign \cup paid, OthersSpend(s)
  PROVE  RowsInv'
  <1>1. /\ srv[s] = "unspent" /\ srv' = [srv EXCEPT ![s] = "spent"]
        /\ UNCHANGED <<worth, store, task>>
    BY DEF OthersSpend, SpentElsewhere
  <1>2. srv \in [Secret -> Status] /\ \A r \in Foreign : r \in Secret
    BY DEF RowsInv, CoverInv, TypeOK, Secret
  <1>3. ServerKeeps /\ FaceBacked'
    BY <1>1, <1>2 DEF ServerKeeps, Known, RowsInv, FaceBacked
  <1> QED BY <1>1, <1>3, RowsNoCall

LEMMA RowsGivenUp ==
  ASSUME RowsInv, CoverInv', UNCHANGED <<srv, worth, store>>,
         \A u \in Task : task'[u] \in {task[u], Idle}
  PROVE  RowsInv'
  <1>1. ServerKeeps /\ FaceBacked'
    BY DEF ServerKeeps, Known, RowsInv, FaceBacked
  <1> QED BY <1>1, RowsNoCall

\* A row is inserted for a secret that has none, with the amount on record.
LEMMA RowsInserted ==
  ASSUME RowsInv, UNCHANGED <<srv, worth>>, NEW s \in Secret, NEW a,
         Known(s), a = worth[s],
         \/ CanInsert(store, s) /\ store' = insert_output(store, s, a)
         \/ store' = store
  PROVE  RowsBacked' /\ FaceBacked' /\ ServerKeeps /\ RowsKept
  <1>1. ServerKeeps /\ FaceBacked'
    BY DEF ServerKeeps, Known, RowsInv, FaceBacked
  <1>2. CASE store' = store
    BY <1>1, <1>2, RowsStand DEF RowsInv
  <1>3. CASE CanInsert(store, s) /\ store' = insert_output(store, s, a)
    <2>1. store \in Store
      BY DEF RowsInv, CoverInv, TypeOK
    <2>2. /\ store'.row = [store.row EXCEPT ![s] = "unspent"]
          /\ store'.amt = [store.amt EXCEPT ![s] = a]
          /\ store'.hashes = store.hashes
      BY <1>3, <2>1 DEF insert_output, Store
    <2>3. store.row[s] = "none"
      BY <1>3 DEF CanInsert, Stored
    <2>4. \A r \in Secret : /\ store'.row[r] = IF r = s THEN "unspent" ELSE store.row[r]
                            /\ store'.amt[r] = IF r = s THEN a ELSE store.amt[r]
      BY <2>1, <2>2 DEF Store
    <2>5. RowsKept
      BY <2>4 DEF RowsKept, Stored
    <2>6. RowsBacked'
      <3>1. \A r \in Secret : Stored(store, r)' =>
              /\ Known(r)'
              /\ store'.amt[r] = worth'[r]
              /\ store'.row[r] = "spent" => srv'[r] = "spent"
        BY <2>4 DEF RowsInv, RowsBacked, Stored, Known
      <3>2. store'.hashes = {r \in Secret : store'.row[r] = "spent"}
        BY <2>2, <2>3, <2>4 DEF RowsInv, RowsBacked
      <3> QED BY <3>1, <3>2 DEF RowsBacked
    <2> QED BY <1>1, <2>5, <2>6
  <1> QED BY <1>2, <1>3

LEMMA RowsDepth ==
  ASSUME RowsInv, UNCHANGED <<srv, worth>>, NEW c, NEW d,
         store' = set_depth(store, c, d)
  PROVE  RowsBacked' /\ FaceBacked' /\ ServerKeeps /\ RowsKept
  <1>1. /\ store'.row = store.row /\ store'.amt = store.amt
        /\ store'.hashes = store.hashes
    BY DEF set_depth, RowsInv, CoverInv, TypeOK, Store
  <1> QED BY <1>1 DEF RowsInv, RowsBacked, FaceBacked, ServerKeeps, RowsKept,
          Stored, Known

\* What one task's step leaves of the others.
LEMMA OnlyTask ==
  ASSUME RowsInv, NEW t \in Task, NEW l, task' = [task EXCEPT ![t] = l]
  PROVE  task'[t] = l /\ \A u \in Task : u # t => task'[u] = task[u]
  BY DEF RowsInv, CoverInv, TypeOK

LEMMA IdleBackedNext ==
  ASSUME NEW t \in Task, task'[t] = Idle
  PROVE  CallBacked(task[t])'
  BY NothingListed DEF CallBacked, Idle, Inserting, Fallback, Spending, Replaced

LEMMA RowsInsertValidate ==
  ASSUME RowsInv, CoverInv', NEW t \in Task, InsertValidate(t)
  PROVE  RowsInv'
  <1>1. UNCHANGED <<srv, worth, store>>
    BY DEF InsertValidate
  <1>2. CASE Goto(t, "insert_sent")
    <2> DEFINE l == [task[t] EXCEPT !.pc = "insert_sent"]
    <2>1. CallBacked(task[t]) /\ task[t] \in Locals /\ task[t].pc = "insert_validate"
      BY DEF RowsInv, CallsBacked, CoverInv, TypeOK, InsertValidate
    <2>2. l.pc = "insert_sent" /\ l.ins = task[t].ins
      BY <2>1 DEF Locals
    <2> HIDE DEF l
    <2>3. CallBacked(l)
      BY <2>1, <2>2 DEF CallBacked, Inserting, Fallback, Spending, Replaced
    <2> USE DEF l
    <2> QED BY <1>1, <1>2, <2>3, RowsGoto
  <1>3. CASE Finish(t)
    BY <1>1, <1>3, RowsFinish
  <1> QED BY <1>2, <1>3 DEF InsertValidate

LEMMA RowsInsertStore ==
  ASSUME RowsInv, CoverInv', NEW t \in Task, InsertStore(t)
  PROVE  RowsInv'
  <1>1. PICK s \in Listed(task[t].new) :
          \/ /\ CanInsert(store, s)
             /\ store' = insert_output(store, s, task[t].new[s])
             /\ Goto(t, "insert_stored")
          \/ Finish(t) /\ store' = store
    BY DEF InsertStore
  <1>2. UNCHANGED <<srv, worth>> /\ task[t].pc = "insert_replaced"
    BY DEF InsertStore
  <1>3. CallBacked(task[t]) /\ task[t] \in Locals
    BY DEF RowsInv, CallsBacked, CoverInv, TypeOK
  <1>4. \A r \in Listed(task[t].new) : Known(r) /\ task[t].new[r] = worth[r]
    BY <1>2, <1>3 DEF CallBacked, Replaced
  <1>5. s \in Secret
    BY DEF Listed
  <1>6. RowsBacked' /\ FaceBacked' /\ ServerKeeps /\ RowsKept
    BY <1>1, <1>2, <1>4, <1>5, RowsInserted
  <1>7. CASE Goto(t, "insert_stored")
    <2>1. /\ task'[t].pc = "insert_stored" /\ task'[t].new = task[t].new
          /\ task'[t].ins = task[t].ins
          /\ \A u \in Task : u # t => task'[u] = task[u]
      BY <1>3, <1>7 DEF Goto, Locals, RowsInv, CoverInv, TypeOK
    <2>2. CallBacked(task[t])'
      BY <1>2, <1>3, <1>4, <2>1
      DEF CallBacked, Inserting, Fallback, Spending, Known
    <2> QED BY <1>6, <2>1, <2>2, RowsOneCall
  <1>8. CASE Finish(t) /\ store' = store
    BY <1>2, <1>8, RowsFinish
  <1> QED BY <1>1, <1>7, <1>8

LEMMA RowsInsertSetDepth ==
  ASSUME RowsInv, CoverInv', NEW t \in Task, InsertSetDepth(t)
  PROVE  RowsInv'
  <1>1. RowsBacked' /\ FaceBacked' /\ ServerKeeps /\ RowsKept
    BY RowsDepth DEF InsertSetDepth
  <1>2. task'[t] = Idle /\ \A u \in Task : u # t => task'[u] = task[u]
    BY OnlyTask DEF InsertSetDepth, Finish
  <1> QED BY <1>1, <1>2, IdleBackedNext, RowsOneCall

LEMMA RowsInsertFallback ==
  ASSUME RowsInv, CoverInv', NEW t \in Task, InsertFallback(t)
  PROVE  RowsInv'
  <1>1. UNCHANGED <<srv, worth, store>>
    BY DEF InsertFallback
  <1>2. CASE Goto(t, "insert_direct")
    <2> DEFINE l == [task[t] EXCEPT !.pc = "insert_direct"]
    <2>1. CallBacked(task[t]) /\ task[t] \in Locals /\ task[t].pc = "insert_fallback"
      BY DEF RowsInv, CallsBacked, CoverInv, TypeOK, InsertFallback
    <2>2. l.pc = "insert_direct" /\ l.ins = task[t].ins
      BY <2>1 DEF Locals
    <2> HIDE DEF l
    <2>3. CallBacked(l)
      BY <2>1, <2>2 DEF CallBacked, Inserting, Fallback, Spending, Replaced
    <2> USE DEF l
    <2> QED BY <1>1, <1>2, <2>3, RowsGoto
  <1>3. CASE Finish(t)
    BY <1>1, <1>3, RowsFinish
  <1> QED BY <1>2, <1>3 DEF InsertFallback

LEMMA RowsInsertDirect ==
  ASSUME RowsInv, CoverInv', NEW t \in Task, InsertDirect(t)
  PROVE  RowsInv'
  <1>1. PICK s \in Listed(task[t].ins) : store_directly(s, task[t].ins[s])
    BY DEF InsertDirect
  <1>2. UNCHANGED <<srv, worth>> /\ task[t].pc = "insert_direct" /\ s \in Secret
    BY DEF InsertDirect, Listed
  <1>3. CallBacked(task[t])
    BY DEF RowsInv, CallsBacked
  <1>4. Known(s) /\ task[t].ins[s] = worth[s]
    BY <1>2, <1>3 DEF CallBacked, Fallback, RowsInv, FaceBacked
  <1>5. RowsBacked' /\ FaceBacked' /\ ServerKeeps /\ RowsKept
    BY <1>1, <1>2, <1>4, RowsInserted DEF store_directly
  <1>6. task'[t] = Idle /\ \A u \in Task : u # t => task'[u] = task[u]
    BY OnlyTask DEF InsertDirect, Finish
  <1> QED BY <1>5, <1>6, IdleBackedNext, RowsOneCall

\* A call that spends rows goes on to the server.
LEMMA RowsSend ==
  ASSUME RowsInv, CoverInv', NEW t \in Task, NEW new,
         NEW pc \in {"pay_sent", "merge_sent"},
         task[t].pc \in {"pay_selected", "merge_selected"}, Send(t, pc, new)
  PROVE  RowsInv'
  <1> DEFINE l == [task[t] EXCEPT !.pc = pc, !.read = store.depth, !.new = new]
  <1>1. CallBacked(task[t]) /\ task[t] \in Locals
    BY DEF RowsInv, CallsBacked, CoverInv, TypeOK
  <1>2. l.pc = pc /\ l.ins = task[t].ins
    BY <1>1 DEF Locals
  <1>3. task' = [task EXCEPT ![t] = l] /\ UNCHANGED <<srv, worth, store>>
    BY DEF Send
  <1> HIDE DEF l
  <1>4. CallBacked(l)
    BY <1>1, <1>2 DEF CallBacked, Inserting, Fallback, Spending, Replaced
  <1> QED BY <1>3, <1>4, RowsLocal

LEMMA RowsPaySend ==
  ASSUME RowsInv, CoverInv', NEW t \in Task, PaySend(t)
  PROVE  RowsInv'
  <1>1. task[t].pc = "pay_selected" /\ \E new : Send(t, "pay_sent", new)
    BY DEF PaySend
  <1> QED BY <1>1, RowsSend

LEMMA RowsMergeSend ==
  ASSUME RowsInv, CoverInv', NEW t \in Task, MergeSend(t)
  PROVE  RowsInv'
  <1>1. task[t].pc = "merge_selected" /\ \E new : Send(t, "merge_sent", new)
    BY DEF MergeSend
  <1> QED BY <1>1, RowsSend

\* The transaction marks rows whose secrets are spent, and inserts what has been
\* replaced.
LEMMA RowsCommit ==
  ASSUME RowsInv, CoverInv', NEW t \in Task, Commit(t),
         task[t].pc \in {"pay_replaced", "merge_replaced"},
         UNCHANGED <<srv, worth>>
  PROVE  RowsInv'
  <1>1. CASE ~ \A s \in Kept(t) : CanInsert(store, s)
    BY <1>1, RowsFinish DEF Commit
  <1>2. CASE \A s \in Kept(t) : CanInsert(store, s)
    <2> DEFINE ins == Listed(task[t].ins)
               kept == Kept(t)
    <2>1. CallBacked(task[t]) /\ store \in Store /\ task[t] \in Locals
      BY DEF RowsInv, CallsBacked, CoverInv, TypeOK
    <2>2. \A s \in ins : Stored(store, s) /\ srv[s] = "spent" /\ s \in Secret
      BY <2>1 DEF CallBacked, Spending, Listed
    <2>3. \A s \in kept : /\ s \in Secret /\ store.row[s] = "none"
                          /\ Known(s) /\ task[t].new[s] = worth[s]
      BY <1>2, <2>1 DEF CallBacked, Replaced, Kept, CanInsert, Stored, Listed
    <2>4. /\ store'.row = RowsWith(mark_spent(store, ins).row, kept)
          /\ store'.amt = Updated(store.amt, CoinsOf(kept, task[t].new))
          /\ store'.hashes = store.hashes \cup ins
      BY <1>2, <2>1 DEF Commit, Recorded, mark_spent, Store
    <2>5. \A s \in Secret : mark_spent(store, ins).row[s] =
            IF s \in ins /\ Stored(store, s) THEN "spent" ELSE store.row[s]
      BY <2>1 DEF mark_spent, Store
    <2>6. \A s \in Secret : store'.row[s] = IF s \in kept THEN "unspent"
                                            ELSE IF s \in ins THEN "spent"
                                            ELSE store.row[s]
      BY <2>2, <2>4, <2>5 DEF RowsWith
    <2>7. \A s \in Secret : s \in Listed(CoinsOf(kept, task[t].new)) <=> s \in kept
      BY <2>3 DEF CoinsOf, Listed, Kept
    <2>8. \A s \in Secret : store'.amt[s] = IF s \in kept THEN task[t].new[s]
                                            ELSE store.amt[s]
      BY <2>4, <2>7 DEF Updated, CoinsOf
    <2>9. \A s \in ins : s \notin kept
      BY <2>2, <2>3 DEF Stored
    <2> HIDE DEF ins, kept
    <2>10. ServerKeeps /\ FaceBacked'
      BY DEF ServerKeeps, Known, RowsInv, FaceBacked
    <2>11. RowsKept
      BY <2>6 DEF RowsKept, Stored
    <2>12. \A s \in Secret : Stored(store, s)' =>
             /\ Known(s)'
             /\ store'.amt[s] = worth'[s]
             /\ store'.row[s] = "spent" => srv'[s] = "spent"
      BY <2>2, <2>3, <2>6, <2>8 DEF RowsInv, RowsBacked, Stored, Known
    <2>13. store'.hashes = {s \in Secret : store'.row[s] = "spent"}
      BY <2>2, <2>3, <2>4, <2>6, <2>9 DEF RowsInv, RowsBacked
    <2>14. RowsBacked'
      BY <2>12, <2>13 DEF RowsBacked
    <2>15. task'[t] = Idle /\ \A u \in Task : u # t => task'[u] = task[u]
      BY OnlyTask DEF Commit, Finish
    <2> QED BY <2>10, <2>11, <2>14, <2>15, IdleBackedNext, RowsOneCall
  <1> QED BY <1>1, <1>2

LEMMA RowsRecoverScan ==
  ASSUME RowsInv, CoverInv', NEW t \in Task, RecoverScan(t)
  PROVE  RowsInv'
  <1> DEFINE l == task[t]
  <1>1. l \in Locals /\ CallBacked(l) /\ l.pc = "scan"
    BY DEF RecoverScan, RowsInv, CallsBacked, CoverInv, TypeOK
  <1>2. PICK live \in SUBSET Secret, top \in 0 .. MaxDepth + 1, hit \in BOOLEAN :
          /\ \A s \in live : srv[s] = "unspent"
          /\ task' = [task EXCEPT ![t] =
               ScanOn([l EXCEPT !.used = [@ EXCEPT ![l.chain] = top],
                                !.new = Updated(@, CoinsOf(live, worth))], hit)]
    <2> DEFINE window == {d \in Depth : d >= l.from /\ d < l.from + GapLimit}
               hits == Hits(l.chain, window)
               live == {s \in Secret : /\ srv[s] = "unspent"
                                       /\ \E d \in hits : s = <<l.chain, d>>}
    <2>1. PICK top \in 0 .. MaxDepth + 1 :
            task' = [task EXCEPT ![t] =
              ScanOn([l EXCEPT !.used = [@ EXCEPT ![l.chain] = top],
                               !.new = Updated(@, CoinsOf(live, worth))],
                     hits # {})]
      BY DEF RecoverScan
    <2> DEFINE hit == hits # {}
    <2>2. live \in SUBSET Secret /\ (\A s \in live : srv[s] = "unspent")
          /\ hit \in BOOLEAN
      OBVIOUS
    <2> HIDE DEF live, hits
    <2> QED BY <2>1, <2>2
  <1> HIDE DEF l
  <1> DEFINE k == [l EXCEPT !.used = [@ EXCEPT ![l.chain] = top],
                            !.new = Updated(@, CoinsOf(live, worth))]
  <1>3. worth \in [Secret -> Amount] /\ l.new \in Coins
    BY <1>1 DEF RowsInv, CoverInv, TypeOK, Locals
  <1>4. k \in Locals /\ k.pc = "scan" /\ k.new = Updated(l.new, CoinsOf(live, worth))
    <2>1. Updated(l.new, CoinsOf(live, worth)) \in Coins
      BY <1>3, CoinsOfType, UpdatedType
    <2>2. top \in Nat /\ l.used \in [Chain -> Nat]
      BY <1>1, MaxDepthAssumption DEF Locals
    <2>3. [l.used EXCEPT ![l.chain] = top] \in [Chain -> Nat]
      BY <2>2
    <2> QED BY <1>1, <2>1, <2>3 DEF Locals
  <1>5. \A s \in Listed(k.new) : Known(s) /\ k.new[s] = worth[s]
    <2>1. \A s \in Listed(l.new) : Known(s) /\ l.new[s] = worth[s]
      BY <1>1 DEF CallBacked
    <2>2. CoinsOf(live, worth) \in Coins
      BY <1>3, CoinsOfType
    <2>3. \A s \in Listed(CoinsOf(live, worth)) :
            Known(s) /\ CoinsOf(live, worth)[s] = worth[s]
      BY <1>2, CoinsOfListed DEF Known
    <2> QED BY <1>3, <1>4, <2>1, <2>2, <2>3, UpdatedListed
  <1> HIDE DEF k
  <1>6. PICK m : m = ScanOn(k, hit)
    OBVIOUS
  <1>7. m.pc \in {"scan", "recover_store"} /\ m.new = k.new
    <2>1. m.pc \in {"scan", "recover_store"}
      BY <1>4, <1>6, ScanOnType
    <2>2. m.new = k.new
      BY <1>4, <1>6 DEF ScanOn, Locals
    <2> QED BY <2>1, <2>2
  <1>8. CallBacked(m)
    BY <1>5, <1>7 DEF CallBacked, Inserting, Fallback, Spending, Replaced
  <1>9. task' = [task EXCEPT ![t] = m]
    BY <1>2, <1>6 DEF k
  <1>10. UNCHANGED <<srv, worth, store>>
    BY DEF RecoverScan
  <1> QED BY <1>8, <1>9, <1>10, RowsLocal

LEMMA RowsRecoverStore ==
  ASSUME RowsInv, CoverInv', NEW t \in Task, RecoverStore(t)
  PROVE  RowsInv'
  <1>1. PICK s \in Listed(task[t].new) :
          /\ store_directly(s, task[t].new[s])
          /\ task' = [task EXCEPT ![t].new = [@ EXCEPT ![s] = 0]]
    BY DEF RecoverStore
  <1>2. /\ UNCHANGED <<srv, worth>> /\ task[t].pc = "recover_store" /\ s \in Secret
        /\ CallBacked(task[t]) /\ task[t] \in Locals
    BY DEF RecoverStore, Listed, RowsInv, CallsBacked, CoverInv, TypeOK
  <1>3. \A r \in Listed(task[t].new) : Known(r) /\ task[t].new[r] = worth[r]
    BY <1>2 DEF CallBacked
  <1>4. RowsBacked' /\ FaceBacked' /\ ServerKeeps /\ RowsKept
    BY <1>1, <1>2, <1>3, RowsInserted DEF store_directly
  <1>5. /\ task'[t].pc = "recover_store"
        /\ task'[t].new = [task[t].new EXCEPT ![s] = 0]
        /\ \A u \in Task : u # t => task'[u] = task[u]
    BY <1>1, <1>2 DEF RowsInv, CoverInv, TypeOK, Locals
  <1>6. \A r \in Listed(task'[t].new) :
          r \in Listed(task[t].new) /\ task'[t].new[r] = task[t].new[r]
    BY <1>2, <1>5 DEF Listed, Locals, Coins
  <1>7. CallBacked(task[t])'
    BY <1>2, <1>3, <1>5, <1>6
    DEF CallBacked, Inserting, Fallback, Spending, Replaced, Known
  <1> QED BY <1>4, <1>5, <1>7, RowsOneCall

\* Past the rows it has found, a recover() remembers none.
LEMMA RowsDepths ==
  ASSUME NEW l, l.pc \in {"recover_depths", "recover_set", "recovered"}
  PROVE  CallBacked(l)
  BY DEF CallBacked, Inserting, Fallback, Spending, Replaced

LEMMA NextChainPC ==
  ASSUME NEW l \in Locals
  PROVE  NextChain(l).pc \in {"recover_depths", "recovered"}
  BY DEF NextChain, Idle, Locals

LEMMA RowsRecoverDepths ==
  ASSUME RowsInv, CoverInv', NEW t \in Task,
         RecoverStored(t) \/ RecoverReadDepth(t) \/ RecoverSetDepth(t)
  PROVE  RowsInv'
  <1>1. task[t] \in Locals
    BY DEF RowsInv, CoverInv, TypeOK
  <1>2. CASE RecoverStored(t)
    <2> DEFINE l == [task[t] EXCEPT !.pc = "recover_depths"]
    <2>1. l.pc = "recover_depths"
      BY <1>1 DEF Locals
    <2> HIDE DEF l
    <2>2. CallBacked(l)
      BY <2>1, RowsDepths
    <2> USE DEF l
    <2> QED BY <1>2, <2>2, RowsGoto DEF RecoverStored
  <1>3. CASE RecoverReadDepth(t)
    <2> DEFINE set == [task[t] EXCEPT !.pc = "recover_set"]
    <2>1. PICK l \in {set, NextChain(task[t])} : task' = [task EXCEPT ![t] = l]
      BY <1>3 DEF RecoverReadDepth
    <2>2. l.pc \in {"recover_depths", "recover_set", "recovered"}
      BY <1>1, <2>1, NextChainPC DEF Locals
    <2>3. CallBacked(l)
      BY <2>2, RowsDepths
    <2>4. UNCHANGED <<srv, worth, store>>
      BY <1>3 DEF RecoverReadDepth
    <2> HIDE DEF set
    <2> QED BY <2>1, <2>3, <2>4, RowsLocal
  <1>4. CASE RecoverSetDepth(t)
    <2> DEFINE l == NextChain(task[t])
    <2>1. /\ store' = set_depth(store, task[t].chain, task[t].used[task[t].chain])
          /\ task' = [task EXCEPT ![t] = l] /\ UNCHANGED <<srv, worth>>
      BY <1>4 DEF RecoverSetDepth
    <2>2. RowsBacked' /\ FaceBacked' /\ ServerKeeps /\ RowsKept
      BY <2>1, RowsDepth
    <2>3. task'[t] = l /\ \A u \in Task : u # t => task'[u] = task[u]
      BY <2>1, OnlyTask
    <2>4. task'[t].pc \in {"recover_depths", "recovered"}
      BY <1>1, <2>3, NextChainPC
    <2>5. CallBacked(task[t])'
      BY <2>4 DEF CallBacked, Inserting, Fallback, Spending, Replaced
    <2> QED BY <2>2, <2>3, <2>5, RowsOneCall
  <1> QED BY <1>2, <1>3, <1>4

LEMMA RowsStep == RowsInv /\ [Next]_vars => RowsInv'
  <1> SUFFICES ASSUME RowsInv, [Next]_vars PROVE RowsInv'
    OBVIOUS
  <1>1. CoverInv'
    BY CoverStep DEF RowsInv
  <1>2. CASE UNCHANGED vars
    BY <1>1, <1>2, RowsGivenUp DEF vars
  <1>3. ASSUME NEW t \in Task, Call(t) PROVE RowsInv'
    BY <1>1, <1>3, RowsInsertBegin, RowsPayBegin, RowsMergeBegin, RowsRecoverBegin
    DEF Call
  <1>4. ASSUME NEW t \in Task, Advance(t) PROVE RowsInv'
    <2>1. CASE ServerReplaces(t) \/ ServerRefuses(t)
      BY <1>1, <2>1, RowsServerReplaces, RowsServerRefuses
    <2>2. CASE InsertValidate(t) \/ InsertStore(t) \/ InsertSetDepth(t)
               \/ InsertFallback(t) \/ InsertDirect(t)
      BY <1>1, <2>2, RowsInsertValidate, RowsInsertStore, RowsInsertSetDepth,
         RowsInsertFallback, RowsInsertDirect
    <2>3. CASE PaySend(t) \/ MergeSend(t)
      BY <1>1, <2>3, RowsPaySend, RowsMergeSend
    <2>4. CASE PayCommit(t) \/ MergeCommit(t)
      BY <1>1, <2>4, RowsCommit DEF PayCommit, MergeCommit
    <2>5. CASE PastBounds(t)
      BY <1>1, <2>5, RowsFinish DEF PastBounds
    <2>6. CASE RecoverScan(t) \/ RecoverStore(t)
      BY <1>1, <2>6, RowsRecoverScan, RowsRecoverStore
    <2>7. CASE RecoverStored(t) \/ RecoverReadDepth(t) \/ RecoverSetDepth(t)
      BY <1>1, <2>7, RowsRecoverDepths
    <2> QED BY <1>4, <2>1, <2>2, <2>3, <2>4, <2>5, <2>6, <2>7 DEF Advance
  <1>5. ASSUME NEW t \in Task, GiveUp(t) PROVE RowsInv'
    BY <1>1, <1>5, RowsFinish DEF GiveUp
  <1>6. CASE Crash
    BY <1>1, <1>6, RowsGivenUp DEF Crash
  <1>7. ASSUME NEW req \in late, LateReplace(req) PROVE RowsInv'
    BY <1>1, <1>7, RowsLateReplace
  <1>8. ASSUME NEW s \in Foreign \cup paid, OthersSpend(s) PROVE RowsInv'
    BY <1>1, <1>8, RowsOthersSpend
  <1> QED BY <1>2, <1>3, <1>4, <1>5, <1>6, <1>7, <1>8 DEF Next, Progress

\* RowsInv holds in every reachable state: what calls in progress remember of
\* amounts and rows is still so when they write it.
THEOREM RowsAlways == Spec => []RowsInv
  <1>1. RowsInv /\ [Next]_vars => RowsInv'
    BY RowsStep
  <1> QED BY <1>1, RowsInit, PTL DEF Spec

\* The store never invents money and never throws live money away, whatever
\* recovers, crashes and lost replies do: its rows are known to the server, have
\* the amounts it recorded, and are marked spent only when it has spent them.
THEOREM RowsBackedAlways == Spec => []RowsBacked
  <1>1. RowsInv => RowsBacked
    BY DEF RowsInv
  <1> QED BY <1>1, RowsAlways, PTL
----------------------------------------------------------------------------
(* What a recover() of the only caller has established when it is where it *)
(* is                                                                      *)

OneTask == \A t, u \in Task : t = u

\* The chains that are over before this one begins.
Earlier == [RECEIVE |-> {},
            PAY     |-> {"RECEIVE"},
            CHANGE  |-> {"RECEIVE", "PAY"},
            MINING  |-> {"RECEIVE", "PAY", "CHANGE"}]

Behind(l, c, d) == c \in Earlier[l.chain] \/ (c = l.chain /\ d < l.from)

Seen(l, c, d) == Known(<<c, d>>) => d < l.used[c]

Live(c, d) == srv[<<c, d>>] = "unspent"

Spendable(c, d) == store.row[<<c, d>>] = "unspent"

Unused(c) == ~Used(c, store.depth[c])

Interesting == {"scan", "recover_store", "recover_depths", "recover_set",
                "recovered", "pay_replaced", "merge_replaced"}

ScanEstablished(l) ==
    l.pc = "scan" =>
        /\ l.read = store.depth
        /\ \A c \in Chain, d \in Depth : Behind(l, c, d) =>
             Seen(l, c, d) /\ (Live(c, d) => <<c, d>> \in Listed(l.new))

StoreEstablished(l) ==
    l.pc = "recover_store" =>
        /\ l.chain = "RECEIVE"
        /\ \A c \in Chain, d \in Depth :
             Seen(l, c, d) /\ (Live(c, d) => \/ <<c, d>> \in Listed(l.new)
                                             \/ Spendable(c, d))

DepthsEstablished(l) ==
    l.pc \in {"recover_depths", "recover_set"} =>
        /\ \A c \in Chain, d \in Depth :
             Seen(l, c, d) /\ (Live(c, d) => Spendable(c, d))
        /\ \A c \in Earlier[l.chain] : Unused(c)

EndEstablished(l) ==
    l.pc = "recovered" =>
        /\ \A c \in Chain, d \in Depth : Live(c, d) => Spendable(c, d)
        /\ \A c \in Chain : Unused(c)

InputsSpent(l) ==
    l.pc \in {"pay_replaced", "merge_replaced"} =>
        \A s \in Listed(l.ins) : srv[s] = "spent"

Established(l) ==
    /\ ScanEstablished(l)
    /\ StoreEstablished(l)
    /\ DepthsEstablished(l)
    /\ EndEstablished(l)
    /\ InputsSpent(l)

SpentRows == \A s \in Secret : store.row[s] = "spent" => srv[s] = "spent"

RecoverInv == SpentRows /\ \A t \in Task : Established(task[t])

\* The scan of a chain may end where it does: nothing used is further on.
ScanEnds ==
    \A t \in Task :
        LET l == task[t]
            window == {d \in Depth : d >= l.from /\ d < l.from + GapLimit}
        IN  /\ l.pc = "scan"
            /\ Hits(l.chain, window) = {}
            /\ ~(l.from + GapLimit <= l.read[l.chain])
            => \A d \in Depth : Known(<<l.chain, d>>) => d < l.from

LEMMA PlainEstablished ==
  ASSUME NEW l, l.pc \notin Interesting
  PROVE  Established(l)'
  BY DEF Established, ScanEstablished, StoreEstablished, DepthsEstablished,
     EndEstablished, InputsSpent, Interesting

LEMMA TaskRecovers ==
  ASSUME OneTask, SpentRows',
         NEW t \in Task, NEW l, task'[t] = l, Established(l)'
  PROVE  RecoverInv'
  <1>1. ASSUME NEW u \in Task PROVE Established(task[u])'
    <2>1. u = t
      BY DEF OneTask
    <2>2. task'[u] = l
      BY <2>1
    <2> QED BY <2>2 DEF Established, ScanEstablished, StoreEstablished,
            DepthsEstablished, EndEstablished, InputsSpent, Behind, Seen
  <1> QED BY <1>1 DEF RecoverInv

\* A step after which the call is nowhere a claim is made of.
LEMMA PlainRecovers ==
  ASSUME OneTask, SpentRows',
         \A t \in Task : task'[t].pc \notin Interesting
  PROVE  RecoverInv'
  <1>1. ASSUME NEW t \in Task PROVE RecoverInv'
    <2>1. PICK l : l = task'[t]
      OBVIOUS
    <2>2. Established(l)'
      BY <2>1, PlainEstablished
    <2> QED BY <2>1, <2>2, TaskRecovers
  <1>2. CASE Task = {}
    BY <1>2 DEF RecoverInv
  <1> QED BY <1>1, <1>2

\* The store keeps its rows, or adds spendable ones, and the server forgets
\* nothing it has spent.
LEMMA RowsStaySpent ==
  ASSUME RecoverInv,
         \A s \in Secret : store'.row[s] = "spent" => store.row[s] = "spent",
         \A s \in Secret : srv[s] = "spent" => srv'[s] = "spent"
  PROVE  SpentRows'
  BY DEF RecoverInv, SpentRows

\* The server only spends, and the wallet does nothing.
LEMMA OthersRecover ==
  ASSUME TypeOK, RecoverInv, UNCHANGED <<store, task>>,
         \A s \in Secret : Known(s)' <=> Known(s),
         \A s \in Secret : srv'[s] = "unspent" => srv[s] = "unspent",
         \A s \in Secret : srv[s] = "spent" => srv'[s] = "spent"
  PROVE  RecoverInv'
  <1>1. SpentRows'
    BY RowsStaySpent
  <1>2. ASSUME NEW t \in Task PROVE Established(task[t])'
    <2>1. PICK l : l = task[t] /\ l = task'[t]
      OBVIOUS
    <2>2. Established(l)
      BY <2>1 DEF RecoverInv
    <2>3. /\ \A c \in Chain, d \in Depth : Seen(l, c, d) => Seen(l, c, d)'
          /\ \A c \in Chain, d \in Depth : Live(c, d)' => Live(c, d)
      BY DerivedSecret DEF Seen, Live
    <2>4. \A c \in Chain : Unused(c) => Unused(c)'
      BY DEF Unused, Used, Secret
    <2>5. \A c \in Chain, d \in Depth : Spendable(c, d)' <=> Spendable(c, d)
      BY DEF Spendable
    <2>6. \A c \in Earlier[l.chain] : l.chain \in Chain => c \in Chain
      BY DEF Earlier, Chain
    <2>7. l \in Locals
      BY <2>1 DEF TypeOK
    <2>8. l.chain \in Chain
      BY <2>7 DEF Locals
    <2>9. ScanEstablished(l)' /\ StoreEstablished(l)'
      BY <2>2, <2>3, <2>5 DEF Established, ScanEstablished, StoreEstablished, Behind
    <2>10. DepthsEstablished(l)' /\ EndEstablished(l)'
      BY <2>2, <2>3, <2>4, <2>5, <2>6, <2>8
      DEF Established, DepthsEstablished, EndEstablished
    <2>11. InputsSpent(l)'
      BY <2>2 DEF Established, InputsSpent, Listed
    <2>12. Established(l)'
      BY <2>9, <2>10, <2>11 DEF Established
    <2> QED BY <2>1, <2>12 DEF Established, ScanEstablished, StoreEstablished,
            DepthsEstablished, EndEstablished, InputsSpent, Behind, Seen
  <1> QED BY <1>1, <1>2 DEF RecoverInv

LEMMA BeginRecovers ==
  ASSUME OneTask, TypeOK, RecoverInv, NEW t \in Task, Call(t)
  PROVE  RecoverInv'
  <1>1. UNCHANGED <<srv, store, late>>
    BY DEF Call, InsertBegin, PayBegin, MergeBegin, RecoverBegin, Begin
  <1>2. SpentRows'
    BY <1>1, RowsStaySpent DEF RecoverInv
  <1>3. task \in [Task -> Locals]
    BY DEF TypeOK
  <1>4. CASE RecoverBegin(t)
    <2> DEFINE l == [Idle EXCEPT !.pc = "scan", !.read = store.depth]
    <2>1. task'[t] = l
      BY <1>3, <1>4 DEF RecoverBegin
    <2>2. l.pc = "scan" /\ l.chain = "RECEIVE" /\ l.from = 0 /\ l.read = store.depth
      BY DEF Idle
    <2>3. PICK m : m = l
      OBVIOUS
    <2> HIDE DEF l
    <2>4. \A c \in Chain, d \in Depth : ~Behind(m, c, d)
      BY <2>2, <2>3 DEF Behind, Earlier, Depth
    <2>5. Established(m)'
      BY <1>1, <2>2, <2>3, <2>4 DEF Established, ScanEstablished, StoreEstablished,
         DepthsEstablished, EndEstablished, InputsSpent, Behind
    <2> QED BY <1>2, <2>1, <2>3, <2>5, TaskRecovers
  <1>5. CASE ~RecoverBegin(t)
    <2>1. task'[t].pc \in {"insert_validate", "insert_sent", "pay_selected",
                           "merge_selected"}
      <3>1. CASE \E s \in Foreign \cup paid, v \in BOOLEAN : InsertBegin(t, s, v)
        BY <1>3, <3>1 DEF InsertBegin, Idle
      <3>2. CASE \E a \in Amount \ {0} : PayBegin(t, a)
        BY <1>3, <3>2 DEF PayBegin, Idle
      <3>3. CASE MergeBegin(t)
        BY <1>3, <3>3 DEF MergeBegin, Idle
      <3> QED BY <1>5, <3>1, <3>2, <3>3 DEF Call
    <2>2. \A u \in Task : task'[u].pc \notin Interesting
      BY <2>1 DEF OneTask, Interesting
    <2> QED BY <1>2, <2>2, PlainRecovers
  <1> QED BY <1>4, <1>5

\* Calls that end, or go on to a place no claim is made of, with the store as
\* it is.
LEMMA PassingRecovers ==
  ASSUME OneTask, TypeOK, RecoverInv, NEW t \in Task,
         \/ ServerRefuses(t) \/ InsertValidate(t) \/ InsertFallback(t)
         \/ PaySend(t) \/ MergeSend(t) \/ PastBounds(t)
  PROVE  RecoverInv'
  <1>1. UNCHANGED <<srv, store, late>>
    BY DEF ServerRefuses, InsertValidate, InsertFallback, PaySend, MergeSend,
       Send, PastBounds
  <1>2. SpentRows'
    BY <1>1, RowsStaySpent DEF RecoverInv
  <1>3. task \in [Task -> Locals]
    BY DEF TypeOK
  <1>4. \/ Finish(t) \/ Goto(t, "insert_fallback") \/ Goto(t, "insert_sent")
        \/ Goto(t, "insert_direct")
        \/ \E new : Send(t, "pay_sent", new)
        \/ \E new : Send(t, "merge_sent", new)
    BY DEF ServerRefuses, InsertValidate, InsertFallback, PaySend, MergeSend,
       PastBounds
  <1>5. task'[t].pc \in {"idle", "insert_fallback", "insert_sent",
                         "insert_direct", "pay_sent", "merge_sent"}
    <2>1. CASE \E new : Send(t, "pay_sent", new) \/ Send(t, "merge_sent", new)
      BY <1>3, <2>1 DEF Send, Locals
    <2>2. CASE ~\E new : Send(t, "pay_sent", new) \/ Send(t, "merge_sent", new)
      BY <1>3, <1>4, <2>2 DEF Finish, Goto, Idle, Locals
    <2> QED BY <2>1, <2>2
  <1>6. \A u \in Task : task'[u].pc \notin Interesting
    BY <1>5 DEF OneTask, Interesting
  <1> QED BY <1>2, <1>6, PlainRecovers

LEMMA InsertingRecovers ==
  ASSUME OneTask, TypeOK, RecoverInv, NEW t \in Task,
         InsertStore(t) \/ InsertSetDepth(t) \/ InsertDirect(t)
  PROVE  RecoverInv'
  <1>1. UNCHANGED <<srv, late>>
    BY DEF InsertStore, InsertSetDepth, InsertDirect
  <1>2. /\ task \in [Task -> Locals]
        /\ store \in Store
    BY DEF TypeOK
  <1>3. \/ \E s \in Secret : \E a : store' = insert_output(store, s, a)
        \/ \E d : store' = set_depth(store, "RECEIVE", d)
        \/ store' = store
    BY DEF InsertStore, InsertSetDepth, InsertDirect, store_directly, Listed
  <1>4. \A s \in Secret : store'.row[s] = "spent" => store.row[s] = "spent"
    BY <1>2, <1>3 DEF insert_output, set_depth, Store
  <1>5. SpentRows'
    BY <1>1, <1>4, RowsStaySpent DEF RecoverInv
  <1>6. task'[t].pc \in {"idle", "insert_stored"}
    BY <1>2 DEF InsertStore, InsertSetDepth, InsertDirect, Finish, Goto, Idle, Locals
  <1>7. \A u \in Task : task'[u].pc \notin Interesting
    BY <1>6 DEF OneTask, Interesting
  <1> QED BY <1>5, <1>7, PlainRecovers

LEMMA CommitRecovers ==
  ASSUME OneTask, TypeOK, RecoverInv, NEW t \in Task, PayCommit(t) \/ MergeCommit(t)
  PROVE  RecoverInv'
  <1>1. /\ UNCHANGED <<srv, late>> /\ Commit(t)
        /\ task[t].pc \in {"pay_replaced", "merge_replaced"}
    BY DEF PayCommit, MergeCommit
  <1>2. /\ task \in [Task -> Locals]
        /\ store \in Store
    BY DEF TypeOK
  <1>3. \A s \in Listed(task[t].ins) : srv[s] = "spent"
    BY <1>1 DEF RecoverInv, Established, InputsSpent
  <1>4. \A s \in Secret : Recorded(t).row[s] = "spent" =>
            store.row[s] = "spent" \/ s \in Listed(task[t].ins)
    BY <1>2 DEF Recorded, RowsWith, mark_spent, Store
  <1>5. SpentRows'
    BY <1>1, <1>3, <1>4 DEF Commit, RecoverInv, SpentRows
  <1>6. task'[t].pc = "idle"
    BY <1>1, <1>2 DEF Commit, Finish, Idle
  <1>7. \A u \in Task : task'[u].pc \notin Interesting
    BY <1>6 DEF OneTask, Interesting
  <1> QED BY <1>5, <1>7, PlainRecovers

LEMMA ReplacesRecovers ==
  ASSUME OneTask, TypeOK, RecoverInv, NEW t \in Task, ServerReplaces(t)
  PROVE  RecoverInv'
  <1> DEFINE req == RequestOf(t)
  <1>1. /\ task[t].pc \in Sent /\ Replaceable(req) /\ Replace(req)
        /\ Goto(t, NextPC[task[t].pc])
        /\ UNCHANGED <<store, late>>
    BY DEF ServerReplaces
  <1>2. /\ task \in [Task -> Locals] /\ srv \in [Secret -> Status]
        /\ store \in Store
    BY DEF TypeOK
  <1>3. \A s \in Secret : srv[s] = "spent" => srv'[s] = "spent"
    BY <1>1, <1>2 DEF Replaceable, Replace, Known
  <1>4. SpentRows'
    BY <1>1, <1>3, RowsStaySpent DEF RecoverInv
  <1>5. \A s \in Listed(task[t].ins) : srv'[s] = "spent"
    BY <1>1 DEF Replace, RequestOf, Listed
  <1>6. /\ task'[t].pc \in {"insert_replaced", "pay_replaced", "merge_replaced"}
        /\ task'[t].ins = task[t].ins
    BY <1>1, <1>2 DEF Goto, Sent, NextPC, Locals
  <1>7. PICK l : l = task'[t]
    OBVIOUS
  <1>8. Established(l)'
    BY <1>5, <1>6, <1>7 DEF Established, ScanEstablished, StoreEstablished,
       DepthsEstablished, EndEstablished, InputsSpent, Listed
  <1> QED BY <1>4, <1>7, <1>8, TaskRecovers

\* What one window adds to what the scan knows.
LEMMA WindowScanned ==
  ASSUME NEW l \in Locals, l.pc = "scan", ScanEstablished(l),
         NEW window, window = {d \in Depth : d >= l.from /\ d < l.from + GapLimit},
         NEW hits, hits = Hits(l.chain, window),
         NEW top \in Nat,
         \/ hits = {} /\ top = l.used[l.chain]
         \/ top - 1 \in hits /\ \A d \in hits : d < top,
         NEW found \in Coins,
         \A s \in Listed(l.new) : s \in Listed(found),
         \A d \in hits : Live(l.chain, d) => <<l.chain, d>> \in Listed(found),
         NEW used, used = [l.used EXCEPT ![l.chain] = top],
         NEW ends, ends => \A d \in Depth : Known(<<l.chain, d>>) => d < l.from,
         NEW c \in Chain, NEW d \in Depth,
         Behind(l, c, d) \/ (c = l.chain /\ (ends \/ d < l.from + GapLimit))
  PROVE  /\ Known(<<c, d>>) => d < used[c]
         /\ Live(c, d) => <<c, d>> \in Listed(found)
  <1>1. /\ l.chain \in Chain /\ l.from \in Nat /\ d \in Nat
        /\ l.used \in [Chain -> Nat]
    BY DEF Locals, Depth
  <1>2. Live(c, d) => Known(<<c, d>>)
    BY DEF Live, Known
  <1>3. CASE c # l.chain
    BY <1>1, <1>3 DEF ScanEstablished, Seen
  <1>4. CASE c = l.chain /\ d >= l.from
    <2>1. Known(<<c, d>>) => d \in hits
      <3>1. CASE ends
        BY <1>1, <1>4, <3>1
      <3>2. CASE d < l.from + GapLimit
        BY <1>1, <1>4, <3>2, DerivedSecret DEF Hits, Used
      <3>3. CASE c \in Earlier[l.chain]
        BY <1>1, <1>4, <3>3 DEF Earlier, Chain
      <3> QED BY <1>1, <1>4, <3>1, <3>2, <3>3 DEF Behind
    <2> QED BY <1>1, <1>2, <1>4, <2>1
  <1>5. CASE c = l.chain /\ d < l.from
    <2>1. Behind(l, c, d)
      BY <1>5 DEF Behind
    <2>2. /\ Known(<<c, d>>) => d < l.used[c]
          /\ Live(c, d) => <<c, d>> \in Listed(found)
      BY <2>1 DEF ScanEstablished, Seen
    <2>3. ASSUME Known(<<c, d>>) PROVE d < top
      <3>1. CASE hits = {}
        BY <1>5, <2>2, <2>3, <3>1
      <3>2. CASE top - 1 \in hits
        <4>1. top - 1 >= l.from /\ top - 1 \in Nat
          BY <3>2 DEF Hits, Depth
        <4> QED BY <1>1, <1>5, <4>1
      <3> QED BY <3>1, <3>2
    <2> QED BY <1>1, <1>5, <2>2, <2>3
  <1> QED BY <1>1, <1>3, <1>4, <1>5

LEMMA ScanRecovers ==
  ASSUME OneTask, TypeOK, ScanEnds, RecoverInv, NEW t \in Task, RecoverScan(t),
         \A s \in Secret : Known(s) => worth[s] > 0
  PROVE  RecoverInv'
  <1> DEFINE l == task[t]
  <1>1. l \in Locals /\ ScanEstablished(l)
    BY DEF TypeOK, RecoverInv, Established
  <1> DEFINE window == {d \in Depth : d >= l.from /\ d < l.from + GapLimit}
             hits == Hits(l.chain, window)
             live == {s \in Secret : /\ srv[s] = "unspent"
                                     /\ \E d \in hits : s = <<l.chain, d>>}
             found == Updated(l.new, CoinsOf(live, worth))
             k(top) == [l EXCEPT !.used = [@ EXCEPT ![l.chain] = top],
                                 !.new = found]
  <1>2. PICK top \in 0 .. MaxDepth + 1 :
          /\ \/ hits = {} /\ top = l.used[l.chain]
             \/ top - 1 \in hits /\ \A d \in hits : d < top
          /\ task' = [task EXCEPT ![t] = ScanOn(k(top), hits # {})]
    BY DEF RecoverScan
  <1>3. /\ l.pc = "scan" /\ UNCHANGED <<srv, store, late>>
        /\ task \in [Task -> Locals] /\ worth \in [Secret -> Amount]
    <2>1. l.pc = "scan" /\ UNCHANGED <<srv, store, late>>
      BY DEF RecoverScan
    <2> QED BY <2>1 DEF TypeOK
  <1> DEFINE ends == hits = {} /\ ~(l.from + GapLimit <= l.read[l.chain])
  <1>0. ends => \A d \in Depth : Known(<<l.chain, d>>) => d < l.from
    BY <1>3 DEF ScanEnds
  <1>18. l.read = store.depth
    BY <1>1, <1>3 DEF ScanEstablished
  <1> HIDE DEF l
  <1>4. SpentRows'
    BY <1>3, RowsStaySpent DEF RecoverInv
  <1>5. /\ top \in Nat
        /\ l.chain \in Chain /\ l.from \in Nat /\ l.new \in Coins
        /\ l.used \in [Chain -> Nat]
    BY <1>1, <1>2, MaxDepthAssumption DEF Locals
  <1>6. CoinsOf(live, worth) \in Coins
    BY <1>3, CoinsOfType
  <1>7. found \in Coins
    BY <1>5, <1>6, UpdatedType
  <1>8. /\ \A s \in Listed(l.new) : s \in Listed(found)
        /\ \A s \in live : s \in Listed(found)
    <2>1. \A s \in live : s \in Secret /\ Known(s)
      BY DEF Known
    <2>2. \A s \in live : worth[s] > 0
      BY <2>1
    <2>3. \A s \in Listed(CoinsOf(live, worth)) : CoinsOf(live, worth)[s] > 0
      BY DEF Listed
    <2>4. \A s \in live : s \in Listed(CoinsOf(live, worth))
      BY <2>1, <2>2 DEF CoinsOf, Listed
    <2>5. \A s \in Secret : \/ s \in Listed(l.new)
                            \/ s \in Listed(CoinsOf(live, worth))
                         => found[s] > 0
      BY <2>3 DEF Updated, Listed
    <2> HIDE DEF live, found
    <2>6. \A s \in Listed(l.new) : s \in Secret
      BY DEF Listed
    <2> QED BY <2>1, <2>4, <2>5, <2>6 DEF Listed
  <1>9. \A d \in hits : Live(l.chain, d) => <<l.chain, d>> \in Listed(found)
    <2>1. \A d \in hits : d \in Depth
      BY DEF Hits
    <2> QED BY <1>5, <1>8, <2>1, DerivedSecret DEF Live
  <1> HIDE DEF live, found, window, hits
  <1> DEFINE used == [l.used EXCEPT ![l.chain] = top]
             m == ScanOn(k(top), hits # {})
  <1>10. /\ k(top).pc = "scan" /\ k(top).chain = l.chain /\ k(top).from = l.from
         /\ k(top).used = used /\ k(top).new = found /\ k(top).read = l.read
    BY <1>1, <1>3 DEF Locals
  <1>11. ASSUME NEW c \in Chain, NEW d \in Depth,
                Behind(l, c, d) \/ (c = l.chain /\ (ends \/ d < l.from + GapLimit))
         PROVE  /\ Known(<<c, d>>) => d < used[c]
                /\ Live(c, d) => <<c, d>> \in Listed(found)
    <2> HIDE DEF ends
    <2> QED BY <1>0, <1>1, <1>2, <1>3, <1>5, <1>7, <1>8, <1>9, <1>11, WindowScanned
            DEF window, hits
  <1>12. k(top) \in Locals
    <2>1. used \in [Chain -> Nat]
      BY <1>5
    <2> QED BY <1>1, <1>7, <2>1 DEF Locals
  <1> HIDE DEF k, used
  <1>13. task'[t] = m
    BY <1>2, <1>3
  <1>14. /\ m.used = used /\ m.new = found /\ m.read = store.depth
         /\ m.pc \in {"scan", "recover_store"}
    BY <1>10, <1>12, <1>18 DEF ScanOn, Locals
  <1>15. PICK n : n = m
    OBVIOUS
  <1>16. CASE m.pc = "scan"
    <2>1. \/ m.chain = l.chain /\ m.from = l.from + GapLimit
          \/ /\ ends /\ l.chain \in DOMAIN ChainAfter
             /\ m.chain = ChainAfter[l.chain] /\ m.from = 0
      BY <1>10, <1>12, <1>16 DEF ScanOn, Locals
    <2>2. ASSUME NEW c \in Chain, NEW d \in Depth, Behind(n, c, d)
          PROVE  Behind(l, c, d) \/ (c = l.chain /\ (ends \/ d < l.from + GapLimit))
      <3>1. CASE m.chain = l.chain /\ m.from = l.from + GapLimit
        BY <1>15, <2>2, <3>1 DEF Behind
      <3>2. CASE /\ ends /\ l.chain \in DOMAIN ChainAfter
                 /\ m.chain = ChainAfter[l.chain] /\ m.from = 0
        <4>1. c \in Earlier[m.chain]
          BY <1>15, <2>2, <3>2 DEF Behind, Depth
        <4>2. Earlier[m.chain] = Earlier[l.chain] \cup {l.chain}
          BY <3>2 DEF Earlier, ChainAfter
        <4> QED BY <3>2, <4>1, <4>2 DEF Behind
      <3> QED BY <2>1, <3>1, <3>2
    <2>3. ScanEstablished(n)'
      BY <1>3, <1>11, <1>14, <1>15, <2>2
      DEF ScanEstablished, Seen, Live, Known, Behind
    <2>4. Established(n)'
      BY <1>15, <1>16, <2>3 DEF Established, StoreEstablished, DepthsEstablished,
         EndEstablished, InputsSpent
    <2> HIDE DEF m
    <2> QED BY <1>4, <1>13, <1>15, <2>4, TaskRecovers
  <1>17. CASE m.pc = "recover_store"
    <2>1. ends /\ l.chain = "MINING" /\ m.chain = "RECEIVE"
      <3>1. ends /\ l.chain \notin DOMAIN ChainAfter /\ m.chain = "RECEIVE"
        BY <1>10, <1>12, <1>17 DEF ScanOn, Locals
      <3> QED BY <1>5, <3>1 DEF ChainAfter, Chain
    <2>2. \A c \in Chain, d \in Depth : Behind(l, c, d) \/ (c = l.chain /\ ends)
      BY <2>1 DEF Behind, Earlier, Chain
    <2>3. StoreEstablished(n)'
      BY <1>3, <1>11, <1>14, <1>15, <2>1, <2>2
      DEF StoreEstablished, Seen, Live, Known
    <2>4. Established(n)'
      BY <1>15, <1>17, <2>3 DEF Established, ScanEstablished, DepthsEstablished,
         EndEstablished, InputsSpent
    <2> HIDE DEF m
    <2> QED BY <1>4, <1>13, <1>15, <2>4, TaskRecovers
  <1> QED BY <1>14, <1>16, <1>17

LEMMA FindsRecovers ==
  ASSUME OneTask, TypeOK, RecoverInv, NEW t \in Task, RecoverStore(t)
  PROVE  RecoverInv'
  <1>1. PICK l \in Locals : l = task[t]
    BY DEF TypeOK
  <1>2. PICK s \in Listed(l.new) :
          /\ store_directly(s, l.new[s])
          /\ task' = [task EXCEPT ![t] = [l EXCEPT !.new = [@ EXCEPT ![s] = 0]]]
    <2>1. PICK s \in Listed(task[t].new) :
            /\ store_directly(s, task[t].new[s])
            /\ task' = [task EXCEPT ![t].new = [@ EXCEPT ![s] = 0]]
      BY DEF RecoverStore
    <2>2. task \in [Task -> Locals]
      BY DEF TypeOK
    <2> QED BY <1>1, <2>1, <2>2
  <1>3. l.pc = "recover_store" /\ UNCHANGED <<srv, late>>
    <2>1. task[t].pc = "recover_store" /\ UNCHANGED <<srv, late>>
      BY DEF RecoverStore
    <2> QED BY <1>1, <2>1
  <1>4. store \in Store /\ task \in [Task -> Locals] /\ s \in Secret
    BY DEF TypeOK, Listed
  <1>5. /\ \A x \in Secret : x # s => store'.row[x] = store.row[x]
        /\ store'.row[s] = IF store.row[s] = "none" THEN "unspent" ELSE store.row[s]
    BY <1>2, <1>4 DEF store_directly, CanInsert, Stored, insert_output, Store
  <1>6. SpentRows'
    BY <1>3, <1>5, RowsStaySpent DEF RecoverInv
  <1> DEFINE m == [l EXCEPT !.new = [@ EXCEPT ![s] = 0]]
  <1>7. PICK n : n = m
    OBVIOUS
  <1>8. task'[t] = m
    BY <1>2, <1>4
  <1>9. /\ m.pc = "recover_store" /\ m.chain = l.chain /\ m.used = l.used
        /\ m.new = [l.new EXCEPT ![s] = 0]
    BY <1>3 DEF Locals
  <1> HIDE DEF m
  <1>10. \A x \in Listed(l.new) : x # s => x \in Listed(m.new)
    BY <1>9 DEF Listed, Locals, Coins
  <1>11. srv[s] = "unspent" => store'.row[s] = "unspent"
    <2>1. store.row[s] \in RowState
      BY <1>4 DEF Store
    <2> QED BY <1>4, <1>5, <2>1 DEF RecoverInv, SpentRows, RowState
  <1>12. StoreEstablished(l)
    BY <1>1 DEF RecoverInv, Established
  <1>13. ASSUME NEW c \in Chain, NEW d \in Depth
         PROVE  /\ Known(<<c, d>>)' => d < m.used[c]
                /\ Live(c, d)' => <<c, d>> \in Listed(m.new) \/ Spendable(c, d)'
    <2>1. /\ Known(<<c, d>>) => d < l.used[c]
          /\ Live(c, d) => <<c, d>> \in Listed(l.new) \/ Spendable(c, d)
      BY <1>3, <1>12 DEF StoreEstablished, Seen
    <2>2. <<c, d>> \in Secret
      BY DerivedSecret
    <2> QED BY <1>3, <1>5, <1>9, <1>10, <1>11, <2>1, <2>2
        DEF Live, Spendable, Known
  <1>14. m.chain = "RECEIVE"
    BY <1>3, <1>9, <1>12 DEF StoreEstablished
  <1>15. StoreEstablished(n)'
    BY <1>7, <1>13, <1>14 DEF StoreEstablished, Seen, Listed
  <1>16. Established(n)'
    BY <1>7, <1>9, <1>15 DEF Established, ScanEstablished, DepthsEstablished,
       EndEstablished, InputsSpent
  <1> QED BY <1>6, <1>7, <1>8, <1>16, TaskRecovers

LEMMA StoredRecovers ==
  ASSUME OneTask, TypeOK, RecoverInv, NEW t \in Task, RecoverStored(t)
  PROVE  RecoverInv'
  <1>1. PICK l \in Locals : l = task[t]
    BY DEF TypeOK
  <1>2. /\ task[t].pc = "recover_store" /\ task[t].new = NoCoins
        /\ UNCHANGED <<srv, store, late>>
        /\ Goto(t, "recover_depths")
    BY DEF RecoverStored
  <1>3. task \in [Task -> Locals]
    BY DEF TypeOK
  <1>4. SpentRows'
    BY <1>2, RowsStaySpent DEF RecoverInv
  <1>5. PICK n : n = task'[t]
    OBVIOUS
  <1>6. n.pc = "recover_depths" /\ n.chain = l.chain /\ n.used = l.used
    BY <1>1, <1>2, <1>3, <1>5 DEF Goto, Locals
  <1>7. /\ l.chain = "RECEIVE"
        /\ \A c \in Chain, d \in Depth : /\ Known(<<c, d>>) => d < l.used[c]
                                         /\ Live(c, d) => Spendable(c, d)
    <2>1. StoreEstablished(l)
      BY <1>1 DEF RecoverInv, Established
    <2> QED BY <1>1, <1>2, <2>1, NothingListed DEF StoreEstablished, Seen
  <1>8. DepthsEstablished(n)'
    BY <1>2, <1>6, <1>7
    DEF DepthsEstablished, Seen, Known, Live, Spendable, Earlier
  <1>9. Established(n)'
    BY <1>6, <1>8 DEF Established, ScanEstablished, StoreEstablished,
       EndEstablished, InputsSpent
  <1> QED BY <1>4, <1>5, <1>9, TaskRecovers

\* A chain whose depth is right is done, and the next one is looked at.
LEMMA NextChainRecovers ==
  ASSUME OneTask, TypeOK, RecoverInv, NEW t \in Task, NEW l \in Locals,
         l.pc \in {"recover_depths", "recover_set"},
         UNCHANGED <<srv, late>>, store'.row = store.row,
         task' = [task EXCEPT ![t] = NextChain(l)],
         \A c \in Chain, d \in Depth : /\ Known(<<c, d>>) => d < l.used[c]
                                       /\ Live(c, d) => Spendable(c, d),
         \A c \in Earlier[l.chain] \cup {l.chain} : Unused(c)'
  PROVE  RecoverInv'
  <1>1. SpentRows'
    BY RowsStaySpent DEF RecoverInv
  <1>2. task \in [Task -> Locals]
    BY DEF TypeOK
  <1>3. PICK n : n = NextChain(l) /\ task'[t] = n
    BY <1>2
  <1>4. \A c \in Chain, d \in Depth : Live(c, d)' => Spendable(c, d)'
    BY DEF Live, Spendable
  <1>5. CASE l.chain \in DOMAIN ChainAfter
    <2>1. n.pc = "recover_depths" /\ n.used = l.used /\ n.chain = ChainAfter[l.chain]
      BY <1>3, <1>5 DEF NextChain, Locals
    <2>2. Earlier[n.chain] = Earlier[l.chain] \cup {l.chain}
      BY <1>5, <2>1 DEF Earlier, ChainAfter
    <2>3. DepthsEstablished(n)'
      BY <1>4, <2>1, <2>2 DEF DepthsEstablished, Seen, Known
    <2>4. Established(n)'
      BY <2>1, <2>3 DEF Established, ScanEstablished, StoreEstablished,
         EndEstablished, InputsSpent
    <2> QED BY <1>1, <1>3, <2>4, TaskRecovers
  <1>6. CASE l.chain \notin DOMAIN ChainAfter
    <2>1. n.pc = "recovered"
      BY <1>3, <1>6 DEF NextChain, Idle
    <2>2. l.chain = "MINING"
      BY <1>6 DEF Locals, Chain, ChainAfter
    <2>3. EndEstablished(n)'
      BY <1>4, <2>2 DEF EndEstablished, Earlier, Chain
    <2>4. Established(n)'
      BY <2>1, <2>3 DEF Established, ScanEstablished, StoreEstablished,
         DepthsEstablished, InputsSpent
    <2> QED BY <1>1, <1>3, <2>4, TaskRecovers
  <1> QED BY <1>5, <1>6

LEMMA DepthsRecovers ==
  ASSUME OneTask, TypeOK, RecoverInv, NEW t \in Task,
         RecoverReadDepth(t) \/ RecoverSetDepth(t)
  PROVE  RecoverInv'
  <1>1. PICK l \in Locals : l = task[t]
    BY DEF TypeOK
  <1>2. l.pc \in {"recover_depths", "recover_set"} /\ UNCHANGED <<srv, late>>
    BY <1>1 DEF RecoverReadDepth, RecoverSetDepth
  <1>3. task \in [Task -> Locals] /\ store \in Store
    BY DEF TypeOK
  <1>4. DepthsEstablished(l)
    BY <1>1 DEF RecoverInv, Established
  <1>5. /\ \A c \in Chain, d \in Depth : /\ Known(<<c, d>>) => d < l.used[c]
                                         /\ Live(c, d) => Spendable(c, d)
        /\ \A c \in Earlier[l.chain] : Unused(c)
    BY <1>2, <1>4 DEF DepthsEstablished, Seen
  <1>6. /\ l.chain \in Chain /\ l.used \in [Chain -> Nat]
        /\ \A c \in Earlier[l.chain] : c \in Chain /\ c # l.chain
    BY DEF Locals, Earlier, Chain
  <1>7. CASE RecoverReadDepth(t)
    <2>1. UNCHANGED store
      BY <1>7 DEF RecoverReadDepth
    <2>2. \A c \in Earlier[l.chain] : Unused(c)'
      BY <1>2, <1>5, <2>1 DEF Unused, Used, Known
    <2>3. CASE l.used[l.chain] > store.depth[l.chain]
      <3>1. PICK n : n = task'[t]
        OBVIOUS
      <3>2. n.pc = "recover_set" /\ n.chain = l.chain /\ n.used = l.used
        BY <1>1, <1>3, <1>7, <2>3, <3>1 DEF RecoverReadDepth, Locals
      <3>3. DepthsEstablished(n)'
        BY <1>2, <1>5, <2>1, <2>2, <3>2
        DEF DepthsEstablished, Seen, Known, Live, Spendable
      <3>4. Established(n)'
        BY <3>2, <3>3 DEF Established, ScanEstablished, StoreEstablished,
           EndEstablished, InputsSpent
      <3>5. SpentRows'
        BY <1>2, <2>1, RowsStaySpent DEF RecoverInv
      <3> QED BY <3>1, <3>4, <3>5, TaskRecovers
    <2>4. CASE ~(l.used[l.chain] > store.depth[l.chain])
      <3>1. task' = [task EXCEPT ![t] = NextChain(l)]
        BY <1>1, <1>7, <2>4 DEF RecoverReadDepth
      <3>2. Unused(l.chain)'
        <4>1. store.depth[l.chain] \in Nat /\ l.used[l.chain] \in Nat
          BY <1>3, <1>6 DEF Store
        <4>2. ASSUME Used(l.chain, store.depth[l.chain]) PROVE FALSE
          <5>1. store.depth[l.chain] \in Depth
            BY <4>2 DEF Used, Derived
          <5> QED BY <1>5, <1>6, <2>4, <4>1, <4>2, <5>1 DEF Used
        <4> QED BY <1>2, <2>1, <4>2 DEF Unused, Used, Known
      <3> QED BY <1>2, <1>5, <2>1, <2>2, <3>1, <3>2, NextChainRecovers
    <2> QED BY <2>3, <2>4
  <1>8. CASE RecoverSetDepth(t)
    <2>1. /\ store' = set_depth(store, l.chain, l.used[l.chain])
          /\ task' = [task EXCEPT ![t] = NextChain(l)]
      BY <1>1, <1>8 DEF RecoverSetDepth
    <2>2. /\ store'.row = store.row
          /\ store'.depth = [store.depth EXCEPT ![l.chain] = l.used[l.chain]]
      BY <1>3, <2>1 DEF set_depth, Store
    <2>3. store.depth \in [Chain -> Nat]
      BY <1>3 DEF Store
    <2>4. \A c \in Earlier[l.chain] : Unused(c)'
      BY <1>2, <1>5, <1>6, <2>2, <2>3 DEF Unused, Used, Known
    <2>5. Unused(l.chain)'
      <3>1. store'.depth[l.chain] = l.used[l.chain] /\ l.used[l.chain] \in Nat
        BY <1>6, <2>2, <2>3
      <3>2. ASSUME Used(l.chain, l.used[l.chain]) PROVE FALSE
        <4>1. l.used[l.chain] \in Depth
          BY <3>2 DEF Used, Derived
        <4> QED BY <1>5, <1>6, <3>1, <3>2, <4>1 DEF Used
      <3> QED BY <1>2, <3>1, <3>2 DEF Unused, Used, Known
    <2> QED BY <1>2, <1>5, <2>1, <2>2, <2>4, <2>5, NextChainRecovers
  <1> QED BY <1>7, <1>8
============================================================================
