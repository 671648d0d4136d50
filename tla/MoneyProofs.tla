---------------------------- MODULE MoneyProofs ----------------------------
(***************************************************************************)
(* Proofs about a wallet whose replies arrive and that recovers nothing:   *)
(* store and server differ by the calls in progress (BooksInv), and the    *)
(* wallet implements the purse of module Purse (PurseInv).                 *)
(***************************************************************************)
EXTENDS WalletProofs, WalletPurse, FiniteSetTheorems, WellFoundedInduction

----------------------------------------------------------------------------
(* Books: while no reply is lost and nothing is recovered, one call at most *)
(* stands between a row and what the server says of it.                     *)

LEMMA BooksTypes ==
  ASSUME BooksInv
  PROVE  /\ TypeOK /\ CoverInv /\ RowsInv
         /\ srv \in [Secret -> Status] /\ task \in [Task -> Locals]
         /\ store \in Store
         /\ paid \subseteq {"PAY"} \X Depth
         /\ paid \subseteq Derived
         /\ \A t \in Task : /\ Settled(task[t]) /\ Covered(task[t])
                            /\ CallBacked(task[t]) /\ task[t] \in Locals
  BY DEF BooksInv, RowsInv, CoverInv, TypeOK, CallsSettled, CallsCovered,
         CallsBacked, Derived, Chain

\* An output of a call that is at the server, or back, is the next depth of its
\* chain as the call has read it.
LEMMA OutputAt ==
  ASSUME BooksInv, NEW t \in Task,
         task[t].pc \in Inserting \cup Sent \cup Replaced,
         NEW s \in Listed(task[t].new)
  PROVE  /\ s \in Derived /\ s \in Secret
         /\ s[1] \in Chain /\ s[2] \in Depth /\ s[2] \in Nat
         /\ s = <<s[1], s[2]>> /\ s[2] = task[t].read[s[1]]
         /\ store.depth[s[1]] \in Nat /\ s[2] <= store.depth[s[1]]
  <1>1. s \in Derived /\ s[2] = task[t].read[s[1]]
    BY BooksTypes DEF Covered
  <1>2. s[1] \in Chain /\ s[2] \in Depth /\ s = <<s[1], s[2]>> /\ s \in Secret
    BY <1>1 DEF Derived, Secret
  <1>3. s[2] \in Nat
    BY <1>2, MaxDepthAssumption DEF Depth
  <1>4. store.depth[s[1]] \in Nat
    BY <1>2, BooksTypes DEF Store
  <1>5. task[t].read[s[1]] <= store.depth[s[1]]
    BY <1>2, BooksTypes DEF Settled
  <1> QED BY <1>1, <1>2, <1>3, <1>4, <1>5

\* Once it exists and until it is recorded, it is the next depth still.
LEMMA ReplacedAt ==
  ASSUME BooksInv, NEW t \in Task, task[t].pc \in Replaced,
         NEW s \in Listed(task[t].new)
  PROVE  s[2] = store.depth[s[1]]
  BY OutputAt, BooksTypes DEF Settled

\* So no two calls have made outputs on one chain.
LEMMA OneCallPerChain ==
  ASSUME BooksInv, NEW t \in Task, NEW u \in Task, t # u,
         task[t].pc \in Replaced, task[u].pc \in Replaced,
         NEW s \in Listed(task[t].new), NEW r \in Listed(task[u].new)
  PROVE  s[1] # r[1]
  <1> SUFFICES ASSUME s[1] = r[1] PROVE FALSE
    OBVIOUS
  <1>1. s = r
    BY OutputAt, ReplacedAt
  <1> QED BY <1>1 DEF BooksInv, OutputsApart

\* The one output of an insert.
LEMMA InsertMakesOne ==
  ASSUME BooksInv, NEW t \in Task, task[t].pc \in Inserting
  PROVE  Listed(task[t].new) = {<<"RECEIVE", task[t].read["RECEIVE"]>>}
  <1>1. Listed(task[t].new) \subseteq {<<"RECEIVE", task[t].read["RECEIVE"]>>}
    BY BooksTypes DEF Settled
  <1>2. <<"RECEIVE", task[t].read["RECEIVE"]>> \in Listed(task[t].new)
    BY BooksTypes DEF Covered
  <1> QED BY <1>1, <1>2

LEMMA IdleSettled == ASSUME store \in Store PROVE Settled(Idle)
  <1>1. Idle.pc = "idle" /\ \A c \in Chain : Idle.read[c] = 0
    BY DEF Idle
  <1>2. \A c \in Chain : 0 <= store.depth[c]
    BY DEF Store
  <1>3. Idle.pc \notin Recovering \cup Inserting \cup Fallback \cup Replaced
             \cup Unrecorded \cup {"merge_sent", "merge_replaced", "insert_stored"}
    BY <1>1 DEF Recovering, Inserting, Fallback, Replaced, Unrecorded
  <1>4. \A c \in Chain : Idle.read[c] <= store.depth[c]
    BY <1>1, <1>2
  <1> QED BY <1>3, <1>4 DEF Settled

LEMMA IdleBooked == ASSUME store' \in Store PROVE Settled(Idle)'
  <1>1. Idle.pc = "idle" /\ \A c \in Chain : Idle.read[c] = 0
    BY DEF Idle
  <1>2. \A c \in Chain : 0 <= store'.depth[c]
    BY DEF Store
  <1>3. Idle.pc \notin Recovering \cup Inserting \cup Fallback \cup Replaced
             \cup Unrecorded \cup {"merge_sent", "merge_replaced", "insert_stored"}
    BY <1>1 DEF Recovering, Inserting, Fallback, Replaced, Unrecorded
  <1>4. \A c \in Chain : Idle.read[c] <= store'.depth[c]
    BY <1>1, <1>2
  <1> QED BY <1>3, <1>4 DEF Settled

\* What a call remembers of the store, the payments and the server stays true
\* while its outputs are not recorded, handed out or spent.
LEMMA SettledKept ==
  ASSUME NEW u \in Task, task[u] \in Locals, Covered(task[u]), Settled(task[u]),
         task'[u] = task[u], store \in Store, store' \in Store,
         paid \subseteq paid',
         \A c \in Chain : store.depth[c] <= store'.depth[c],
         \A s \in Secret : Stored(store, s) => Stored(store, s)',
         task[u].pc \in Replaced =>
           \A s \in Listed(task[u].new) : store'.depth[s[1]] <= s[2],
         task[u].pc \in Unrecorded =>
           \A s \in Listed(task[u].new) :
             ~Stored(store, s)' /\ s \notin paid' /\ srv'[s] = "unspent"
  PROVE  Settled(task[u])'
  <1>1. \A c \in Chain : task[u].read[c] <= store'.depth[c]
    BY DEF Settled, Store, Locals
  <1>2. \A s \in Listed(task[u].new) : s \in Secret
    BY DEF Listed
  <1> QED BY <1>1, <1>2 DEF Settled, Listed, Stored

\* A call advances by itself, before the server has replaced.
LEMMA BooksLocal ==
  ASSUME BooksInv, RowsInv', UNCHANGED <<srv, worth, store, late, paid>>,
         NEW t \in Task, NEW l, Settled(l), task' = [task EXCEPT ![t] = l],
         task[t].pc \notin Replaced, l.pc \notin Replaced
  PROVE  BooksInv'
  <1>1. task'[t] = l /\ \A u \in Task : u # t => task'[u] = task[u]
    BY BooksTypes
  <1>2. \A u \in Task : task'[u].pc \in Replaced =>
          u # t /\ task'[u] = task[u]
    BY <1>1
  <1>3. \A u \in Task : task[u].pc \in Replaced => task'[u] = task[u]
    BY <1>1
  <1>4. CallsSettled'
    <2> SUFFICES ASSUME NEW u \in Task PROVE Settled(task[u])'
      BY DEF CallsSettled
    <2>1. Settled(task[u])
      BY BooksTypes
    <2> QED BY <1>1, <2>1 DEF Settled, Listed, Stored
  <1>5. OutputsApart'
    BY <1>2 DEF BooksInv, OutputsApart, Listed
  <1>6. PaymentsLeave'
    BY DEF BooksInv, PaymentsLeave, Stored
  <1>7. BehindByOneCall'
    BY <1>3 DEF BooksInv, BehindByOneCall, Listed, Unrecorded
  <1>8. UsedByOneCall'
    BY <1>3 DEF BooksInv, UsedByOneCall, Listed, Known
  <1> QED BY <1>4, <1>5, <1>6, <1>7, <1>8 DEF BooksInv

LEMMA BooksFinish ==
  ASSUME BooksInv, RowsInv', UNCHANGED <<srv, worth, store, late, paid>>,
         NEW t \in Task, Finish(t), task[t].pc \notin Replaced
  PROVE  BooksInv'
  <1>1. Settled(Idle) /\ Idle.pc \notin Replaced
    BY BooksTypes, IdleSettled DEF Idle, Replaced
  <1> QED BY <1>1, BooksLocal DEF Finish

----------------------------------------------------------------------------
LEMMA BooksInit == Init => BooksInv
  <1> SUFFICES ASSUME Init PROVE BooksInv
    OBVIOUS
  <1> DEFINE opened == {<<"RECEIVE", i - 1>> : i \in 1 .. Len(Opening)}
             sum(s) == IF s \in opened THEN Opening[s[2] + 1] ELSE 0
  <1>1. RowsInv
    BY RowsInit
  <1>2. PICK offered \in SUBSET Foreign :
          srv = [s \in Secret |-> IF s \in opened \cup offered
                                  THEN "unspent" ELSE "unknown"]
    BY DEF Init
  <1>3. /\ store.row = [s \in Secret |-> IF s \in opened THEN "unspent" ELSE "none"]
        /\ store.depth = [c \in Chain |-> IF c = "RECEIVE" THEN Len(Opening) ELSE 0]
        /\ late = {} /\ paid = {} /\ task = [t \in Task |-> Idle]
    BY DEF Init
  <1>4. \A s \in opened : s[1] = "RECEIVE" /\ s[2] < Len(Opening)
    BY WalletAssumption
  <1> HIDE DEF opened, sum
  <1>5. \A s \in Derived : s \in Secret /\ s \notin offered
    BY ForeignAssumption DEF Secret
  <1>6. \A t \in Task : task[t] = Idle /\ task[t].pc \notin Replaced
    BY <1>3 DEF Idle, Replaced
  <1>7. CallsSettled
    BY <1>1, <1>6, IdleSettled DEF CallsSettled, RowsInv, CoverInv, TypeOK
  <1>8. OutputsApart
    BY <1>6 DEF OutputsApart
  <1>9. PaymentsLeave
    BY <1>3, <1>4, <1>5 DEF PaymentsLeave, Stored, Derived, Chain
  <1>10. BehindByOneCall
    BY <1>2, <1>3, <1>5 DEF BehindByOneCall
  <1>11. UsedByOneCall
    <2> SUFFICES ASSUME NEW c \in Chain, NEW d \in Depth, Known(<<c, d>>),
                        store.depth[c] <= d
                 PROVE  FALSE
      BY DEF UsedByOneCall
    <2>1. <<c, d>> \in opened
      BY <1>2, <1>5, DerivedSecret DEF Known
    <2>2. c = "RECEIVE" /\ d < Len(Opening)
      BY <1>4, <2>1
    <2> QED BY <2>2, <1>3, WalletAssumption, MaxDepthAssumption DEF Depth
  <1> QED BY <1>1, <1>3, <1>7, <1>8, <1>9, <1>10, <1>11 DEF BooksInv

----------------------------------------------------------------------------
LEMMA BooksInsertBegin ==
  ASSUME BooksInv, RowsInv', NEW t \in Task, NEW s \in Foreign \cup paid,
         NEW validate \in BOOLEAN, InsertBegin(t, s, validate)
  PROVE  BooksInv'
  <1> DEFINE d == store.depth["RECEIVE"]
             a == IF s \in Foreign THEN FaceValue[s] ELSE worth[s]
             l == [Idle EXCEPT !.pc = IF validate THEN "insert_validate"
                                      ELSE "insert_sent",
                               !.ins = Coin(s, a),
                               !.new = Coin(<<"RECEIVE", d>>, a),
                               !.read = [@ EXCEPT !["RECEIVE"] = d]]
  <1>1. /\ task' = [task EXCEPT ![t] = l]
        /\ UNCHANGED <<srv, worth, store, late, paid>>
        /\ task[t].pc \in AtRest /\ d \in Depth
    BY DEF InsertBegin, Begin
  <1>2. s \in Secret /\ <<"RECEIVE", d>> \in Secret
    BY <1>1, BooksTypes, DerivedSecret DEF Secret, Chain
  <1>3. a \in Amount
    BY <1>2, WalletAssumption DEF BooksInv, RowsInv, CoverInv, TypeOK
  <1>4. /\ Listed(Coin(s, a)) \subseteq {s}
        /\ Listed(Coin(<<"RECEIVE", d>>, a)) \subseteq {<<"RECEIVE", d>>}
    BY <1>2, <1>3, CoinListsOne
  <1>5. /\ l.pc \in {"insert_validate", "insert_sent"}
        /\ l.ins = Coin(s, a) /\ l.new = Coin(<<"RECEIVE", d>>, a)
        /\ \A c \in Chain : l.read[c] = IF c = "RECEIVE" THEN d ELSE 0
        /\ l.read["RECEIVE"] = d
    BY DEF Idle, Chain
  <1>6. \A c \in Chain : store.depth[c] \in Nat
    BY BooksTypes DEF Store
  <1> HIDE DEF l
  <1>7. Settled(l)
    <2>1. \A c \in Chain : l.read[c] <= store.depth[c]
      BY <1>5, <1>6
    <2> QED BY <2>1, <1>4, <1>5
        DEF Settled, Recovering, Inserting, Fallback, Replaced, Unrecorded
  <1> QED BY <1>1, <1>5, <1>7, BooksLocal DEF AtRest, Replaced

LEMMA BooksSelected ==
  ASSUME BooksInv, NEW l, l.pc \in {"pay_selected", "merge_selected"},
         l.read = Idle.read
  PROVE  Settled(l) /\ l.pc \notin Replaced
  <1>1. \A c \in Chain : l.read[c] = 0 /\ store.depth[c] \in Nat
    BY BooksTypes DEF Idle, Store
  <1> QED BY <1>1
      DEF Settled, Recovering, Inserting, Fallback, Replaced, Unrecorded

LEMMA BooksPayBegin ==
  ASSUME BooksInv, RowsInv', NEW t \in Task, NEW amount, PayBegin(t, amount)
  PROVE  BooksInv'
  <1>1. PICK S \in Selections(amount) :
           task' = [task EXCEPT ![t] = [Idle EXCEPT !.pc = "pay_selected",
                                                    !.ins = CoinsOf(S, store.amt),
                                                    !.amount = amount]]
    BY DEF PayBegin
  <1> DEFINE l == [Idle EXCEPT !.pc = "pay_selected",
                               !.ins = CoinsOf(S, store.amt),
                               !.amount = amount]
  <1>2. l.pc = "pay_selected" /\ l.read = Idle.read
    BY DEF Idle
  <1>3. task' = [task EXCEPT ![t] = l]
    BY <1>1
  <1> HIDE DEF l
  <1>4. /\ UNCHANGED <<srv, worth, store, late, paid>>
        /\ task[t].pc \notin Replaced
    BY DEF PayBegin, Begin, AtRest, Replaced
  <1>5. Settled(l) /\ l.pc \notin Replaced
    BY <1>2, BooksSelected
  <1> QED BY <1>3, <1>4, <1>5, BooksLocal

LEMMA BooksMergeBegin ==
  ASSUME BooksInv, RowsInv', NEW t \in Task, MergeBegin(t)
  PROVE  BooksInv'
  <1>1. PICK S \in SUBSET Unspent(store) :
           task' = [task EXCEPT ![t] = [Idle EXCEPT !.pc = "merge_selected",
                                                    !.ins = CoinsOf(S, store.amt)]]
    BY DEF MergeBegin
  <1> DEFINE l == [Idle EXCEPT !.pc = "merge_selected",
                               !.ins = CoinsOf(S, store.amt)]
  <1>2. l.pc = "merge_selected" /\ l.read = Idle.read
    BY DEF Idle
  <1>3. task' = [task EXCEPT ![t] = l]
    BY <1>1
  <1> HIDE DEF l
  <1>4. /\ UNCHANGED <<srv, worth, store, late, paid>>
        /\ task[t].pc \notin Replaced
    BY DEF MergeBegin, Begin, AtRest, Replaced
  <1>5. Settled(l) /\ l.pc \notin Replaced
    BY <1>2, BooksSelected
  <1> QED BY <1>3, <1>4, <1>5, BooksLocal

\* A call of insert goes on, to its request or to the fallback.
LEMMA BooksGoto ==
  ASSUME BooksInv, RowsInv', UNCHANGED <<srv, worth, store, late, paid>>,
         NEW t \in Task, NEW pc \in {"insert_sent", "insert_fallback", "insert_direct"},
         Goto(t, pc), task[t].pc \notin Replaced,
         pc = "insert_sent" => task[t].pc \in Inserting,
         pc # "insert_sent" => Listed(task[t].ins) \subseteq Foreign
  PROVE  BooksInv'
  <1> DEFINE l == [task[t] EXCEPT !.pc = pc]
  <1>1. Settled(task[t]) /\ task[t] \in Locals
    BY BooksTypes
  <1>2. /\ l.pc = pc /\ l.ins = task[t].ins /\ l.new = task[t].new
        /\ l.read = task[t].read
    BY <1>1 DEF Locals
  <1>3. task' = [task EXCEPT ![t] = l]
    BY DEF Goto
  <1> HIDE DEF l
  <1>4. Settled(l)
    BY <1>1, <1>2
    DEF Settled, Recovering, Inserting, Fallback, Replaced, Unrecorded
  <1> QED BY <1>2, <1>3, <1>4, BooksLocal DEF Replaced

LEMMA BooksInsertValidate ==
  ASSUME BooksInv, RowsInv', NEW t \in Task, InsertValidate(t)
  PROVE  BooksInv'
  <1>1. /\ task[t].pc = "insert_validate" /\ task[t].pc \notin Replaced
        /\ UNCHANGED <<srv, worth, store, late, paid>>
    BY DEF InsertValidate, Replaced
  <1>2. CASE Finish(t)
    BY <1>1, <1>2, BooksFinish
  <1>3. CASE Goto(t, "insert_sent")
    BY <1>1, <1>3, BooksGoto DEF Inserting
  <1> QED BY <1>2, <1>3 DEF InsertValidate

LEMMA BooksInsertFallback ==
  ASSUME BooksInv, RowsInv', NEW t \in Task, InsertFallback(t)
  PROVE  BooksInv'
  <1>1. Listed(task[t].ins) \subseteq Foreign
    BY BooksTypes DEF InsertFallback, Settled, Fallback
  <1>2. /\ task[t].pc = "insert_fallback" /\ task[t].pc \notin Replaced
        /\ UNCHANGED <<srv, worth, store, late, paid>>
    BY DEF InsertFallback, Replaced
  <1>3. CASE Finish(t)
    BY <1>2, <1>3, BooksFinish
  <1>4. CASE Goto(t, "insert_direct")
    BY <1>1, <1>2, <1>4, BooksGoto
  <1> QED BY <1>3, <1>4 DEF InsertFallback

LEMMA BooksServerRefuses ==
  ASSUME BooksInv, RowsInv', NEW t \in Task, ServerRefuses(t)
  PROVE  BooksInv'
  <1>1. UNCHANGED <<srv, worth, store, late, paid>> /\ task[t].pc \notin Replaced
    BY DEF ServerRefuses, Sent, Replaced
  <1>2. CASE /\ task[t].pc = "insert_sent" /\ RefusedAsSameLineage(RequestOf(t))
             /\ Goto(t, "insert_fallback")
    <2>1. PICK s \in Listed(task[t].ins) : s \in SameLineage
      BY <1>2 DEF RefusedAsSameLineage, RequestOf
    <2>2. \A r \in Listed(task[t].ins) : r = s
      BY <1>2, BooksTypes DEF CallBacked, Inserting
    <2>3. Listed(task[t].ins) \subseteq Foreign
      BY <2>1, <2>2, SameLineageAssumption
    <2> QED BY <1>1, <1>2, <2>3, BooksGoto
  <1>3. CASE Finish(t)
    BY <1>1, <1>3, BooksFinish
  <1> QED BY <1>2, <1>3 DEF ServerRefuses

LEMMA BooksSend ==
  ASSUME BooksInv, RowsInv', NEW t \in Task,
         task[t].pc \in {"pay_selected", "merge_selected"},
         NEW pc \in {"pay_sent", "merge_sent"}, NEW new, Send(t, pc, new),
         pc = "merge_sent" => \A s \in Listed(new) : s[1] = "CHANGE"
  PROVE  BooksInv'
  <1> DEFINE l == [task[t] EXCEPT !.pc = pc, !.read = store.depth, !.new = new]
  <1>1. task[t] \in Locals /\ \A c \in Chain : store.depth[c] \in Nat
    BY BooksTypes DEF Store
  <1>2. l.pc = pc /\ l.read = store.depth /\ l.new = new
    BY <1>1 DEF Locals
  <1>3. /\ task' = [task EXCEPT ![t] = l]
        /\ UNCHANGED <<srv, worth, store, late, paid>>
    BY DEF Send
  <1> HIDE DEF l
  <1>4. Settled(l)
    BY <1>1, <1>2
    DEF Settled, Recovering, Inserting, Fallback, Replaced, Unrecorded
  <1> QED BY <1>2, <1>3, <1>4, BooksLocal DEF Replaced

LEMMA BooksPaySend ==
  ASSUME BooksInv, RowsInv', NEW t \in Task, PaySend(t)
  PROVE  BooksInv'
  <1>1. PICK new : Send(t, "pay_sent", new)
    BY DEF PaySend
  <1> QED BY <1>1, BooksSend DEF PaySend

LEMMA BooksMergeSend ==
  ASSUME BooksInv, RowsInv', NEW t \in Task, MergeSend(t)
  PROVE  BooksInv'
  <1> DEFINE q == <<"CHANGE", store.depth["CHANGE"]>>
  <1>1. PICK sum \in Amount : Send(t, "merge_sent", Coin(q, sum))
    BY DEF MergeSend
  <1>2. q \in Secret
    BY DEF MergeSend, Secret
  <1>3. \A s \in Listed(Coin(q, sum)) : s[1] = "CHANGE"
    BY <1>2, CoinListsOne
  <1> HIDE DEF q
  <1> QED BY <1>1, <1>3, BooksSend DEF MergeSend
----------------------------------------------------------------------------
LEMMA BooksServerReplaces ==
  ASSUME BooksInv, RowsInv', NEW t \in Task, ServerReplaces(t)
  PROVE  BooksInv'
  <1> DEFINE req == RequestOf(t)
  <1>1. /\ task[t].pc \in Sent /\ Replaceable(req) /\ Replace(req)
        /\ UNCHANGED <<store, late, paid>>
        /\ task' = [task EXCEPT ![t].pc = NextPC[task[t].pc]]
        /\ req.ins = task[t].ins /\ req.new = task[t].new
    BY DEF ServerReplaces, Goto, RequestOf
  <1>2. /\ task'[t].ins = task[t].ins /\ task'[t].new = task[t].new
        /\ task'[t].read = task[t].read
        /\ task'[t].pc = NextPC[task[t].pc]
        /\ task'[t].pc \in Unrecorded /\ task[t].pc \notin Replaced
        /\ \A u \in Task : u # t => task'[u] = task[u]
    BY <1>1, BooksTypes DEF Locals, Sent, Replaced, Unrecorded, NextPC
  <1>3. \A s \in Listed(task[t].new) :
          /\ s \in Derived /\ s \in Secret /\ s = <<s[1], s[2]>>
          /\ s[1] \in Chain /\ s[2] \in Depth
          /\ ~Known(s) /\ srv'[s] = "unspent"
          /\ s \notin Listed(task[t].ins)
    BY <1>1, OutputAt DEF Replaceable, Replace, Known
  <1>4. \A s \in Listed(task[t].ins) : srv[s] = "unspent" /\ srv'[s] = "spent"
    BY <1>1 DEF Replaceable, Replace, Listed
  <1>5. \A s \in Secret :
          s \notin Listed(task[t].ins) \cup Listed(task[t].new) => srv'[s] = srv[s]
    BY <1>1 DEF Replace
  \* Nobody spends what another call has made and not recorded.
  <1>6. ASSUME NEW u \in Task, task[u].pc \in Unrecorded,
               NEW s \in Listed(task[u].new)
        PROVE  srv'[s] = "unspent"
    <2>1. /\ s \in Derived /\ s \in Secret /\ ~Stored(store, s) /\ s \notin paid
          /\ srv[s] = "unspent"
      BY <1>6, OutputAt, BooksTypes DEF Settled, Unrecorded
    <2>2. s \notin Listed(task[t].ins)
      <3>1. CASE task[t].pc = "insert_sent"
        BY <3>1, <2>1, BooksTypes, ForeignAssumption DEF Settled, Inserting
      <3>2. CASE task[t].pc \in {"pay_sent", "merge_sent"}
        BY <3>2, <2>1, BooksTypes DEF CallBacked, Spending
      <3> QED BY <1>1, <3>1, <3>2 DEF Sent
    <2>3. s \notin Listed(task[t].new)
      BY <1>3, <2>1 DEF Known
    <2> QED BY <2>1, <2>2, <2>3, <1>5
  <1>7. CallsSettled'
    <2> SUFFICES ASSUME NEW u \in Task PROVE Settled(task[u])'
      BY DEF CallsSettled
    <2>1. Settled(task[u]) /\ Covered(task[u]) /\ task[u] \in Locals
      BY BooksTypes
    <2>2. CASE u # t
      <3>1. \A s \in Listed(task[u].new) :
              task[u].pc \in Replaced => store.depth[s[1]] <= s[2]
        BY <2>1 DEF Settled
      <3>2. \A s \in Listed(task[u].new) : task[u].pc \in Unrecorded =>
              ~Stored(store, s)' /\ s \notin paid' /\ srv'[s] = "unspent"
        BY <1>1, <1>6, <2>1 DEF Settled, Stored
      <3>3. \A c \in Chain : store.depth[c] <= store'.depth[c]
        BY <1>1, BooksTypes DEF Store
      <3>4. \A s \in Secret : Stored(store, s) => Stored(store, s)'
        BY <1>1 DEF Stored
      <3> QED BY <1>1, <1>2, <2>1, <2>2, <3>1, <3>2, <3>3, <3>4, BooksTypes,
                 SettledKept
    <2>3. CASE u = t
      <3>1. \A s \in Listed(task[t].new) : store.depth[s[1]] <= s[2]
        <4> SUFFICES ASSUME NEW s \in Listed(task[t].new),
                            ~(store.depth[s[1]] <= s[2])
                     PROVE  FALSE
          OBVIOUS
        <4>1. s[2] < store.depth[s[1]]
          BY <1>1, OutputAt
        <4>2. Known(<<s[1], s[2]>>)
          BY <1>3, <4>1, BooksTypes DEF CoverInv, ChainsContiguous
        <4> QED BY <1>3, <4>2
      <3>2. \A s \in Listed(task[t].new) :
              ~Stored(store, s) /\ s \notin paid /\ srv'[s] = "unspent"
        BY <1>3, BooksTypes DEF RowsInv, RowsBacked, CoverInv, KnownWorth
      <3>3. CASE task[t].pc = "insert_sent"
        <4>1. task'[t].pc = "insert_replaced"
          BY <1>2, <3>3 DEF NextPC
        <4>2. /\ \A c \in Chain : task[t].read[c] <= store.depth[c]
              /\ Listed(task[t].ins) \subseteq Foreign \cup paid
              /\ Listed(task[t].new) \subseteq {<<"RECEIVE", task[t].read["RECEIVE"]>>}
          BY <3>3, BooksTypes DEF Settled, Inserting
        <4> QED BY <1>1, <1>2, <2>3, <3>1, <3>2, <4>1, <4>2
            DEF Settled, Recovering, Fallback, Stored
      <3>4. CASE task[t].pc \in {"pay_sent", "merge_sent"}
        <4>1. task'[t].pc = IF task[t].pc = "pay_sent"
                            THEN "pay_replaced" ELSE "merge_replaced"
          BY <1>2, <3>4 DEF NextPC
        <4>2. /\ \A c \in Chain : task[t].read[c] <= store.depth[c]
              /\ task[t].pc = "merge_sent" =>
                   \A s \in Listed(task[t].new) : s[1] = "CHANGE"
          BY BooksTypes DEF Settled
        <4> QED BY <1>1, <1>2, <2>3, <3>1, <3>2, <3>4, <4>1, <4>2
            DEF Settled, Recovering, Fallback, Inserting, Stored
      <3> QED BY <1>1, <3>3, <3>4 DEF Sent
    <2> QED BY <2>2, <2>3
  <1>8. OutputsApart'
    <2>1. ASSUME NEW u \in Task, u # t, task[u].pc \in Replaced
          PROVE  Listed(task[u].new) \cap Listed(task[t].new) = {}
      BY <1>3, <2>1, BooksTypes DEF Covered
    <2> QED BY <1>2, <2>1 DEF BooksInv, OutputsApart, Listed
  <1>9. PaymentsLeave'
    BY <1>1 DEF BooksInv, PaymentsLeave, Stored
  <1>10. BehindByOneCall'
    <2> SUFFICES ASSUME NEW s \in Derived
                 PROVE  /\ store.row[s] = "unspent" /\ srv'[s] = "spent" =>
                             \E u \in Task : /\ task'[u].pc \in Replaced
                                             /\ s \in Listed(task'[u].ins)
                        /\ srv'[s] = "unspent" /\ store.row[s] # "unspent" =>
                             \/ s \in paid
                             \/ \E u \in Task : /\ task'[u].pc \in Unrecorded
                                                /\ s \in Listed(task'[u].new)
      BY <1>1 DEF BehindByOneCall, Listed
    <2>1. CASE s \in Listed(task[t].ins) \cup Listed(task[t].new)
      BY <1>2, <1>3, <1>4, <2>1 DEF Unrecorded
    <2>2. CASE s \notin Listed(task[t].ins) \cup Listed(task[t].new)
      <3>1. srv'[s] = srv[s]
        BY <1>5, <2>2 DEF Secret
      <3>2. \A u \in Task : task[u].pc \in Replaced => task'[u] = task[u]
        BY <1>2
      <3> QED BY <3>1, <3>2 DEF BooksInv, BehindByOneCall, Unrecorded
    <2> QED BY <2>1, <2>2
  <1>11. UsedByOneCall'
    <2> SUFFICES ASSUME NEW c \in Chain, NEW d \in Depth, srv'[<<c, d>>] # "unknown",
                        store.depth[c] <= d
                 PROVE  \E u \in Task : /\ task'[u].pc \in Replaced
                                        /\ <<c, d>> \in Listed(task'[u].new)
      BY <1>1 DEF UsedByOneCall, Listed, Known
    <2>1. CASE <<c, d>> \in Listed(task[t].new)
      BY <1>2, <2>1 DEF Unrecorded
    <2>2. CASE <<c, d>> \notin Listed(task[t].new)
      <3>1. Known(<<c, d>>)
        BY <1>4, <1>5, <2>2, DerivedSecret DEF Known
      <3>2. \A u \in Task : task[u].pc \in Replaced => task'[u] = task[u]
        BY <1>2
      <3> QED BY <3>1, <3>2 DEF BooksInv, UsedByOneCall
    <2> QED BY <2>1, <2>2
  <1> QED BY <1>1, <1>7, <1>8, <1>9, <1>10, <1>11 DEF BooksInv

LEMMA BooksOthersSpend ==
  ASSUME BooksInv, RowsInv', NEW s \in Foreign \cup paid, OthersSpend(s)
  PROVE  BooksInv'
  <1>1. /\ srv' = [srv EXCEPT ![s] = "spent"] /\ srv[s] = "unspent"
        /\ UNCHANGED <<worth, store, task, late, paid>>
    BY DEF OthersSpend, SpentElsewhere
  <1>2. /\ \A r \in Secret : r # s => srv'[r] = srv[r]
        /\ s \in Derived => s \in paid
    BY <1>1, BooksTypes, ForeignAssumption
  <1>3. CallsSettled'
    <2> SUFFICES ASSUME NEW u \in Task PROVE Settled(task[u])'
      BY DEF CallsSettled
    <2>1. Settled(task[u])
      BY BooksTypes
    <2>2. ASSUME task[u].pc \in Unrecorded, NEW r \in Listed(task[u].new)
          PROVE  srv'[r] = "unspent"
      BY <1>2, <2>1, <2>2, OutputAt DEF Settled, Unrecorded
    <2> QED BY <1>1, <2>1, <2>2 DEF Settled, Listed, Stored
  <1>4. OutputsApart' /\ PaymentsLeave'
    BY <1>1 DEF BooksInv, OutputsApart, PaymentsLeave, Listed, Stored
  <1>5. BehindByOneCall'
    <2> SUFFICES ASSUME NEW r \in Derived
                 PROVE  /\ store.row[r] = "unspent" /\ srv'[r] = "spent" =>
                             \E u \in Task : /\ task[u].pc \in Replaced
                                             /\ r \in Listed(task[u].ins)
                        /\ srv'[r] = "unspent" /\ store.row[r] # "unspent" =>
                             \/ r \in paid
                             \/ \E u \in Task : /\ task[u].pc \in Unrecorded
                                                /\ r \in Listed(task[u].new)
      BY <1>1 DEF BehindByOneCall, Listed
    <2>1. CASE r = s
      <3>1. ~Stored(store, r)
        BY <1>2, <2>1, BooksTypes DEF BooksInv, PaymentsLeave
      <3> QED BY <1>2, <2>1, <3>1 DEF Stored
    <2>2. CASE r # s
      BY <1>2, <2>2 DEF BooksInv, BehindByOneCall, Secret
    <2> QED BY <2>1, <2>2
  <1>6. UsedByOneCall'
    <2>1. \A r \in Secret : Known(r)' => Known(r)
      BY <1>1, <1>2 DEF Known
    <2> QED BY <1>1, <2>1, DerivedSecret DEF BooksInv, UsedByOneCall, Listed
  <1> QED BY <1>1, <1>3, <1>4, <1>5, <1>6 DEF BooksInv

LEMMA BooksInsertStore ==
  ASSUME BooksInv, RowsInv', NEW t \in Task, InsertStore(t)
  PROVE  BooksInv'
  <1> DEFINE q == <<"RECEIVE", task[t].read["RECEIVE"]>>
  <1>1. /\ task[t].pc = "insert_replaced"
        /\ UNCHANGED <<srv, worth, late, paid>>
    BY DEF InsertStore
  <1>2. /\ task[t].pc \in Inserting /\ task[t].pc \in Unrecorded
        /\ task[t].pc \in Replaced
    BY <1>1 DEF Inserting, Unrecorded, Replaced
  <1>3. Listed(task[t].new) = {q} /\ q \in Derived /\ q \in Secret
    BY <1>2, InsertMakesOne, OutputAt
  <1>4. ~Stored(store, q) /\ srv[q] = "unspent"
    BY <1>2, <1>3, BooksTypes DEF Settled
  <1>5. /\ store' = insert_output(store, q, task[t].new[q])
        /\ Goto(t, "insert_stored")
    BY <1>3, <1>4 DEF InsertStore, CanInsert
  <1>6. /\ store'.row = [store.row EXCEPT ![q] = "unspent"]
        /\ store'.depth = store.depth
    BY <1>5, BooksTypes DEF insert_output, Store
  <1>7. /\ task'[t].ins = task[t].ins /\ task'[t].new = task[t].new
        /\ task'[t].read = task[t].read /\ task'[t].pc = "insert_stored"
        /\ \A u \in Task : u # t => task'[u] = task[u]
    BY <1>5, BooksTypes DEF Goto, Locals
  <1>8. store'.row[q] = "unspent" /\ \A s \in Secret : s # q => store'.row[s] = store.row[s]
    BY <1>3, <1>6, BooksTypes DEF Store
  <1> HIDE DEF q
  <1>9. CallsSettled'
    <2> SUFFICES ASSUME NEW u \in Task PROVE Settled(task[u])'
      BY DEF CallsSettled
    <2>1. Settled(task[u]) /\ Covered(task[u]) /\ task[u] \in Locals
      BY BooksTypes
    <2>2. CASE u # t
      <3>1. \A s \in Listed(task[u].new) :
              task[u].pc \in Replaced => store'.depth[s[1]] <= s[2]
        BY <2>1, <1>6 DEF Settled
      <3>2. \A s \in Listed(task[u].new) : task[u].pc \in Unrecorded =>
              ~Stored(store, s)' /\ s \notin paid' /\ srv'[s] = "unspent"
        <4> SUFFICES ASSUME NEW s \in Listed(task[u].new),
                            task[u].pc \in Unrecorded
                     PROVE  ~Stored(store, s)' /\ s \notin paid'
                            /\ srv'[s] = "unspent"
          OBVIOUS
        <4>1. ~Stored(store, s) /\ s \notin paid /\ srv[s] = "unspent"
          BY <2>1 DEF Settled
        <4>2. s # q /\ s \in Secret
          BY <1>2, <1>3, <2>2 DEF BooksInv, OutputsApart, Unrecorded, Listed
        <4> QED BY <4>1, <4>2, <1>1, <1>8 DEF Stored
      <3>3. \A c \in Chain : store.depth[c] <= store'.depth[c]
        BY <1>6, BooksTypes DEF Store
      <3>4. \A s \in Secret : Stored(store, s) => Stored(store, s)'
        BY <1>8 DEF Stored
      <3>5. store' \in Store
        BY DEF RowsInv, CoverInv, TypeOK
      <3> QED BY <1>1, <1>7, <2>1, <2>2, <3>1, <3>2, <3>3, <3>4, <3>5,
                 BooksTypes, SettledKept
    <2>3. CASE u = t
      <3>1. /\ \A c \in Chain : task[t].read[c] <= store.depth[c]
            /\ Listed(task[t].ins) \subseteq Foreign \cup paid
            /\ Listed(task[t].new) \subseteq {<<"RECEIVE", task[t].read["RECEIVE"]>>}
            /\ \A s \in Listed(task[t].new) : store.depth[s[1]] <= s[2]
        BY <1>2, BooksTypes DEF Settled
      <3>2. \A s \in Listed(task[t].new) : Stored(store', s)
        BY <1>3, <1>8 DEF Stored
      <3> QED BY <1>1, <1>6, <1>7, <2>3, <3>1, <3>2
          DEF Settled, Recovering, Fallback, Unrecorded, Listed
    <2> QED BY <2>2, <2>3
  <1>10. OutputsApart'
    BY <1>2, <1>7 DEF BooksInv, OutputsApart, Listed
  <1>11. PaymentsLeave'
    <2>1. \A d \in Depth : <<"PAY", d>> # q /\ <<"PAY", d>> \in Secret
      BY DerivedSecret DEF q, Chain
    <2> QED BY <1>8, <2>1 DEF BooksInv, PaymentsLeave, Stored
  <1>12. BehindByOneCall'
    <2> SUFFICES ASSUME NEW s \in Derived
                 PROVE  /\ store'.row[s] = "unspent" /\ srv[s] = "spent" =>
                             \E u \in Task : /\ task'[u].pc \in Replaced
                                             /\ s \in Listed(task'[u].ins)
                        /\ srv[s] = "unspent" /\ store'.row[s] # "unspent" =>
                             \/ s \in paid
                             \/ \E u \in Task : /\ task'[u].pc \in Unrecorded
                                                /\ s \in Listed(task'[u].new)
      BY <1>1 DEF BehindByOneCall, Listed
    <2>1. CASE s = q
      BY <1>4, <1>8, <2>1
    <2>2. CASE s # q
      <3>1. store'.row[s] = store.row[s]
        BY <1>8, <2>2 DEF Secret
      <3>2. \A u \in Task : task[u].pc \in Replaced =>
              task'[u].pc \in Replaced /\ task'[u].ins = task[u].ins
        BY <1>7 DEF Replaced
      <3>3. \A u \in Task : task[u].pc \in Unrecorded /\ s \in Listed(task[u].new) =>
              task'[u] = task[u]
        BY <1>3, <1>7, <2>2
      <3> QED BY <3>1, <3>2, <3>3 DEF BooksInv, BehindByOneCall
    <2> QED BY <2>1, <2>2
  <1>13. UsedByOneCall'
    <2>1. \A u \in Task : task[u].pc \in Replaced =>
            task'[u].pc \in Replaced /\ task'[u].new = task[u].new
      BY <1>7 DEF Replaced
    <2> QED BY <1>1, <1>6, <2>1 DEF BooksInv, UsedByOneCall, Listed, Known
  <1> QED BY <1>1, <1>9, <1>10, <1>11, <1>12, <1>13 DEF BooksInv
----------------------------------------------------------------------------
LEMMA BooksInsertSetDepth ==
  ASSUME BooksInv, RowsInv', NEW t \in Task, InsertSetDepth(t)
  PROVE  BooksInv' /\ \A c \in Chain : store.depth[c] <= store'.depth[c]
  <1> DEFINE n == task[t].read["RECEIVE"]
             q == <<"RECEIVE", n>>
  <1>1. /\ task[t].pc = "insert_stored"
        /\ store' = set_depth(store, "RECEIVE", n + 1)
        /\ task' = [task EXCEPT ![t] = Idle]
        /\ UNCHANGED <<srv, worth, late, paid>>
    BY DEF InsertSetDepth, Finish
  <1>2. task[t].pc \in Inserting /\ task[t].pc \in Replaced
    BY <1>1 DEF Inserting, Replaced
  <1>3. Listed(task[t].new) = {q}
    BY <1>2, InsertMakesOne
  <1>4. q[1] = "RECEIVE" /\ q[2] = n /\ n \in Nat /\ n = store.depth["RECEIVE"]
    <2>1. q[1] = "RECEIVE" /\ q[2] = n /\ q \in Listed(task[t].new)
      BY <1>3
    <2> HIDE DEF q
    <2>2. q[2] \in Nat /\ q[2] = store.depth[q[1]]
      BY <1>2, <2>1, OutputAt, ReplacedAt
    <2> QED BY <2>1, <2>2
  <1>5. /\ store'.row = store.row
        /\ \A c \in Chain : /\ store.depth[c] \in Nat
                            /\ store'.depth[c] = IF c = "RECEIVE" THEN n + 1
                                                 ELSE store.depth[c]
    BY <1>1, BooksTypes DEF set_depth, Store
  <1>6. \A c \in Chain : store.depth[c] <= store'.depth[c]
    BY <1>4, <1>5
  <1>7. task'[t] = Idle /\ \A u \in Task : u # t => task'[u] = task[u]
    BY <1>1, BooksTypes
  <1>8. Idle.pc \notin Replaced /\ Idle.pc \notin Unrecorded
    BY DEF Idle, Replaced, Unrecorded
  <1>9. store' \in Store
    BY DEF RowsInv, CoverInv, TypeOK
  <1>10. CallsSettled'
    <2> SUFFICES ASSUME NEW u \in Task PROVE Settled(task[u])'
      BY DEF CallsSettled
    <2>1. CASE u = t
      <3>1. Settled(Idle)'
        BY <1>9, IdleBooked
      <3> QED BY <3>1, <1>7, <2>1 DEF Settled
    <2>2. CASE u # t
      <3>1. Settled(task[u]) /\ Covered(task[u]) /\ task[u] \in Locals
        BY BooksTypes
      <3>2. \A s \in Listed(task[u].new) :
              task[u].pc \in Replaced => store'.depth[s[1]] <= s[2]
        <4> SUFFICES ASSUME NEW s \in Listed(task[u].new),
                            task[u].pc \in Replaced
                     PROVE  store'.depth[s[1]] <= s[2]
          OBVIOUS
        <4>1. s[1] # "RECEIVE"
          BY <1>2, <1>3, <1>4, <2>2, OneCallPerChain
        <4> QED BY <4>1, <1>5, <3>1, OutputAt DEF Settled
      <3>3. \A s \in Listed(task[u].new) : task[u].pc \in Unrecorded =>
              ~Stored(store, s)' /\ s \notin paid' /\ srv'[s] = "unspent"
        BY <1>1, <1>5, <3>1 DEF Settled, Stored
      <3>4. \A s \in Secret : Stored(store, s) => Stored(store, s)'
        BY <1>5 DEF Stored
      <3> QED BY <1>1, <1>6, <1>7, <1>9, <2>2, <3>1, <3>2, <3>3, <3>4,
                 BooksTypes, SettledKept
    <2> QED BY <2>1, <2>2
  <1>11. OutputsApart'
    BY <1>7, <1>8 DEF BooksInv, OutputsApart, Listed
  <1>12. PaymentsLeave'
    BY <1>5 DEF BooksInv, PaymentsLeave, Stored
  <1>13. BehindByOneCall'
    <2> SUFFICES ASSUME NEW s \in Derived
                 PROVE  /\ store.row[s] = "unspent" /\ srv[s] = "spent" =>
                             \E u \in Task : /\ task'[u].pc \in Replaced
                                             /\ s \in Listed(task'[u].ins)
                        /\ srv[s] = "unspent" /\ store.row[s] # "unspent" =>
                             \/ s \in paid
                             \/ \E u \in Task : /\ task'[u].pc \in Unrecorded
                                                /\ s \in Listed(task'[u].new)
      <3>1. store'.row = store.row /\ srv' = srv /\ paid' = paid
        BY <1>1, <1>5
      <3> QED BY <3>1 DEF BehindByOneCall, Listed
    <2>1. store.row[s] = "unspent" => s \notin Listed(task[t].ins)
      <3>1. Listed(task[t].ins) \subseteq Foreign \cup paid
        BY <1>2, BooksTypes DEF Settled
      <3>2. \A r \in paid : ~Stored(store, r)
        BY BooksTypes DEF BooksInv, PaymentsLeave
      <3> QED BY <3>1, <3>2, ForeignAssumption DEF Stored
    <2>2. task[t].pc \notin Unrecorded
      BY <1>1 DEF Unrecorded
    <2> QED BY <1>7, <2>1, <2>2 DEF BooksInv, BehindByOneCall
  <1>14. UsedByOneCall'
    <2> SUFFICES ASSUME NEW c \in Chain, NEW d \in Depth, Known(<<c, d>>),
                        store'.depth[c] <= d
                 PROVE  \E u \in Task : /\ task'[u].pc \in Replaced
                                        /\ <<c, d>> \in Listed(task'[u].new)
      BY <1>1 DEF UsedByOneCall, Listed, Known
    <2>1. d \in Nat
      BY MaxDepthAssumption DEF Depth
    <2>2. store.depth[c] <= d
      BY <1>4, <1>5, <2>1
    <2>3. PICK u \in Task : /\ task[u].pc \in Replaced
                            /\ <<c, d>> \in Listed(task[u].new)
      BY <2>2 DEF BooksInv, UsedByOneCall
    <2>4. <<c, d>> # q
      BY <1>4, <1>5, <2>1
    <2>5. u # t
      BY <2>3, <2>4, <1>3
    <2> QED BY <2>3, <2>5, <1>7
  <1> QED BY <1>1, <1>6, <1>10, <1>11, <1>12, <1>13, <1>14 DEF BooksInv

LEMMA BooksInsertDirect ==
  ASSUME BooksInv, RowsInv', NEW t \in Task, InsertDirect(t)
  PROVE  BooksInv' /\ \A c \in Chain : store.depth[c] <= store'.depth[c]
  <1>1. /\ task[t].pc = "insert_direct" /\ task[t].pc \notin Replaced
        /\ task' = [task EXCEPT ![t] = Idle]
        /\ UNCHANGED <<srv, worth, late, paid>>
    BY DEF InsertDirect, Finish, Replaced
  <1>2. PICK f \in Listed(task[t].ins) : store_directly(f, task[t].ins[f])
    BY DEF InsertDirect
  <1>3. f \in Foreign
    BY <1>1, BooksTypes DEF Settled, Fallback
  <1>4. \A s \in Derived : s \in Secret /\ s # f
    BY <1>3, ForeignAssumption DEF Secret
  <1>5. /\ store'.depth = store.depth
        /\ \A s \in Secret : s # f => store'.row[s] = store.row[s]
        /\ Stored(store, f) => Stored(store', f)
    <2>1. CASE CanInsert(store, f)
      BY <1>2, <2>1, BooksTypes DEF store_directly, insert_output, Store, CanInsert
    <2>2. CASE ~CanInsert(store, f)
      BY <1>2, <2>2 DEF store_directly
    <2> QED BY <2>1, <2>2
  <1>6. \A s \in Derived : store'.row[s] = store.row[s]
    BY <1>4, <1>5
  <1>7. task'[t] = Idle /\ \A u \in Task : u # t => task'[u] = task[u]
    BY <1>1, BooksTypes
  <1>8. \A u \in Task : task[u].pc \in Replaced => task'[u] = task[u]
    BY <1>1, <1>7
  <1>9. \A u \in Task : task'[u].pc \in Replaced => task'[u] = task[u]
    BY <1>7 DEF Idle, Replaced
  <1>10. store' \in Store
    BY DEF RowsInv, CoverInv, TypeOK
  <1>11. CallsSettled'
    <2> SUFFICES ASSUME NEW u \in Task PROVE Settled(task[u])'
      BY DEF CallsSettled
    <2>1. CASE u = t
      <3>1. Settled(Idle)'
        BY <1>10, IdleBooked
      <3> QED BY <3>1, <1>7, <2>1 DEF Settled
    <2>2. CASE u # t
      <3>1. Settled(task[u]) /\ Covered(task[u]) /\ task[u] \in Locals
        BY BooksTypes
      <3>2. \A s \in Listed(task[u].new) :
              task[u].pc \in Replaced => store'.depth[s[1]] <= s[2]
        BY <1>5, <3>1 DEF Settled
      <3>3. \A s \in Listed(task[u].new) : task[u].pc \in Unrecorded =>
              ~Stored(store, s)' /\ s \notin paid' /\ srv'[s] = "unspent"
        <4> SUFFICES ASSUME NEW s \in Listed(task[u].new),
                            task[u].pc \in Unrecorded
                     PROVE  ~Stored(store, s)' /\ s \notin paid'
                            /\ srv'[s] = "unspent"
          OBVIOUS
        <4>1. ~Stored(store, s) /\ s \notin paid /\ srv[s] = "unspent"
          BY <3>1 DEF Settled
        <4>2. s \in Derived
          BY OutputAt DEF Unrecorded
        <4> QED BY <4>1, <4>2, <1>1, <1>6 DEF Stored
      <3>4. \A s \in Secret : Stored(store, s) => Stored(store, s)'
        BY <1>5 DEF Stored
      <3>5. \A c \in Chain : store.depth[c] <= store'.depth[c]
        BY <1>5, BooksTypes DEF Store
      <3> QED BY <1>1, <1>7, <1>10, <2>2, <3>1, <3>2, <3>3, <3>4, <3>5,
                 BooksTypes, SettledKept
    <2> QED BY <2>1, <2>2
  <1>12. OutputsApart'
    BY <1>9 DEF BooksInv, OutputsApart, Listed
  <1>13. PaymentsLeave'
    BY <1>6 DEF BooksInv, PaymentsLeave, Stored, Derived, Chain
  <1>14. BehindByOneCall'
    BY <1>1, <1>6, <1>8 DEF BooksInv, BehindByOneCall, Listed, Unrecorded
  <1>15. UsedByOneCall'
    BY <1>1, <1>5, <1>8 DEF BooksInv, UsedByOneCall, Listed, Known
  <1>16. \A c \in Chain : store.depth[c] <= store'.depth[c]
    BY <1>5, BooksTypes DEF Store
  <1> QED BY <1>1, <1>11, <1>12, <1>13, <1>14, <1>15, <1>16 DEF BooksInv
----------------------------------------------------------------------------
\* The transaction of pay and merge: the rows of its inputs are marked, what it
\* keeps has a row, what it does not keep is handed out.
LEMMA BooksCommit ==
  ASSUME BooksInv, RowsInv', NEW t \in Task, PayCommit(t) \/ MergeCommit(t)
  PROVE  /\ BooksInv' /\ \A c \in Chain : store.depth[c] <= store'.depth[c]
         /\ \A s \in paid' \ paid : srv[s] = "unspent"
  <1>1. /\ task[t].pc \in {"pay_replaced", "merge_replaced"}
        /\ task[t].pc \in Unrecorded /\ task[t].pc \in Replaced
        /\ task' = [task EXCEPT ![t] = Idle]
        /\ UNCHANGED <<srv, worth, late>>
    BY DEF PayCommit, MergeCommit, Commit, Finish, Unrecorded, Replaced
  <1>2. \A s \in Listed(task[t].new) :
          ~Stored(store, s) /\ s \notin paid /\ srv[s] = "unspent"
    BY <1>1, BooksTypes DEF Settled
  <1>3. \A s \in Kept(t) : CanInsert(store, s) /\ s \in Listed(task[t].new)
    BY <1>2 DEF Kept, CanInsert
  <1>4. store' = Recorded(t)
    BY <1>3 DEF PayCommit, MergeCommit, Commit
  <1>5. paid' = paid \cup (Listed(task[t].new) \ Kept(t))
    <2>1. CASE PayCommit(t)
      BY <1>3, <2>1 DEF PayCommit
    <2>2. CASE MergeCommit(t)
      <3>1. Listed(task[t].new) \subseteq Kept(t)
        BY <2>2, BooksTypes DEF MergeCommit, Settled, Kept
      <3> QED BY <2>2, <3>1 DEF MergeCommit
    <2> QED BY <2>1, <2>2
  <1>6. \A s \in Secret : store'.row[s] =
          IF s \in Kept(t) THEN "unspent"
          ELSE IF s \in Listed(task[t].ins) /\ Stored(store, s) THEN "spent"
          ELSE store.row[s]
    BY <1>4, BooksTypes DEF Recorded, RowsWith, mark_spent, Store
  <1>7. \A c \in Chain : store'.depth[c] =
          IF \E s \in Listed(task[t].new) : s[1] = c
          THEN task[t].read[c] + 1 ELSE store.depth[c]
    BY <1>4, BooksTypes DEF Recorded, DepthsPast, mark_spent, Store
  <1>8. \A s \in Listed(task[t].new) :
          /\ s[1] \in Chain /\ s \in Secret /\ s = <<s[1], s[2]>>
          /\ s[2] = task[t].read[s[1]]
          /\ s[2] = store.depth[s[1]] /\ s[2] \in Nat
    BY <1>1, OutputAt, ReplacedAt
  <1>9. \A c \in Chain : store.depth[c] \in Nat
    BY BooksTypes DEF Store
  <1>10. \A c \in Chain : store.depth[c] <= store'.depth[c]
    BY <1>7, <1>8, <1>9
  <1>11. task'[t] = Idle /\ \A u \in Task : u # t => task'[u] = task[u]
    BY <1>1, BooksTypes
  <1>12. Idle.pc \notin Replaced /\ Idle.pc \notin Unrecorded
    BY DEF Idle, Replaced, Unrecorded
  <1>13. store' \in Store
    BY DEF RowsInv, CoverInv, TypeOK
  <1>14. CallsSettled'
    <2> SUFFICES ASSUME NEW u \in Task PROVE Settled(task[u])'
      BY DEF CallsSettled
    <2>1. CASE u = t
      <3>1. Settled(Idle)'
        BY <1>13, IdleBooked
      <3> QED BY <3>1, <1>11, <2>1 DEF Settled
    <2>2. CASE u # t
      <3>1. Settled(task[u]) /\ Covered(task[u]) /\ task[u] \in Locals
        BY BooksTypes
      <3>2. \A s \in Listed(task[u].new) :
              task[u].pc \in Replaced => store'.depth[s[1]] <= s[2]
        <4> SUFFICES ASSUME NEW s \in Listed(task[u].new),
                            task[u].pc \in Replaced
                     PROVE  store'.depth[s[1]] <= s[2]
          OBVIOUS
        <4>1. \A r \in Listed(task[t].new) : r[1] # s[1]
          BY <1>1, <2>2, OneCallPerChain
        <4>2. s[1] \in Chain /\ store.depth[s[1]] <= s[2]
          BY <3>1, OutputAt DEF Settled
        <4> QED BY <4>1, <4>2, <1>7
      <3>3. \A s \in Listed(task[u].new) : task[u].pc \in Unrecorded =>
              ~Stored(store, s)' /\ s \notin paid' /\ srv'[s] = "unspent"
        <4> SUFFICES ASSUME NEW s \in Listed(task[u].new),
                            task[u].pc \in Unrecorded
                     PROVE  ~Stored(store, s)' /\ s \notin paid'
                            /\ srv'[s] = "unspent"
          OBVIOUS
        <4>1. ~Stored(store, s) /\ s \notin paid /\ srv[s] = "unspent"
          BY <3>1 DEF Settled
        <4>2. s \notin Listed(task[t].new) /\ s \in Secret
          BY <1>1, <2>2 DEF BooksInv, OutputsApart, Unrecorded, Listed
        <4>3. store'.row[s] = store.row[s]
          BY <1>3, <1>6, <4>1, <4>2
        <4> QED BY <4>1, <4>2, <4>3, <1>1, <1>5 DEF Stored
      <3>4. \A s \in Secret : Stored(store, s) => Stored(store, s)'
        BY <1>6 DEF Stored
      <3> QED BY <1>5, <1>10, <1>11, <1>13, <2>2, <3>1, <3>2, <3>3, <3>4,
                 BooksTypes, SettledKept
    <2> QED BY <2>1, <2>2
  <1>15. OutputsApart'
    BY <1>11, <1>12 DEF BooksInv, OutputsApart, Listed
  <1>16. PaymentsLeave'
    <2> SUFFICES ASSUME NEW d \in Depth PROVE store'.row[<<"PAY", d>>] = "none"
      BY DEF PaymentsLeave, Stored
    <2>1. <<"PAY", d>> \in Secret /\ <<"PAY", d>> \notin Kept(t)
      BY DerivedSecret DEF Chain, Kept
    <2>2. store.row[<<"PAY", d>>] = "none"
      BY DEF BooksInv, PaymentsLeave, Stored
    <2> QED BY <2>1, <2>2, <1>6 DEF Stored
  <1>17. BehindByOneCall'
    <2> SUFFICES ASSUME NEW s \in Derived
                 PROVE  /\ store'.row[s] = "unspent" /\ srv[s] = "spent" =>
                             \E u \in Task : /\ task'[u].pc \in Replaced
                                             /\ s \in Listed(task'[u].ins)
                        /\ srv[s] = "unspent" /\ store'.row[s] # "unspent" =>
                             \/ s \in paid'
                             \/ \E u \in Task : /\ task'[u].pc \in Unrecorded
                                                /\ s \in Listed(task'[u].new)
      BY <1>1 DEF BehindByOneCall, Listed
    <2>1. s \in Secret
      BY DEF Secret
    <2>2. s \in Listed(task[t].ins) => srv[s] = "spent"
      BY <1>1, BooksTypes DEF CallBacked
    <2>3. ASSUME store'.row[s] = "unspent", srv[s] = "spent"
          PROVE  \E u \in Task : /\ task'[u].pc \in Replaced
                                 /\ s \in Listed(task'[u].ins)
      <3>1. s \notin Kept(t)
        BY <1>2, <1>3, <2>3
      <3>2. store.row[s] = "unspent" /\ s \notin Listed(task[t].ins)
        BY <1>6, <2>1, <2>3, <3>1 DEF Stored
      <3>3. PICK u \in Task : /\ task[u].pc \in Replaced
                              /\ s \in Listed(task[u].ins)
        BY <2>3, <3>2 DEF BooksInv, BehindByOneCall
      <3> QED BY <3>2, <3>3, <1>11
    <2>4. ASSUME srv[s] = "unspent", store'.row[s] # "unspent", s \notin paid'
          PROVE  \E u \in Task : /\ task'[u].pc \in Unrecorded
                                 /\ s \in Listed(task'[u].new)
      <3>1. s \notin Kept(t) /\ s \notin Listed(task[t].ins)
        BY <1>6, <2>1, <2>2, <2>4
      <3>2. store.row[s] # "unspent" /\ s \notin paid
        BY <1>5, <1>6, <2>1, <2>4, <3>1
      <3>3. PICK u \in Task : /\ task[u].pc \in Unrecorded
                              /\ s \in Listed(task[u].new)
        BY <2>4, <3>2 DEF BooksInv, BehindByOneCall
      <3>4. u # t
        BY <1>5, <2>4, <3>1, <3>3
      <3> QED BY <3>3, <3>4, <1>11
    <2> QED BY <2>3, <2>4
  <1>18. UsedByOneCall'
    <2> SUFFICES ASSUME NEW c \in Chain, NEW d \in Depth, Known(<<c, d>>),
                        store'.depth[c] <= d
                 PROVE  \E u \in Task : /\ task'[u].pc \in Replaced
                                        /\ <<c, d>> \in Listed(task'[u].new)
      BY <1>1 DEF UsedByOneCall, Listed, Known
    <2>1. d \in Nat
      BY MaxDepthAssumption DEF Depth
    <2>2. store.depth[c] <= d /\ store'.depth[c] \in Nat
      BY <1>9, <1>10, <1>13, <2>1 DEF Store
    <2>3. PICK u \in Task : /\ task[u].pc \in Replaced
                            /\ <<c, d>> \in Listed(task[u].new)
      BY <2>2 DEF BooksInv, UsedByOneCall
    <2>4. <<c, d>> \notin Listed(task[t].new)
      <3> SUFFICES ASSUME <<c, d>> \in Listed(task[t].new) PROVE FALSE
        OBVIOUS
      <3>1. d = task[t].read[c]
        BY <1>8
      <3>2. store'.depth[c] = d + 1
        BY <1>7, <3>1
      <3> QED BY <2>1, <3>2
    <2> QED BY <2>3, <2>4, <1>11
  <1>19. \A s \in paid' \ paid : srv[s] = "unspent"
    BY <1>2, <1>5
  <1> QED BY <1>1, <1>10, <1>14, <1>15, <1>16, <1>17, <1>18, <1>19 DEF BooksInv

----------------------------------------------------------------------------
\* The invariant, and what a step does to depths and payments on the way.
LEMMA BooksStep ==
  ASSUME Undisturbed, BooksInv, RowsInv', [Next]_vars
  PROVE  /\ BooksInv'
         /\ \A c \in Chain : store'.depth[c] >= store.depth[c]
         /\ \A s \in paid' \ paid : srv[s] = "unspent"
  <1> DEFINE Onward == /\ \A c \in Chain : store'.depth[c] >= store.depth[c]
                       /\ \A s \in paid' \ paid : srv[s] = "unspent"
  <1>1. UNCHANGED <<store, paid>> => Onward
    BY BooksTypes DEF Store
  <1>2. \A c \in Chain : store.depth[c] \in Nat /\ store'.depth[c] \in Nat
    BY BooksTypes DEF Store, RowsInv, CoverInv, TypeOK
  <1>3. CASE UNCHANGED vars
    <2>1. /\ UNCHANGED <<srv, store, task, late, paid>>
      BY <1>3 DEF vars
    <2>2. CallsSettled'
      BY <2>1 DEF BooksInv, CallsSettled, Settled, Listed, Stored
    <2>3. OutputsApart' /\ PaymentsLeave'
      BY <2>1 DEF BooksInv, OutputsApart, PaymentsLeave, Listed, Stored
    <2>4. BehindByOneCall' /\ UsedByOneCall'
      BY <2>1 DEF BooksInv, BehindByOneCall, UsedByOneCall, Listed, Known
    <2> QED BY <1>1, <2>1, <2>2, <2>3, <2>4 DEF BooksInv
  <1>4. ASSUME NEW t \in Task, Call(t) PROVE BooksInv' /\ Onward
    <2>1. UNCHANGED <<store, paid>> /\ ~RecoverBegin(t)
      BY <1>4 DEF Call, InsertBegin, PayBegin, MergeBegin, RecoverBegin, Begin,
                  Undisturbed
    <2> HIDE DEF Onward
    <2>2. Onward
      BY <1>1, <2>1
    <2> QED BY <1>4, <2>1, <2>2, BooksInsertBegin, BooksPayBegin, BooksMergeBegin
        DEF Call
  <1>5. ASSUME NEW t \in Task, Advance(t) PROVE BooksInv' /\ Onward
    <2>1. CASE InsertSetDepth(t) \/ InsertDirect(t)
      <3>1. paid' = paid
        BY <2>1 DEF InsertSetDepth, InsertDirect
      <3> QED BY <1>2, <2>1, <3>1, BooksInsertSetDepth, BooksInsertDirect
    <2>2. CASE PayCommit(t) \/ MergeCommit(t)
      BY <1>2, <2>2, BooksCommit
    <2>3. CASE InsertStore(t)
      <3>1. /\ paid' = paid
            /\ \A c \in Chain : store'.depth[c] = store.depth[c]
        BY <2>3, BooksTypes DEF InsertStore, insert_output, Store
      <3> QED BY <1>2, <2>3, <3>1, BooksInsertStore
    <2> HIDE DEF Onward
    <2>4. CASE ServerReplaces(t) \/ ServerRefuses(t)
      <3>1. Onward
        BY <1>1, <2>4 DEF ServerReplaces, ServerRefuses
      <3> QED BY <2>4, <3>1, BooksServerReplaces, BooksServerRefuses
    <2>5. CASE InsertValidate(t) \/ InsertFallback(t)
      <3>1. Onward
        BY <1>1, <2>5 DEF InsertValidate, InsertFallback
      <3> QED BY <2>5, <3>1, BooksInsertValidate, BooksInsertFallback
    <2>6. CASE PaySend(t) \/ MergeSend(t)
      <3>1. Onward
        BY <1>1, <2>6 DEF PaySend, MergeSend, Send
      <3> QED BY <2>6, <3>1, BooksPaySend, BooksMergeSend
    <2>7. CASE PastBounds(t)
      <3>1. /\ UNCHANGED <<srv, worth, store, late, paid>> /\ Finish(t)
            /\ task[t].pc \notin Replaced
        BY <2>7 DEF PastBounds, Replaced
      <3> QED BY <1>1, <3>1, BooksFinish
    <2>8. CASE \/ RecoverScan(t) \/ RecoverStore(t) \/ RecoverStored(t)
               \/ RecoverReadDepth(t) \/ RecoverSetDepth(t)
      <3>1. task[t].pc \in Recovering
        BY <2>8 DEF RecoverScan, RecoverStore, RecoverStored, RecoverReadDepth,
                    RecoverSetDepth, Recovering
      <3> QED BY <3>1, BooksTypes DEF Settled
    <2> QED BY <1>5, <2>1, <2>2, <2>3, <2>4, <2>5, <2>6, <2>7, <2>8 DEF Advance
  <1>6. ASSUME NEW s \in Foreign \cup paid, OthersSpend(s) PROVE BooksInv' /\ Onward
    BY <1>1, <1>6, BooksOthersSpend DEF OthersSpend
  <1>7. ~Crash /\ \A t \in Task : ~GiveUp(t)
    BY DEF Crash, GiveUp, Undisturbed
  <1>8. \A req \in late : FALSE
    BY DEF BooksInv
  <1> QED BY <1>3, <1>4, <1>5, <1>6, <1>7, <1>8 DEF Next, Progress

\* In a wallet whose replies arrive and that recovers nothing, BooksInv holds in
\* every reachable state, whatever calls run at once: an output the server has
\* made belongs to one call, which nobody else's payment or row can be about.
THEOREM BooksAlways ==
  ASSUME Undisturbed
  PROVE  Spec => []BooksInv
  <1>1. RowsInv /\ RowsInv' /\ BooksInv /\ [Next]_vars => BooksInv'
    BY BooksStep
  <1> QED BY <1>1, BooksInit, RowsAlways, PTL DEF Spec

\* There, the store and the server disagree about a secret of the wallet only
\* while the call that changes it is on its way back, and a payment handed out is
\* the only money the store has no row for.
THEOREM BooksAgreeAlways ==
  ASSUME Undisturbed
  PROVE  Spec => []BooksAgree
  <1>1. BooksInv => BooksAgree
    BY DEF BooksInv, BehindByOneCall, BooksAgree, InFlight, Unrecorded
  <1> QED BY <1>1, BooksAlways, PTL

\* There, the next secret of a chain is one the server has not seen, but for the
\* call that has just used it: no call ever leaves a chain the server refuses.
THEOREM NextSecretFreshAlways ==
  ASSUME Undisturbed
  PROVE  Spec => []NextSecretFresh
  <1>1. BooksInv => NextSecretFresh
    <2> SUFFICES ASSUME BooksInv, NEW c \in Chain, Used(c, store.depth[c])
                 PROVE  InFlight(<<c, store.depth[c]>>)
      BY DEF NextSecretFresh
    <2>1. store.depth[c] \in Depth /\ store.depth[c] <= store.depth[c]
      BY MaxDepthAssumption DEF Used, Derived, Depth
    <2> QED BY <2>1 DEF BooksInv, UsedByOneCall, InFlight, Used
  <1> QED BY <1>1, BooksAlways, PTL

\* There, what pay returns is unspent on the server at that moment.
THEOREM PaymentIsLiveAlways ==
  ASSUME Undisturbed
  PROVE  Spec => PaymentIsLive
  <1>1. RowsInv' /\ BooksInv /\ [Next]_vars =>
          [\A s \in paid' \ paid : srv[s] = "unspent"]_vars
    BY BooksStep
  <1> QED BY <1>1, BooksAlways, RowsAlways, PTL DEF Spec, PaymentIsLive

\* There, no step takes a recorded depth back, though pay writes the depth it has
\* read before its request.
THEOREM DepthsAlways ==
  ASSUME Undisturbed
  PROVE  Spec => DepthsNeverRegress
  <1>1. RowsInv' /\ BooksInv /\ [Next]_vars =>
          [\A c \in Chain : store'.depth[c] >= store.depth[c]]_vars
    BY BooksStep
  <1> QED BY <1>1, BooksAlways, RowsAlways, PTL DEF Spec, DepthsNeverRegress

----------------------------------------------------------------------------
(* Sums over finite sets: what fails of a part of one fails of a smallest  *)
(* part first                                                              *)

\* A set of naturals that is not empty has a least element.
LEMMA LeastExists ==
  ASSUME NEW S \in SUBSET Nat, S # {}
  PROVE  \E n \in S : \A m \in S : n <= m
<1>1. IsWellFoundedOn(OpToRel(<, Nat), Nat)
  BY NatLessThanWellFounded
<1>2. \E n \in S : \A m \in S : ~ (<<m, n>> \in OpToRel(<, Nat))
  BY <1>1, WFMin
<1>3. \A m, n \in Nat : <<m, n>> \in OpToRel(<, Nat) <=> m < n
  BY DEF OpToRel
<1>4. PICK n \in S : \A m \in S : ~ (<<m, n>> \in OpToRel(<, Nat))
  BY <1>2
<1>5. \A m \in S : n <= m
  <2> TAKE m \in S
  <2>1. m \in Nat /\ n \in Nat /\ ~ (m < n)
    BY <1>3, <1>4
  <2> QED
    BY <2>1
<1> QED
  BY <1>5

\* The element a sum takes first, and what is left.
First(s) == CHOOSE x \in s : TRUE

Rest(s) == s \ {First(s)}

\* g has the sums of f over the subsets of T.
Sums(f, T, g) ==
    g = [s \in SUBSET T |-> IF s = {} THEN 0 ELSE f[First(s)] + g[Rest(s)]]

LEMMA SumIsSums ==
  ASSUME NEW f, NEW S
  PROVE  SumFunctionOnSet(f, S) = (CHOOSE g : Sums(f, S, g))[S]
  BY DEF SumFunctionOnSet, FoldFunctionOnSet, MapThenFoldSet, Sums, First, Rest

\* A family of finite sets that is not empty has a smallest one.
LEMMA SmallestExists ==
  ASSUME NEW F, F # {}, \A s \in F : IsFiniteSet(s)
  PROVE  \E s \in F : \A r \in F : Cardinality(s) <= Cardinality(r)
<1> DEFINE N == {Cardinality(s) : s \in F}
<1>1. N \in SUBSET Nat /\ N # {}
  BY FS_CardinalityType
<1> HIDE DEF N
<1>2. PICK n \in N : \A m \in N : n <= m
  BY <1>1, LeastExists
<1> QED
  BY <1>2 DEF N

LEMMA RestSmaller ==
  ASSUME NEW s, IsFiniteSet(s), s # {}
  PROVE  /\ First(s) \in s
         /\ Rest(s) \subseteq s /\ IsFiniteSet(Rest(s))
         /\ Cardinality(Rest(s)) < Cardinality(s)
<1>1. First(s) \in s
  BY DEF First
<1>2. IsFiniteSet(s \ {First(s)}) /\ Cardinality(s \ {First(s)}) = Cardinality(s) - 1
  BY <1>1, FS_RemoveElement
<1>3. Cardinality(s) \in Nat
  BY FS_CardinalityType
<1> QED
  BY <1>1, <1>2, <1>3 DEF Rest

\* A sum of a part does not depend on the whole.
LEMMA SumsAgree ==
  ASSUME NEW f, NEW S, NEW T, NEW g, NEW h, Sums(f, S, g), Sums(f, T, h),
         NEW s, IsFiniteSet(s), s \subseteq S, s \subseteq T
  PROVE  g[s] = h[s]
<1> DEFINE Bad == {r \in SUBSET s : g[r] # h[r]}
<1> SUFFICES ASSUME Bad # {} PROVE FALSE
  OBVIOUS
<1>1. \A r \in Bad : IsFiniteSet(r)
  BY FS_Subset
<1>2. PICK r \in Bad : \A q \in Bad : Cardinality(r) <= Cardinality(q)
  BY <1>1, SmallestExists
<1>3. r \in SUBSET S /\ r \in SUBSET T /\ g[r] # h[r]
  OBVIOUS
<1>4. /\ g[r] = IF r = {} THEN 0 ELSE f[First(r)] + g[Rest(r)]
      /\ h[r] = IF r = {} THEN 0 ELSE f[First(r)] + h[Rest(r)]
  BY <1>3 DEF Sums
<1>5. r # {} /\ g[Rest(r)] # h[Rest(r)]
  BY <1>3, <1>4
<1>6. Rest(r) \subseteq r /\ Cardinality(Rest(r)) < Cardinality(r) /\ IsFiniteSet(Rest(r))
  BY <1>1, <1>5, RestSmaller
<1>7. Rest(r) \in Bad
  BY <1>5, <1>6
<1>8. Cardinality(Rest(r)) \in Nat /\ Cardinality(r) \in Nat
  BY <1>1, <1>6, FS_CardinalityType
<1> QED
  BY <1>2, <1>6, <1>7, <1>8

\* There are sums over the subsets of a finite set.
LEMMA SumsExist ==
  ASSUME NEW f, NEW S, IsFiniteSet(S)
  PROVE  \E g : Sums(f, S, g)
<1> DEFINE Has(T) == \E g : Sums(f, T, g)
           Of(T) == CHOOSE g : Sums(f, T, g)
           Bad == {T \in SUBSET S : ~Has(T)}
<1> SUFFICES ASSUME Bad # {} PROVE FALSE
  OBVIOUS
<1>1. \A T \in Bad : IsFiniteSet(T)
  BY FS_Subset
<1>2. PICK T \in Bad : \A q \in Bad : Cardinality(T) <= Cardinality(q)
  <2> HIDE DEF Has
  <2> QED BY <1>1, SmallestExists
<1>3. IsFiniteSet(T) /\ T \subseteq S /\ ~Has(T)
  BY <1>1
<1>4. \A r \in SUBSET T : r # T => IsFiniteSet(r) /\ Sums(f, r, Of(r))
  <2> TAKE r \in SUBSET T
  <2> HAVE r # T
  <2>1. /\ IsFiniteSet(r) /\ Cardinality(r) <= Cardinality(T)
        /\ Cardinality(r) # Cardinality(T)
    BY <1>3, FS_Subset
  <2>2. Cardinality(r) \in Nat /\ Cardinality(T) \in Nat
    BY <1>3, <2>1, FS_CardinalityType
  <2>3. r \notin Bad
    <3> HIDE DEF Bad
    <3> QED BY <1>2, <2>1, <2>2
  <2>4. Has(r)
    BY <1>3, <2>3
  <2> QED BY <2>1, <2>4
<1> DEFINE part(s) == IF s = {} THEN 0 ELSE f[First(s)] + Of(Rest(s))[Rest(s)]
           g == [s \in SUBSET T |-> part(s)]
<1> HIDE DEF Of, Bad
<1>5. \A s \in SUBSET T : s # {} => /\ Rest(s) \in SUBSET T /\ Rest(s) # T
                                    /\ IsFiniteSet(s) /\ Rest(s) \subseteq s
                                    /\ First(s) \in s
  BY <1>3, FS_Subset, RestSmaller DEF Rest
<1>6. \A s \in SUBSET T : s # T => Of(s)[s] = part(s)
  <2> TAKE s \in SUBSET T
  <2> HAVE s # T
  <2>1. Sums(f, s, Of(s)) /\ s \in SUBSET s
    BY <1>4
  <2>2. Of(s)[s] = IF s = {} THEN 0 ELSE f[First(s)] + Of(s)[Rest(s)]
    BY <2>1 DEF Sums
  <2>3. CASE s = {}
    BY <2>2, <2>3
  <2>4. CASE s # {}
    <3>1. Sums(f, Rest(s), Of(Rest(s))) /\ IsFiniteSet(Rest(s))
      BY <1>4, <1>5, <2>4
    <3>2. Of(s)[Rest(s)] = Of(Rest(s))[Rest(s)]
      BY <1>5, <2>1, <2>4, <3>1, SumsAgree
    <3> QED BY <2>2, <2>4, <3>2
  <2> QED BY <2>3, <2>4
<1>7. Sums(f, T, g)
  <2>1. \A s \in SUBSET T : s # {} => g[Rest(s)] = Of(Rest(s))[Rest(s)]
    BY <1>5, <1>6
  <2> QED BY <2>1 DEF Sums
<1> QED BY <1>3, <1>7

\* A sum over nothing, and over something.
LEMMA SumEmpty ==
  ASSUME NEW f
  PROVE  SumFunctionOnSet(f, {}) = 0
<1>1. Sums(f, {}, CHOOSE g : Sums(f, {}, g))
  BY SumsExist, FS_EmptySet
<1> QED BY <1>1, SumIsSums DEF Sums

LEMMA SumFirst ==
  ASSUME NEW f, NEW S, IsFiniteSet(S), S # {}
  PROVE  SumFunctionOnSet(f, S) = f[First(S)] + SumFunctionOnSet(f, Rest(S))
<1> DEFINE Of(T) == CHOOSE g : Sums(f, T, g)
<1>1. IsFiniteSet(Rest(S)) /\ Rest(S) \subseteq S
  BY RestSmaller
<1>2. Sums(f, S, Of(S)) /\ Sums(f, Rest(S), Of(Rest(S)))
  BY <1>1, SumsExist
<1>3. SumFunctionOnSet(f, S) = Of(S)[S]
      /\ SumFunctionOnSet(f, Rest(S)) = Of(Rest(S))[Rest(S)]
  BY SumIsSums
<1> HIDE DEF Of
<1>4. Of(S)[S] = f[First(S)] + Of(S)[Rest(S)]
  BY <1>2 DEF Sums
<1>5. Of(S)[Rest(S)] = Of(Rest(S))[Rest(S)]
  BY <1>1, <1>2, SumsAgree
<1> QED BY <1>3, <1>4, <1>5

\* A finite set with something wrong about a part of it has a smallest such
\* part, and nothing is wrong with what that part leaves out.
LEMMA SmallestPart ==
  ASSUME NEW S, IsFiniteSet(S), NEW Bad \in SUBSET SUBSET S, Bad # {}
  PROVE  \E T \in Bad : /\ IsFiniteSet(T) /\ T \subseteq S
                        /\ \A x \in T : T \ {x} \notin Bad
<1>1. \A T \in Bad : IsFiniteSet(T)
  BY FS_Subset
<1>2. PICK T \in Bad : \A r \in Bad : Cardinality(T) <= Cardinality(r)
  BY <1>1, SmallestExists
<1>3. ASSUME NEW x \in T PROVE T \ {x} \notin Bad
  <2>1. IsFiniteSet(T \ {x}) /\ Cardinality(T \ {x}) = Cardinality(T) - 1
    BY <1>1, <1>3, FS_RemoveElement
  <2>2. Cardinality(T) \in Nat
    BY <1>1, FS_CardinalityType
  <2> QED BY <1>2, <2>1, <2>2
<1> QED BY <1>1, <1>2, <1>3

LEMMA SumNat ==
  ASSUME NEW f, NEW S, IsFiniteSet(S), \A x \in S : f[x] \in Nat
  PROVE  SumFunctionOnSet(f, S) \in Nat
<1> DEFINE Bad == {T \in SUBSET S : SumFunctionOnSet(f, T) \notin Nat}
<1> SUFFICES ASSUME Bad # {} PROVE FALSE
  OBVIOUS
<1>1. PICK T \in Bad : /\ IsFiniteSet(T) /\ T \subseteq S
                       /\ \A x \in T : T \ {x} \notin Bad
  BY SmallestPart
<1>2. T # {}
  BY SumEmpty
<1>3. SumFunctionOnSet(f, T) = f[First(T)] + SumFunctionOnSet(f, Rest(T))
  BY <1>1, <1>2, SumFirst
<1>4. First(T) \in T
  BY <1>2 DEF First
<1>5. SumFunctionOnSet(f, Rest(T)) \in Nat
  BY <1>1, <1>4 DEF Rest
<1> QED BY <1>1, <1>3, <1>4, <1>5

\* Any element can be taken first.
LEMMA SumTake ==
  ASSUME NEW f, NEW S, IsFiniteSet(S), \A x \in S : f[x] \in Nat, NEW y \in S
  PROVE  SumFunctionOnSet(f, S) = f[y] + SumFunctionOnSet(f, S \ {y})
<1> DEFINE Fine(T) == \A x \in T : SumFunctionOnSet(f, T) =
                                     f[x] + SumFunctionOnSet(f, T \ {x})
           Bad == {T \in SUBSET S : ~Fine(T)}
<1> SUFFICES ASSUME Bad # {} PROVE FALSE
  OBVIOUS
<1>1. PICK T \in Bad : /\ IsFiniteSet(T) /\ T \subseteq S
                       /\ \A x \in T : T \ {x} \notin Bad
  <2> HIDE DEF Fine
  <2> QED BY SmallestPart
<1>2. PICK x \in T : SumFunctionOnSet(f, T) # f[x] + SumFunctionOnSet(f, T \ {x})
  OBVIOUS
<1> DEFINE a == First(T)
<1>3. a \in T
  BY DEF First
<1>4. SumFunctionOnSet(f, T) = f[a] + SumFunctionOnSet(f, T \ {a})
  BY <1>1, SumFirst DEF Rest
<1> HIDE DEF a
<1>5. x # a
  BY <1>2, <1>4
<1>6. Fine(T \ {a}) /\ Fine(T \ {x})
  <2> HIDE DEF Fine
  <2> QED BY <1>1, <1>3
<1>7. SumFunctionOnSet(f, T \ {a}) = f[x] + SumFunctionOnSet(f, (T \ {a}) \ {x})
  BY <1>5, <1>6
<1>8. SumFunctionOnSet(f, T \ {x}) = f[a] + SumFunctionOnSet(f, (T \ {x}) \ {a})
  BY <1>3, <1>5, <1>6
<1>9. (T \ {a}) \ {x} = (T \ {x}) \ {a}
  OBVIOUS
<1>10. SumFunctionOnSet(f, (T \ {x}) \ {a}) \in Nat
  BY <1>1, FS_Subset, SumNat
<1>11. f[x] \in Nat /\ f[a] \in Nat
  BY <1>1, <1>3
<1>12. \A i, j, k \in Nat : i + (j + k) = j + (i + k)
  OBVIOUS
<1>13. SumFunctionOnSet(f, T) = f[a] + (f[x] + SumFunctionOnSet(f, (T \ {x}) \ {a}))
  BY <1>4, <1>7, <1>9
<1>14. SumFunctionOnSet(f, T) = f[x] + (f[a] + SumFunctionOnSet(f, (T \ {x}) \ {a}))
  BY <1>10, <1>11, <1>12, <1>13
<1> QED BY <1>2, <1>8, <1>14

\* A sum depends on the numbers summed.
LEMMA SumSame ==
  ASSUME NEW f, NEW h, NEW S, IsFiniteSet(S), \A x \in S : f[x] = h[x]
  PROVE  SumFunctionOnSet(f, S) = SumFunctionOnSet(h, S)
<1> DEFINE Bad == {T \in SUBSET S : SumFunctionOnSet(f, T) # SumFunctionOnSet(h, T)}
<1> SUFFICES ASSUME Bad # {} PROVE FALSE
  OBVIOUS
<1>1. PICK T \in Bad : /\ IsFiniteSet(T) /\ T \subseteq S
                       /\ \A x \in T : T \ {x} \notin Bad
  BY SmallestPart
<1>2. T # {}
  BY SumEmpty
<1>3. First(T) \in T
  BY <1>2 DEF First
<1>4. /\ SumFunctionOnSet(f, T) = f[First(T)] + SumFunctionOnSet(f, Rest(T))
      /\ SumFunctionOnSet(h, T) = h[First(T)] + SumFunctionOnSet(h, Rest(T))
  BY <1>1, <1>2, SumFirst
<1>5. SumFunctionOnSet(f, Rest(T)) = SumFunctionOnSet(h, Rest(T))
  BY <1>1, <1>3 DEF Rest
<1> QED BY <1>1, <1>3, <1>4, <1>5

LEMMA SumUnion ==
  ASSUME NEW f, NEW S, NEW R, IsFiniteSet(S), IsFiniteSet(R), S \cap R = {},
         \A x \in S \cup R : f[x] \in Nat
  PROVE  SumFunctionOnSet(f, S \cup R) = SumFunctionOnSet(f, S) + SumFunctionOnSet(f, R)
<1> DEFINE Bad == {T \in SUBSET R : SumFunctionOnSet(f, S \cup T) #
                      SumFunctionOnSet(f, S) + SumFunctionOnSet(f, T)}
<1> SUFFICES ASSUME Bad # {} PROVE FALSE
  OBVIOUS
<1>1. PICK T \in Bad : /\ IsFiniteSet(T) /\ T \subseteq R
                       /\ \A x \in T : T \ {x} \notin Bad
  BY SmallestPart
<1>2. SumFunctionOnSet(f, S) \in Nat /\ SumFunctionOnSet(f, T) \in Nat
  BY <1>1, SumNat
<1>3. T # {}
  BY <1>2, SumEmpty
<1>4. PICK a \in T : TRUE
  BY <1>3
<1>5. /\ IsFiniteSet(S \cup T) /\ (S \cup T) \ {a} = S \cup (T \ {a})
      /\ IsFiniteSet(T \ {a}) /\ IsFiniteSet(S \cup (T \ {a}))
  <2>1. (S \cup T) \ {a} = S \cup (T \ {a})
    BY <1>1, <1>4
  <2>2. IsFiniteSet(T \ {a})
    BY <1>1, FS_Subset
  <2> QED BY <1>1, <2>1, <2>2, FS_Union
<1>6. SumFunctionOnSet(f, S \cup T) = f[a] + SumFunctionOnSet(f, S \cup (T \ {a}))
  BY <1>1, <1>4, <1>5, SumTake
<1>7. SumFunctionOnSet(f, T) = f[a] + SumFunctionOnSet(f, T \ {a})
  BY <1>1, <1>4, SumTake
<1>8. SumFunctionOnSet(f, S \cup (T \ {a})) =
        SumFunctionOnSet(f, S) + SumFunctionOnSet(f, T \ {a})
  BY <1>1, <1>4
<1>9. SumFunctionOnSet(f, T \ {a}) \in Nat /\ f[a] \in Nat
  BY <1>1, <1>4, <1>5, SumNat
<1> QED BY <1>1, <1>2, <1>6, <1>7, <1>8, <1>9

----------------------------------------------------------------------------
(* The purse: what else holds of an undisturbed wallet, where the server   *)
(* replaces any secret by any other                                        *)

\* The calls that spend rows of the store, once the server has replaced.
RowsReplaced == {"pay_replaced", "merge_replaced"}

\* A pay is for something and has one payment among its outputs.  What the server
\* has replaced has the same value on both sides, and the rows replaced are still
\* there, with the amounts the call knows.
Balanced(l) ==
    /\ l.pc \notin Fallback
    /\ l.pc = "pay_selected" => l.amount > 0
    /\ l.pc \in {"pay_sent", "pay_replaced"} =>
         \E d \in Depth : {s \in Listed(l.new) : s[1] # "CHANGE"} = {<<"PAY", d>>}
    /\ l.pc \in RowsReplaced =>
         /\ Total(l.ins) = Total(l.new)
         /\ \A s \in Listed(l.ins) : store.row[s] = "unspent" /\ l.ins[s] = worth[s]

CallsBalanced == \A t \in Task : Balanced(task[t])

\* No row has been replaced by two calls.
InputsApart ==
    \A t, u \in Task :
        t # u /\ task[t].pc \in RowsReplaced /\ task[u].pc \in RowsReplaced =>
            Listed(task[t].ins) \cap Listed(task[u].ins) = {}

\* Nothing of others is kept as it is.
OnlyOwnRows == \A s \in Foreign : ~Stored(store, s)

\* The inductive invariant behind PurseSpec.
PurseInv == BooksInv /\ CallsBalanced /\ InputsApart /\ OnlyOwnRows

LEMMA DerivedFinite == IsFiniteSet(Derived)
<1>1. IsFiniteSet(Chain)
  <2>1. IsFiniteSet({"RECEIVE"})
    BY FS_Singleton
  <2>2. IsFiniteSet({"RECEIVE"} \cup {"PAY"})
    BY <2>1, FS_AddElement
  <2>3. IsFiniteSet(({"RECEIVE"} \cup {"PAY"}) \cup {"CHANGE"})
    BY <2>2, FS_AddElement
  <2>4. IsFiniteSet((({"RECEIVE"} \cup {"PAY"}) \cup {"CHANGE"}) \cup {"MINING"})
    BY <2>3, FS_AddElement
  <2>5. Chain = (({"RECEIVE"} \cup {"PAY"}) \cup {"CHANGE"}) \cup {"MINING"}
    BY DEF Chain
  <2> QED BY <2>4, <2>5
<1>2. IsFiniteSet(Depth)
  BY FS_Interval, MaxDepthAssumption DEF Depth
<1> QED BY <1>1, <1>2, FS_Product DEF Derived

LEMMA PurseTypes ==
  ASSUME PurseInv
  PROVE  /\ BooksInv /\ CallsBalanced /\ InputsApart
         /\ \A t \in Task : Balanced(task[t])
  BY DEF PurseInv, CallsBalanced

LEMMA AmountsNat ==
  ASSUME BooksInv
  PROVE  /\ \A s \in Secret : worth[s] \in Nat /\ store.amt[s] \in Nat
         /\ \A t \in Task, s \in Secret :
              task[t].ins[s] \in Nat /\ task[t].new[s] \in Nat
<1>1. Amount \subseteq Nat
  BY MaxAmountAssumption DEF Amount
<1>2. worth \in [Secret -> Amount] /\ store.amt \in [Secret -> Amount]
  BY DEF BooksInv, RowsInv, CoverInv, TypeOK, Store
<1>3. \A t \in Task : task[t].ins \in [Secret -> Amount] /\ task[t].new \in [Secret -> Amount]
  BY BooksTypes DEF Locals, Coins
<1> QED BY <1>1, <1>2, <1>3

\* What is summed is finite: rows and outputs are of the wallet's own secrets.
LEMMA HeldFinite ==
  ASSUME PurseInv
  PROVE  /\ Unspent(store) \subseteq Derived /\ IsFiniteSet(Unspent(store))
         /\ Arriving \subseteq Derived /\ IsFiniteSet(Arriving)
<1>1. Unspent(store) \subseteq Derived
  BY DEF PurseInv, OnlyOwnRows, Unspent, Stored, Secret
<1>2. Arriving \subseteq Derived
  <2> SUFFICES ASSUME NEW t \in Task, task[t].pc = "insert_replaced",
                      NEW s \in Listed(task[t].new)
               PROVE  s \in Derived
    BY DEF Arriving
  <2>1. task[t].pc \in Replaced
    BY DEF Replaced
  <2> QED BY <2>1, PurseTypes, OutputAt
<1> QED BY <1>1, <1>2, DerivedFinite, FS_Subset

LEMMA HeldNat ==
  ASSUME PurseInv
  PROVE  /\ SumFunctionOnSet(store.amt, Unspent(store)) \in Nat
         /\ SumFunctionOnSet(worth, Arriving) \in Nat
         /\ Held \in Nat
<1>1. /\ SumFunctionOnSet(store.amt, Unspent(store)) \in Nat
      /\ SumFunctionOnSet(worth, Arriving) \in Nat
  BY HeldFinite, AmountsNat, PurseTypes, SumNat DEF Secret
<1> QED BY <1>1 DEF Held

\* The value of a list of one webcash.
LEMMA TotalOne ==
  ASSUME NEW f, NEW s, f[s] \in Nat
  PROVE  SumFunctionOnSet(f, {s}) = f[s]
<1>1. SumFunctionOnSet(f, {s}) = f[s] + SumFunctionOnSet(f, {s} \ {s})
  BY FS_Singleton, SumTake
<1>2. {s} \ {s} = {}
  OBVIOUS
<1> QED BY <1>1, <1>2, SumEmpty

LEMMA ListsFinite ==
  ASSUME PurseInv, NEW t \in Task, task[t].pc \in Sent \cup Replaced
  PROVE  /\ Listed(task[t].new) \subseteq Derived
         /\ IsFiniteSet(Listed(task[t].new))
         /\ task[t].pc \in {"pay_sent", "merge_sent"} \cup RowsReplaced =>
              /\ Listed(task[t].ins) \subseteq Derived
              /\ IsFiniteSet(Listed(task[t].ins))
<1>1. Listed(task[t].new) \subseteq Derived
  BY PurseTypes, OutputAt
<1>2. ASSUME task[t].pc \in {"pay_sent", "merge_sent"} \cup RowsReplaced
      PROVE  Listed(task[t].ins) \subseteq Derived
  <2>1. \A s \in Listed(task[t].ins) : Stored(store, s)
    BY <1>2, PurseTypes, BooksTypes DEF CallBacked, Spending, RowsReplaced
  <2> QED BY <2>1 DEF PurseInv, OnlyOwnRows, Secret, Listed
<1> QED BY <1>1, <1>2, DerivedFinite, FS_Subset

----------------------------------------------------------------------------
(* One call advances by itself *)

LEMMA ArrivingSame ==
  ASSUME NEW t \in Task, \A u \in Task : u # t => task'[u] = task[u],
         task[t].pc # "insert_replaced", task'[t].pc # "insert_replaced"
  PROVE  Arriving' = Arriving
<1>1. \A u \in Task : task[u].pc = "insert_replaced" <=> task'[u].pc = "insert_replaced"
  OBVIOUS
<1>2. \A u \in Task : task[u].pc = "insert_replaced" => task'[u] = task[u]
  OBVIOUS
<1> QED BY <1>1, <1>2 DEF Arriving, Listed

LEMMA OutsideSame ==
  ASSUME UNCHANGED <<paid, worth, srv>>,
         \A s \in Claim : Stored(store, s)' = Stored(store, s)
  PROVE  Outside' = Outside
  BY DEF Outside

LEMMA BalancedKept ==
  ASSUME NEW u \in Task, task'[u] = task[u], Balanced(task[u]),
         task[u].pc \in RowsReplaced =>
           \A s \in Listed(task[u].ins) :
             /\ store.row[s] = "unspent" => store'.row[s] = "unspent"
             /\ worth'[s] = worth[s]
  PROVE  Balanced(task[u])'
<1>1. \A s \in Listed(task[u].ins) : s \in Secret
  BY DEF Listed
<1> QED BY <1>1 DEF Balanced, Total, Listed

LEMMA PurseLocal ==
  ASSUME PurseInv, BooksInv', UNCHANGED <<srv, worth, paid>>,
         store'.row = store.row, store'.amt = store.amt,
         NEW t \in Task, NEW l, Balanced(l), task' = [task EXCEPT ![t] = l],
         task[t].pc # "insert_replaced",
         l.pc \notin RowsReplaced \cup {"insert_replaced"}
  PROVE  PurseInv' /\ UNCHANGED <<Held, Outside>>
<1>1. task'[t] = l /\ \A u \in Task : u # t => task'[u] = task[u]
  BY PurseTypes, BooksTypes
<1>2. CallsBalanced'
  <2> SUFFICES ASSUME NEW u \in Task PROVE Balanced(task[u])'
    BY DEF CallsBalanced
  <2>1. CASE u = t
    BY <1>1, <2>1 DEF Balanced, Listed
  <2>2. CASE u # t
    BY <1>1, <2>2, PurseTypes, BalancedKept
  <2> QED BY <2>1, <2>2
<1>3. InputsApart'
  BY <1>1, PurseTypes DEF InputsApart, Listed
<1>4. OnlyOwnRows' /\ Unspent(store)' = Unspent(store)
  BY DEF PurseInv, OnlyOwnRows, Stored, Unspent
<1>5. Arriving' = Arriving
  BY <1>1, ArrivingSame
<1>6. Held' = Held
  BY <1>4, <1>5 DEF Held
<1>7. Outside' = Outside
  BY OutsideSame DEF Stored
<1> QED BY <1>2, <1>3, <1>4, <1>6, <1>7 DEF PurseInv

LEMMA IdleBalanced == Balanced(Idle)
  BY DEF Balanced, Idle, Fallback, RowsReplaced

LEMMA PurseFinish ==
  ASSUME PurseInv, BooksInv', UNCHANGED <<srv, worth, paid>>,
         store'.row = store.row, store'.amt = store.amt,
         NEW t \in Task, Finish(t), task[t].pc # "insert_replaced"
  PROVE  PurseInv' /\ UNCHANGED <<Held, Outside>>
<1>1. Idle.pc \notin RowsReplaced \cup {"insert_replaced"}
  BY DEF Idle, RowsReplaced
<1> QED BY <1>1, IdleBalanced, PurseLocal DEF Finish

LEMMA PurseGoto ==
  ASSUME PurseInv, BooksInv', UNCHANGED <<srv, worth, store, paid>>,
         NEW t \in Task, NEW pc, Goto(t, pc), task[t].pc # "insert_replaced",
         pc \notin Fallback \cup RowsReplaced \cup {"insert_replaced", "pay_selected", "pay_sent"}
  PROVE  PurseInv' /\ UNCHANGED <<Held, Outside>>
<1> DEFINE l == [task[t] EXCEPT !.pc = pc]
<1>1. task' = [task EXCEPT ![t] = l] /\ l.pc = pc
  BY PurseTypes, BooksTypes DEF Goto, Locals
<1> HIDE DEF l
<1>2. Balanced(l)
  BY <1>1 DEF Balanced, RowsReplaced
<1> QED BY <1>1, <1>2, PurseLocal

LEMMA AmountsPositive == \A a \in Amount \ {0} : a > 0
  BY MaxAmountAssumption DEF Amount

----------------------------------------------------------------------------
(* Steps that neither take in nor give out *)

LEMMA PurseCall ==
  ASSUME PurseInv, BooksInv', NEW t \in Task, Call(t), ~RecoverBegin(t)
  PROVE  PurseInv' /\ UNCHANGED <<Held, Outside>>
<1>1. /\ task[t].pc \in AtRest /\ UNCHANGED <<srv, worth, store, paid>>
  BY DEF Call, InsertBegin, PayBegin, MergeBegin, Begin
<1>2. task[t].pc # "insert_replaced"
  BY <1>1 DEF AtRest
<1>3. PICK l : /\ task' = [task EXCEPT ![t] = l]
               /\ l.pc \in {"insert_validate", "insert_sent", "pay_selected",
                            "merge_selected"}
               /\ l.pc = "pay_selected" => l.amount > 0
  <2>1. CASE \E s \in Foreign \cup paid, v \in BOOLEAN : InsertBegin(t, s, v)
    <3> DEFINE d == store.depth["RECEIVE"]
               a(s) == IF s \in Foreign THEN FaceValue[s] ELSE worth[s]
    <3>1. PICK s \in Foreign \cup paid, v \in BOOLEAN : InsertBegin(t, s, v)
      BY <2>1
    <3> DEFINE l == [Idle EXCEPT !.pc = IF v THEN "insert_validate" ELSE "insert_sent",
                                 !.ins = Coin(s, a(s)),
                                 !.new = Coin(<<"RECEIVE", d>>, a(s)),
                                 !.read = [@ EXCEPT !["RECEIVE"] = d]]
    <3>2. task' = [task EXCEPT ![t] = l]
      BY <3>1 DEF InsertBegin
    <3>3. l.pc \in {"insert_validate", "insert_sent"}
      BY DEF Idle
    <3> QED BY <3>2, <3>3
  <2>2. CASE \E a \in Amount \ {0} : PayBegin(t, a)
    <3>1. PICK a \in Amount \ {0} : PayBegin(t, a)
      BY <2>2
    <3>2. a > 0
      BY AmountsPositive
    <3>3. PICK S : task' = [task EXCEPT ![t] =
                     [Idle EXCEPT !.pc = "pay_selected",
                                  !.ins = CoinsOf(S, store.amt),
                                  !.amount = a]]
      BY <3>1 DEF PayBegin
    <3> DEFINE l == [Idle EXCEPT !.pc = "pay_selected",
                                 !.ins = CoinsOf(S, store.amt), !.amount = a]
    <3>4. l.pc = "pay_selected" /\ l.amount = a
      BY DEF Idle
    <3> QED BY <3>2, <3>3, <3>4
  <2>3. CASE MergeBegin(t)
    <3>1. PICK S : task' = [task EXCEPT ![t] =
                     [Idle EXCEPT !.pc = "merge_selected",
                                  !.ins = CoinsOf(S, store.amt)]]
      BY <2>3 DEF MergeBegin
    <3> DEFINE l == [Idle EXCEPT !.pc = "merge_selected",
                                 !.ins = CoinsOf(S, store.amt)]
    <3>2. l.pc = "merge_selected"
      BY DEF Idle
    <3> QED BY <3>1, <3>2
  <2> QED BY <2>1, <2>2, <2>3 DEF Call
<1>4. Balanced(l) /\ l.pc \notin RowsReplaced \cup {"insert_replaced"}
  BY <1>3 DEF Balanced, RowsReplaced, Fallback
<1> QED BY <1>1, <1>2, <1>3, <1>4, PurseLocal

LEMMA PurseSend ==
  ASSUME PurseInv, BooksInv', NEW t \in Task,
         task[t].pc \in {"pay_selected", "merge_selected"},
         NEW pc \in {"pay_sent", "merge_sent"}, NEW new, Send(t, pc, new),
         pc = "pay_sent" => \E d \in Depth :
            {s \in Listed(new) : s[1] # "CHANGE"} = {<<"PAY", d>>}
  PROVE  PurseInv' /\ UNCHANGED <<Held, Outside>>
<1> DEFINE l == [task[t] EXCEPT !.pc = pc, !.read = store.depth, !.new = new]
<1>1. /\ task' = [task EXCEPT ![t] = l] /\ l.pc = pc /\ l.new = new
      /\ UNCHANGED <<srv, worth, store, paid>>
  BY PurseTypes, BooksTypes DEF Send, Locals
<1> HIDE DEF l
<1>2. Balanced(l)
  BY <1>1 DEF Balanced, RowsReplaced, Fallback
<1> QED BY <1>1, <1>2, PurseLocal DEF RowsReplaced

LEMMA PursePaySend ==
  ASSUME PurseInv, BooksInv', NEW t \in Task, PaySend(t)
  PROVE  PurseInv' /\ UNCHANGED <<Held, Outside>>
<1> DEFINE p == <<"PAY", store.depth["PAY"]>>
           q == <<"CHANGE", store.depth["CHANGE"]>>
           amount == task[t].amount
<1>1. PICK change \in Amount :
        /\ p \in Derived /\ (change > 0 => q \in Derived)
        /\ Send(t, "pay_sent", IF change > 0
                               THEN Updated(Coin(p, amount), Coin(q, change))
                               ELSE Coin(p, amount))
  BY DEF PaySend
<1>2. task[t].pc = "pay_selected"
  BY DEF PaySend
<1>3. p \in Secret /\ store.depth["PAY"] \in Depth /\ (change > 0 => q \in Secret)
  BY <1>1 DEF Secret, Derived
<1>4. amount \in Amount /\ amount > 0
  BY <1>2, PurseTypes, BooksTypes DEF Balanced, Locals
<1>5. p # q /\ p[1] = "PAY" /\ q[1] = "CHANGE"
  OBVIOUS
<1> HIDE DEF p, q, amount
<1>6. Listed(Coin(p, amount)) = {p}
  BY <1>3, <1>4, CoinListed
<1>7. ASSUME NEW new, {s \in Listed(new) : s[1] # "CHANGE"} = {p},
             Send(t, "pay_sent", new)
      PROVE  PurseInv' /\ UNCHANGED <<Held, Outside>>
  <2>1. \E d \in Depth : {s \in Listed(new) : s[1] # "CHANGE"} = {<<"PAY", d>>}
    BY <1>3, <1>7 DEF p
  <2> QED BY <1>2, <1>7, <2>1, PurseSend
<1>8. CASE change > 0
  <2>1. Listed(Coin(q, change)) = {q}
    BY <1>3, <1>8, CoinListed
  <2>2. Listed(Updated(Coin(p, amount), Coin(q, change))) = {p, q}
    BY <1>3, <1>6, <2>1 DEF Updated, Listed
  <2>3. {s \in Listed(Updated(Coin(p, amount), Coin(q, change))) : s[1] # "CHANGE"}
          = {p}
    BY <2>2, <1>5
  <2> QED BY <1>1, <1>7, <1>8, <2>3
<1>9. CASE ~(change > 0)
  <2>1. {s \in Listed(Coin(p, amount)) : s[1] # "CHANGE"} = {p}
    BY <1>5, <1>6
  <2> QED BY <1>1, <1>7, <1>9, <2>1
<1> QED BY <1>8, <1>9

LEMMA PurseMergeSend ==
  ASSUME PurseInv, BooksInv', NEW t \in Task, MergeSend(t)
  PROVE  PurseInv' /\ UNCHANGED <<Held, Outside>>
<1>1. PICK new : Send(t, "merge_sent", new) /\ task[t].pc = "merge_selected"
  BY DEF MergeSend
<1> QED BY <1>1, PurseSend

LEMMA PurseRefuses ==
  ASSUME PurseInv, BooksInv', SameLineage = {}, NEW t \in Task, ServerRefuses(t)
  PROVE  PurseInv' /\ UNCHANGED <<Held, Outside>>
<1>1. /\ Finish(t) /\ task[t].pc # "insert_replaced"
      /\ UNCHANGED <<srv, worth, store, paid>>
  BY DEF ServerRefuses, RefusedAsSameLineage, Sent
<1> QED BY <1>1, PurseFinish

LEMMA PurseValidate ==
  ASSUME PurseInv, BooksInv', NEW t \in Task, InsertValidate(t)
  PROVE  PurseInv' /\ UNCHANGED <<Held, Outside>>
<1>1. /\ Finish(t) \/ Goto(t, "insert_sent")
      /\ task[t].pc # "insert_replaced"
      /\ UNCHANGED <<srv, worth, store, paid>>
  BY DEF InsertValidate
<1>2. "insert_sent" \notin Fallback \cup RowsReplaced
          \cup {"insert_replaced", "pay_selected", "pay_sent"}
  BY DEF Fallback, RowsReplaced
<1> QED BY <1>1, <1>2, PurseFinish, PurseGoto

LEMMA PurseSetDepth ==
  ASSUME PurseInv, BooksInv', NEW t \in Task, InsertSetDepth(t)
  PROVE  PurseInv' /\ UNCHANGED <<Held, Outside>>
<1>1. /\ Finish(t) /\ task[t].pc # "insert_replaced"
      /\ UNCHANGED <<srv, worth, paid>>
      /\ store'.row = store.row /\ store'.amt = store.amt
  BY PurseTypes, BooksTypes DEF InsertSetDepth, set_depth, Store
<1> QED BY <1>1, PurseFinish

\* An output made for an insert becomes a row.
LEMMA PurseInsertStore ==
  ASSUME PurseInv, BooksInv', NEW t \in Task, InsertStore(t)
  PROVE  PurseInv' /\ UNCHANGED <<Held, Outside>>
<1> DEFINE q == <<"RECEIVE", task[t].read["RECEIVE"]>>
<1>1. /\ task[t].pc = "insert_replaced"
      /\ UNCHANGED <<srv, worth, late, paid>>
  BY DEF InsertStore
<1>2. /\ task[t].pc \in Inserting /\ task[t].pc \in Unrecorded
      /\ task[t].pc \in Replaced
  BY <1>1 DEF Inserting, Unrecorded, Replaced
<1>3. Listed(task[t].new) = {q} /\ q \in Derived /\ q \in Secret
  BY <1>2, PurseTypes, InsertMakesOne, OutputAt
<1>4. ~Stored(store, q) /\ task[t].new[q] = worth[q]
  BY <1>2, <1>3, PurseTypes, BooksTypes DEF Settled, CallBacked
<1>5. /\ store' = insert_output(store, q, worth[q])
      /\ Goto(t, "insert_stored")
  BY <1>3, <1>4 DEF InsertStore, CanInsert
<1>6. /\ store'.row = [store.row EXCEPT ![q] = "unspent"]
      /\ store'.amt = [store.amt EXCEPT ![q] = worth[q]]
  BY <1>5, PurseTypes, BooksTypes DEF insert_output, Store
<1>7. /\ task'[t].pc = "insert_stored"
      /\ \A u \in Task : u # t => task'[u] = task[u]
  BY <1>5, PurseTypes, BooksTypes DEF Goto, Locals
<1>8. /\ store'.row[q] = "unspent" /\ store'.amt[q] = worth[q]
      /\ \A s \in Secret : s # q => /\ store'.row[s] = store.row[s]
                                    /\ store'.amt[s] = store.amt[s]
  BY <1>3, <1>6, PurseTypes, BooksTypes DEF Store
<1>9. q \notin Foreign /\ \A d \in Depth : q # <<"PAY", d>>
  BY <1>3, ForeignAssumption
<1> HIDE DEF q
<1>10. CallsBalanced'
  <2> SUFFICES ASSUME NEW u \in Task PROVE Balanced(task[u])'
    BY DEF CallsBalanced
  <2>1. CASE u = t
    BY <1>7, <2>1 DEF Balanced, Fallback, RowsReplaced
  <2>2. CASE u # t
    <3>1. \A s \in Listed(task[u].ins) :
            store.row[s] = "unspent" => store'.row[s] = "unspent"
      BY <1>8 DEF Listed
    <3> QED BY <1>1, <1>7, <2>2, <3>1, PurseTypes, BalancedKept
  <2> QED BY <2>1, <2>2
<1>11. InputsApart'
  BY <1>7, PurseTypes DEF InputsApart, RowsReplaced, Listed
<1>12. OnlyOwnRows'
  BY <1>8, <1>9 DEF PurseInv, OnlyOwnRows, Stored, Secret
<1>13. Unspent(store)' = Unspent(store) \cup {q} /\ q \notin Unspent(store)
  BY <1>3, <1>4, <1>8 DEF Unspent, Stored
<1>14. Arriving = Arriving' \cup {q} /\ q \notin Arriving'
  <2>1. \A u \in Task : u # t /\ task[u].pc = "insert_replaced" =>
          q \notin Listed(task[u].new)
    BY <1>2, <1>3, PurseTypes DEF BooksInv, OutputsApart, Replaced
  <2>2. Arriving' = UNION {Listed(task[u].new) :
                       u \in {v \in Task : v # t /\ task[v].pc = "insert_replaced"}}
    BY <1>7 DEF Arriving, Listed
  <2>3. q \notin Arriving'
    BY <2>1, <2>2
  <2>4. Arriving = Arriving' \cup {q}
    BY <1>1, <1>3, <2>2 DEF Arriving
  <2> QED BY <2>3, <2>4
<1>15. Held' = Held
  <2>1. IsFiniteSet(Unspent(store)) /\ IsFiniteSet(Arriving)
    BY HeldFinite
  <2>2. IsFiniteSet(Unspent(store)') /\ IsFiniteSet(Arriving')
    BY <1>13, <1>14, <2>1, FS_AddElement, FS_Subset
  <2>3. /\ \A s \in Secret : worth[s] \in Nat /\ store.amt[s] \in Nat
        /\ \A s \in Unspent(store)' : store'.amt[s] \in Nat
        /\ \A s \in Arriving : worth[s] \in Nat
    BY <1>3, <1>8, HeldFinite, PurseTypes, AmountsNat DEF Unspent, Secret
  <2>4. SumFunctionOnSet(store'.amt, Unspent(store)') =
          worth[q] + SumFunctionOnSet(store.amt, Unspent(store))
    <3>1. SumFunctionOnSet(store'.amt, Unspent(store)') =
            store'.amt[q] + SumFunctionOnSet(store'.amt, Unspent(store)' \ {q})
      BY <1>13, <2>2, <2>3, SumTake
    <3>2. Unspent(store)' \ {q} = Unspent(store)
      BY <1>13
    <3>3. \A s \in Unspent(store) : store'.amt[s] = store.amt[s]
      BY <1>8, <1>13 DEF Unspent
    <3>4. SumFunctionOnSet(store'.amt, Unspent(store)) =
            SumFunctionOnSet(store.amt, Unspent(store))
      BY <2>1, <3>3, SumSame
    <3> QED BY <1>8, <3>1, <3>2, <3>4
  <2>5. SumFunctionOnSet(worth, Arriving) =
          worth[q] + SumFunctionOnSet(worth, Arriving')
    <3>1. SumFunctionOnSet(worth, Arriving) =
            worth[q] + SumFunctionOnSet(worth, Arriving \ {q})
      BY <1>14, <2>1, <2>3, SumTake
    <3>2. Arriving \ {q} = Arriving'
      BY <1>14
    <3> QED BY <3>1, <3>2
  <2>6. SumFunctionOnSet(worth, Arriving') \in Nat
    BY <1>14, <2>2, <2>3, SumNat
  <2>7. SumFunctionOnSet(store.amt, Unspent(store)) \in Nat /\ worth[q] \in Nat
    BY <1>3, <2>3, HeldNat
  <2>8. /\ Held = SumFunctionOnSet(store.amt, Unspent(store))
                    + (worth[q] + SumFunctionOnSet(worth, Arriving'))
        /\ Held' = (worth[q] + SumFunctionOnSet(store.amt, Unspent(store)))
                     + SumFunctionOnSet(worth, Arriving')
    BY <1>1, <2>4, <2>5 DEF Held
  <2> QED BY <2>6, <2>7, <2>8
<1>16. Outside' = Outside
  <2>1. \A s \in Claim : s # q /\ s \in Secret
    BY <1>9, DerivedSecret DEF Claim, Chain, Secret
  <2> QED BY <1>1, <1>8, <2>1, OutsideSame DEF Stored
<1> QED BY <1>10, <1>11, <1>12, <1>15, <1>16 DEF PurseInv

----------------------------------------------------------------------------
(* The steps in which value moves *)

\* What the server's answer changes: inputs become spent, fresh outputs appear,
\* and it costs as much as it makes.
LEMMA PurseReplace ==
  ASSUME PurseInv, BooksInv', NEW t \in Task, ServerReplaces(t)
  PROVE  /\ task[t].pc \in Sent /\ UNCHANGED <<store, late, paid>>
         /\ \A s \in Listed(task[t].ins) :
              srv[s] = "unspent" /\ worth[s] = task[t].ins[s] /\ srv'[s] = "spent"
         /\ \A s \in Listed(task[t].new) :
              /\ s \in Derived /\ s \in Secret /\ ~Known(s) /\ srv'[s] = "unspent"
              /\ worth'[s] = task[t].new[s] /\ s \notin Listed(task[t].ins)
         /\ \A s \in Secret : s \notin Listed(task[t].new) => worth'[s] = worth[s]
         /\ \A s \in Secret :
              s \notin Listed(task[t].new) \cup Listed(task[t].ins) => srv'[s] = srv[s]
         /\ Total(task[t].ins) = Total(task[t].new)
         /\ task'[t].pc = NextPC[task[t].pc]
         /\ task'[t].ins = task[t].ins /\ task'[t].new = task[t].new
         /\ \A u \in Task : u # t => task'[u] = task[u]
<1> DEFINE req == RequestOf(t)
<1>1. /\ task[t].pc \in Sent /\ Replaceable(req) /\ Replace(req)
      /\ UNCHANGED <<store, late, paid>>
      /\ task' = [task EXCEPT ![t].pc = NextPC[task[t].pc]]
      /\ req.ins = task[t].ins /\ req.new = task[t].new
  BY DEF ServerReplaces, Goto, RequestOf
<1> HIDE DEF req
<1>2. /\ task'[t].pc = NextPC[task[t].pc]
      /\ task'[t].ins = task[t].ins /\ task'[t].new = task[t].new
      /\ \A u \in Task : u # t => task'[u] = task[u]
  BY <1>1, PurseTypes, BooksTypes DEF Locals
<1>3. \A s \in Listed(task[t].new) : s \in Derived /\ s \in Secret
  BY <1>1, PurseTypes, OutputAt
<1>4. \A s \in Listed(task[t].ins) :
        s \in Secret /\ srv[s] = "unspent" /\ worth[s] = task[t].ins[s]
  BY <1>1 DEF Replaceable, Listed
<1>5. \A s \in Listed(task[t].new) : ~Known(s) /\ s \notin Listed(task[t].ins)
  BY <1>1, <1>4 DEF Replaceable, Known
<1>6. Total(task[t].ins) = Total(task[t].new)
  BY <1>1 DEF Replaceable
<1>7. /\ \A s \in Secret : srv'[s] = IF s \in Listed(task[t].ins) THEN "spent"
                                     ELSE IF s \in Listed(task[t].new) THEN "unspent"
                                     ELSE srv[s]
      /\ \A s \in Secret : worth'[s] = IF s \in Listed(task[t].new)
                                       THEN task[t].new[s] ELSE worth[s]
  BY <1>1 DEF Replace, Updated
<1> QED BY <1>1, <1>2, <1>3, <1>4, <1>5, <1>6, <1>7

\* Nothing that has been made and not stored is made again.
LEMMA ArrivingKnown ==
  ASSUME PurseInv, NEW s \in Arriving
  PROVE  Known(s) /\ s \in Secret
<1>1. PICK t \in Task : task[t].pc = "insert_replaced" /\ s \in Listed(task[t].new)
  BY DEF Arriving
<1> QED BY <1>1, PurseTypes, BooksTypes DEF Covered, Replaced, Listed

LEMMA PurseReplaces ==
  ASSUME PurseInv, BooksInv', NEW t \in Task, ServerReplaces(t)
  PROVE  PurseInv'
<1>1. CallsBalanced'
  <2> SUFFICES ASSUME NEW u \in Task PROVE Balanced(task[u])'
    BY DEF CallsBalanced
  <2>1. CASE u # t
    <3>1. ASSUME task[u].pc \in RowsReplaced, NEW s \in Listed(task[u].ins)
          PROVE  worth'[s] = worth[s]
      <4>1. Stored(store, s) /\ s \in Secret
        BY <3>1, PurseTypes, BooksTypes DEF CallBacked, Spending, RowsReplaced, Listed
      <4>2. Known(s)
        BY <4>1, PurseTypes, BooksTypes DEF RowsInv, RowsBacked
      <4> QED BY <4>1, <4>2, PurseReplace
    <3>2. task'[u] = task[u] /\ store' = store
      BY <2>1, PurseReplace
    <3> QED BY <3>1, <3>2, PurseTypes, BalancedKept
  <2>2. CASE u = t
    <3>1. CASE task[t].pc = "insert_sent"
      <4>1. task'[t].pc = "insert_replaced"
        BY <3>1, PurseReplace DEF NextPC
      <4> QED BY <2>2, <4>1 DEF Balanced, Fallback, RowsReplaced
    <3>2. CASE task[t].pc \in {"pay_sent", "merge_sent"}
      <4>1. task'[t].pc = IF task[t].pc = "pay_sent" THEN "pay_replaced"
                                                     ELSE "merge_replaced"
        BY <3>2, PurseReplace DEF NextPC
      <4>2. ASSUME NEW s \in Listed(task[t].ins)
            PROVE  store.row[s] = "unspent" /\ task[t].ins[s] = worth'[s]
        <5>1. Stored(store, s) /\ s \in Secret
          BY <3>2, PurseTypes, BooksTypes DEF CallBacked, Spending, Listed
        <5>2. srv[s] = "unspent" /\ worth[s] = task[t].ins[s]
          BY PurseReplace
        <5>3. store.row[s] # "spent"
          BY <5>1, <5>2, PurseTypes, BooksTypes DEF RowsInv, RowsBacked
        <5>4. store.row[s] \in RowState
          BY <5>1, PurseTypes, BooksTypes DEF Store
        <5>5. s \notin Listed(task[t].new)
          BY PurseReplace
        <5>6. worth'[s] = worth[s]
          BY <5>1, <5>5, PurseReplace
        <5> QED BY <5>1, <5>2, <5>3, <5>4, <5>6 DEF RowState, Stored
      <4>3. /\ Total(task[t].ins) = Total(task[t].new)
            /\ task'[t].ins = task[t].ins /\ task'[t].new = task[t].new
            /\ store' = store
        BY PurseReplace
      <4>4. task[t].pc = "pay_sent" =>
              \E d \in Depth : {s \in Listed(task[t].new) : s[1] # "CHANGE"} = {<<"PAY", d>>}
        BY PurseTypes DEF Balanced
      <4> QED BY <2>2, <4>1, <4>2, <4>3, <4>4
          DEF Balanced, Fallback, RowsReplaced, Total, Listed
    <3> QED BY <3>1, <3>2, PurseReplace DEF Sent
  <2> QED BY <2>1, <2>2
<1>2. InputsApart'
  <2>1. ASSUME NEW u \in Task, u # t, task[u].pc \in RowsReplaced
        PROVE  Listed(task[u].ins) \cap Listed(task[t].ins) = {}
    <3>1. \A s \in Listed(task[u].ins) : srv[s] = "spent"
      BY <2>1, PurseTypes, BooksTypes DEF CallBacked, RowsReplaced
    <3> QED BY <3>1, PurseReplace
  <2>2. /\ task'[t].ins = task[t].ins
        /\ \A u \in Task : u # t => task'[u] = task[u]
    BY PurseReplace
  <2> QED BY <2>1, <2>2, PurseTypes DEF InputsApart, Listed
<1>3. OnlyOwnRows'
  BY PurseReplace DEF PurseInv, OnlyOwnRows, Stored
<1> QED BY <1>1, <1>2, <1>3 DEF PurseInv

\* A pay and a merge have done nothing the owner can see when the server has.
LEMMA SpendingReplaces ==
  ASSUME PurseInv, BooksInv', NEW t \in Task, ServerReplaces(t),
         task[t].pc # "insert_sent"
  PROVE  UNCHANGED <<Held, Outside>>
<1>1. task[t].pc \in {"pay_sent", "merge_sent"} /\ task'[t].pc \in RowsReplaced
  BY PurseReplace DEF Sent, NextPC, RowsReplaced
<1>2. Arriving' = Arriving
  BY <1>1, PurseReplace, ArrivingSame DEF RowsReplaced
<1>3. Held' = Held
  <2>1. \A s \in Arriving : worth'[s] = worth[s]
    BY ArrivingKnown, PurseReplace
  <2>2. SumFunctionOnSet(worth', Arriving) = SumFunctionOnSet(worth, Arriving)
    BY <2>1, HeldFinite, SumSame
  <2>3. store'.amt = store.amt /\ Unspent(store)' = Unspent(store)
    BY PurseReplace DEF Unspent
  <2> QED BY <1>2, <2>2, <2>3 DEF Held
<1>4. Outside' = Outside
  <2> SUFFICES ASSUME NEW s \in Claim
               PROVE  /\ (s \in Foreign \cup paid /\ srv[s] = "unspent"
                            /\ ~Stored(store, s)) <=>
                         (s \in Foreign \cup paid' /\ srv'[s] = "unspent"
                            /\ ~Stored(store', s))
                      /\ s \in Foreign \cup paid /\ srv[s] = "unspent" =>
                           worth'[s] = worth[s]
    BY DEF Outside, Stored
  <2>1. s \in Secret
    BY DerivedSecret DEF Claim, Chain, Secret
  <2>2. ~Stored(store, s)
    BY PurseTypes DEF Claim, PurseInv, OnlyOwnRows, BooksInv, PaymentsLeave
  <2>3. s \notin Listed(task[t].ins)
    BY <1>1, <2>2, PurseTypes, BooksTypes DEF CallBacked, Spending
  <2>4. store' = store /\ paid' = paid
    BY PurseReplace
  <2>5. CASE s \in Listed(task[t].new)
    <3>1. s \notin Foreign /\ ~Known(s)
      BY <2>5, PurseReplace, ForeignAssumption
    <3>2. s \notin paid
      BY <3>1, PurseTypes, BooksTypes DEF CoverInv, KnownWorth
    <3> QED BY <2>4, <3>1, <3>2
  <2>6. CASE s \notin Listed(task[t].new)
    BY <2>1, <2>3, <2>4, <2>6, PurseReplace DEF Stored
  <2> QED BY <2>5, <2>6
<1> QED BY <1>3, <1>4

\* An insert takes in a claim when the server answers.
LEMMA InsertTakesIn ==
  ASSUME PurseInv, BooksInv', NEW t \in Task, ServerReplaces(t),
         task[t].pc = "insert_sent"
  PROVE  \E s \in Claim : Promise!TakeIn(s)
<1>1. /\ task[t].pc \in Inserting /\ task[t].pc \in Sent
      /\ task'[t].pc = "insert_replaced"
  BY PurseReplace DEF Inserting, Sent, NextPC
<1>2. PICK q : Listed(task[t].new) = {q} /\ q[1] = "RECEIVE"
  <2>1. Listed(task[t].new) = {<<"RECEIVE", task[t].read["RECEIVE"]>>}
    BY <1>1, PurseTypes, InsertMakesOne
  <2>2. <<"RECEIVE", task[t].read["RECEIVE"]>>[1] = "RECEIVE"
    OBVIOUS
  <2> QED BY <2>1, <2>2
<1>3. /\ q \in Derived /\ q \in Secret /\ ~Known(q) /\ srv'[q] = "unspent"
      /\ worth'[q] = task[t].new[q] /\ q \notin Listed(task[t].ins)
  BY <1>2, PurseReplace
<1>4. task[t].new[q] \in Nat /\ task[t].new[q] > 0
  BY <1>2, <1>3, PurseTypes, AmountsNat DEF Listed
<1>5. Total(task[t].new) = task[t].new[q]
  BY <1>2, <1>4, TotalOne DEF Total
<1>6. Listed(task[t].ins) # {}
  BY <1>4, <1>5, PurseReplace, SumEmpty DEF Total
<1>7. PICK s : Listed(task[t].ins) = {s}
  <2>1. \A s, r \in Listed(task[t].ins) : s = r
    BY <1>1, PurseTypes, BooksTypes DEF CallBacked
  <2>2. PICK s : s \in Listed(task[t].ins)
    BY <1>6
  <2>3. Listed(task[t].ins) = {s}
    BY <2>1, <2>2
  <2> QED BY <2>3
<1>8. /\ s \in Secret /\ s \in Foreign \cup paid /\ s \in Claim
      /\ srv[s] = "unspent" /\ srv'[s] = "spent" /\ worth[s] = task[t].ins[s]
  BY <1>1, <1>7, PurseReplace, PurseTypes, BooksTypes DEF Settled, Listed, Claim
<1>9. Total(task[t].ins) = worth[s]
  <2>1. task[t].ins[s] \in Nat
    BY <1>8, PurseTypes, AmountsNat
  <2> QED BY <1>7, <1>8, <2>1, TotalOne DEF Total
<1>10. worth'[q] = worth[s] /\ worth[s] \in Nat /\ worth[s] > 0
  BY <1>3, <1>4, <1>5, <1>9, PurseReplace
<1>11. Outside[s] = worth[s]
  <2>1. ~Stored(store, s)
    BY <1>8, PurseTypes DEF Claim, PurseInv, OnlyOwnRows, BooksInv, PaymentsLeave
  <2> QED BY <1>8, <2>1 DEF Outside
<1>12. Outside' = [Outside EXCEPT ![s] = 0]
  <2>1. ASSUME NEW r \in Claim
        PROVE  Outside'[r] = IF r = s THEN 0 ELSE Outside[r]
    <3>1. r \in Secret /\ r # q
      BY <1>2, <1>3, DerivedSecret, ForeignAssumption DEF Claim, Chain, Secret
    <3>2. worth'[r] = worth[r] /\ (r # s => srv'[r] = srv[r])
      BY <1>2, <1>7, <3>1, PurseReplace
    <3>3. store' = store /\ paid' = paid
      BY PurseReplace
    <3> QED BY <1>8, <3>2, <3>3 DEF Outside, Stored
  <2> QED BY <2>1 DEF Outside
<1>13. Held' = Held + Outside[s]
  <2>1. Arriving' = Arriving \cup {q}
    <3>1. \A u \in Task : u # t => task'[u] = task[u]
      BY PurseReplace
    <3>2. Arriving = UNION {Listed(task[u].new) :
                        u \in {v \in Task : v # t /\ task[v].pc = "insert_replaced"}}
      BY <1>1 DEF Arriving, Sent
    <3>3. Listed(task[t].new)' = {q}
      BY <1>2, PurseReplace DEF Listed
    <3> QED BY <1>1, <3>1, <3>2, <3>3 DEF Arriving, Listed
  <2>2. q \notin Arriving /\ \A r \in Arriving : worth'[r] = worth[r]
    BY <1>2, <1>3, ArrivingKnown, PurseReplace
  <2>3. IsFiniteSet(Arriving) /\ IsFiniteSet(Arriving')
    BY <2>1, HeldFinite, FS_AddElement
  <2>4. \A r \in Arriving' : worth'[r] \in Nat
    BY <1>10, <2>1, <2>2, HeldFinite, PurseTypes, AmountsNat DEF Secret
  <2>5. SumFunctionOnSet(worth', Arriving') =
          worth'[q] + SumFunctionOnSet(worth', Arriving' \ {q})
    BY <2>1, <2>3, <2>4, SumTake
  <2>6. Arriving' \ {q} = Arriving
    BY <2>1, <2>2
  <2>7. SumFunctionOnSet(worth', Arriving) = SumFunctionOnSet(worth, Arriving)
    BY <2>2, <2>3, SumSame
  <2>8. /\ Held = SumFunctionOnSet(store.amt, Unspent(store))
                    + SumFunctionOnSet(worth, Arriving)
        /\ Held' = SumFunctionOnSet(store.amt, Unspent(store))
                     + (worth[s] + SumFunctionOnSet(worth, Arriving))
    <3>1. store'.amt = store.amt /\ Unspent(store)' = Unspent(store)
      BY PurseReplace DEF Unspent
    <3> QED BY <1>10, <2>5, <2>6, <2>7, <3>1 DEF Held
  <2> QED BY <1>10, <1>11, <2>8, HeldNat
<1> QED BY <1>8, <1>10, <1>11, <1>12, <1>13 DEF Promise!TakeIn

\* What a transaction writes: inputs spent, kept outputs in, the rest paid.
LEMMA PurseCommitted ==
  ASSUME PurseInv, BooksInv', NEW t \in Task, PayCommit(t) \/ MergeCommit(t)
  PROVE  /\ task[t].pc \in RowsReplaced /\ UNCHANGED <<srv, worth>>
         /\ Unspent(store)' = (Unspent(store) \ Listed(task[t].ins)) \cup Kept(t)
         /\ \A s \in Secret : store'.amt[s] = IF s \in Kept(t) THEN task[t].new[s]
                                              ELSE store.amt[s]
         /\ \A s \in Kept(t) : ~Stored(store, s) /\ s \in Listed(task[t].new)
                               /\ s \in Secret /\ s \in Derived /\ s[1] = "CHANGE"
         /\ \A s \in Secret : Stored(store, s)' <=> Stored(store, s) \/ s \in Kept(t)
         /\ paid' = paid \cup (Listed(task[t].new) \ Kept(t))
         /\ Listed(task[t].ins) \subseteq Unspent(store)
         /\ task'[t] = Idle /\ \A u \in Task : u # t => task'[u] = task[u]
<1>1. /\ task[t].pc \in RowsReplaced /\ UNCHANGED <<srv, worth>>
      /\ task[t].pc \in Replaced /\ task[t].pc \in Unrecorded
      /\ task' = [task EXCEPT ![t] = Idle]
  BY DEF PayCommit, MergeCommit, Commit, Finish, RowsReplaced, Replaced, Unrecorded
<1>2. \A s \in Kept(t) : /\ ~Stored(store, s) /\ s \in Listed(task[t].new)
                         /\ s \in Derived /\ s \in Secret /\ s[1] = "CHANGE"
  BY <1>1, PurseTypes, BooksTypes, OutputAt DEF Settled, Kept
<1>3. \A s \in Kept(t) : CanInsert(store, s)
  BY <1>2 DEF CanInsert
<1>4. store' = Recorded(t)
  BY <1>3 DEF PayCommit, MergeCommit, Commit
<1>5. paid' = paid \cup (Listed(task[t].new) \ Kept(t))
  <2>1. CASE PayCommit(t)
    BY <1>3, <2>1 DEF PayCommit
  <2>2. CASE MergeCommit(t)
    <3>1. Listed(task[t].new) \subseteq Kept(t)
      BY <2>2, PurseTypes, BooksTypes DEF MergeCommit, Settled, Kept
    <3> QED BY <2>2, <3>1 DEF MergeCommit
  <2> QED BY <2>1, <2>2
<1>6. \A s \in Secret : store'.row[s] =
        IF s \in Kept(t) THEN "unspent"
        ELSE IF s \in Listed(task[t].ins) /\ Stored(store, s) THEN "spent"
        ELSE store.row[s]
  BY <1>4, PurseTypes, BooksTypes DEF Recorded, RowsWith, mark_spent, Store
<1>7. \A s \in Secret : store'.amt[s] = IF s \in Kept(t) THEN task[t].new[s]
                                        ELSE store.amt[s]
  <2>1. store'.amt = Updated(store.amt, CoinsOf(Kept(t), task[t].new))
    BY <1>4, PurseTypes, BooksTypes DEF Recorded, mark_spent, Store
  <2>2. \A s \in Secret : s \in Listed(CoinsOf(Kept(t), task[t].new)) <=> s \in Kept(t)
    BY <1>2 DEF Listed, CoinsOf
  <2> QED BY <2>1, <2>2 DEF Updated, CoinsOf
<1>8. Listed(task[t].ins) \subseteq Unspent(store)
  BY <1>1, PurseTypes DEF Balanced, Unspent, Listed
<1>9. Unspent(store)' = (Unspent(store) \ Listed(task[t].ins)) \cup Kept(t)
  <2>1. \A s \in Secret : store'.row[s] = "unspent" <=>
          s \in Kept(t) \/ (store.row[s] = "unspent" /\ s \notin Listed(task[t].ins))
    BY <1>6 DEF Stored
  <2> QED BY <1>2, <2>1 DEF Unspent
<1>10. \A s \in Secret : Stored(store, s)' <=> Stored(store, s) \/ s \in Kept(t)
  BY <1>6 DEF Stored
<1>11. task'[t] = Idle /\ \A u \in Task : u # t => task'[u] = task[u]
  BY <1>1, PurseTypes, BooksTypes
<1> QED BY <1>1, <1>2, <1>5, <1>7, <1>8, <1>9, <1>10, <1>11

LEMMA PurseCommit ==
  ASSUME PurseInv, BooksInv', NEW t \in Task, PayCommit(t) \/ MergeCommit(t)
  PROVE  PurseInv'
<1>1. CallsBalanced'
  <2> SUFFICES ASSUME NEW u \in Task PROVE Balanced(task[u])'
    BY DEF CallsBalanced
  <2>1. CASE u = t
    <3>1. task'[u].pc = "idle"
      BY <2>1, PurseCommitted DEF Idle
    <3> QED BY <3>1 DEF Balanced, Fallback, RowsReplaced
  <2>2. CASE u # t
    <3>1. ASSUME task[u].pc \in RowsReplaced, NEW s \in Listed(task[u].ins),
                 store.row[s] = "unspent"
          PROVE  store'.row[s] = "unspent"
      <4>1. s \notin Listed(task[t].ins)
        BY <2>2, <3>1, PurseTypes, PurseCommitted DEF InputsApart
      <4>2. s \in Unspent(store)
        BY <3>1 DEF Unspent, Listed
      <4>3. s \in Unspent(store)'
        BY <4>1, <4>2, PurseCommitted
      <4> QED BY <4>3 DEF Unspent
    <3>2. task'[u] = task[u] /\ worth' = worth
      BY <2>2, PurseCommitted
    <3> QED BY <3>1, <3>2, PurseTypes, BalancedKept
  <2> QED BY <2>1, <2>2
<1>2. InputsApart'
  <2>1. task'[t].pc \notin RowsReplaced
    BY PurseCommitted DEF Idle, RowsReplaced
  <2>2. \A u \in Task : u # t => task'[u] = task[u]
    BY PurseCommitted
  <2> QED BY <2>1, <2>2, PurseTypes DEF InputsApart, Listed
<1>3. OnlyOwnRows'
  <2> SUFFICES ASSUME NEW s \in Foreign PROVE ~Stored(store, s)'
    BY DEF OnlyOwnRows
  <2>1. s \in Secret /\ s \notin Derived
    BY ForeignAssumption DEF Secret
  <2> QED BY <2>1, PurseCommitted DEF PurseInv, OnlyOwnRows
<1> QED BY <1>1, <1>2, <1>3 DEF PurseInv

\* What a transaction takes from the rows is what it pays: what it spends is
\* worth what the server has made of it, and the rest is kept.
LEMMA CommitConserves ==
  ASSUME PurseInv, BooksInv', NEW t \in Task, PayCommit(t) \/ MergeCommit(t)
  PROVE  /\ Held' \in Nat
         /\ Held = Held' + SumFunctionOnSet(task[t].new, Listed(task[t].new) \ Kept(t))
<1> DEFINE ins == Listed(task[t].ins)
           new == Listed(task[t].new)
           rest == Unspent(store) \ ins
<1>1. /\ task[t].pc \in Replaced /\ task[t].pc # "insert_replaced"
      /\ task'[t].pc # "insert_replaced"
      /\ task[t].pc \in {"pay_sent", "merge_sent"} \cup RowsReplaced
      /\ task[t].pc \in RowsReplaced
  BY PurseCommitted DEF RowsReplaced, Replaced, Idle
<1>2. /\ IsFiniteSet(ins) /\ IsFiniteSet(new) /\ IsFiniteSet(Unspent(store))
      /\ ins \subseteq Unspent(store) /\ Kept(t) \subseteq new
      /\ new \subseteq Secret /\ Unspent(store) \subseteq Secret
  <2>1. new \subseteq Secret /\ Unspent(store) \subseteq Secret
    BY DEF Listed, Unspent
  <2>2. ins \subseteq Unspent(store) /\ Kept(t) \subseteq new
    BY PurseCommitted
  <2> QED BY <1>1, <2>1, <2>2, ListsFinite, HeldFinite
<1>3. IsFiniteSet(rest) /\ IsFiniteSet(Kept(t)) /\ IsFiniteSet(new \ Kept(t))
  BY <1>2, FS_Subset
<1>4. /\ \A s \in Secret : /\ store.amt[s] \in Nat /\ worth[s] \in Nat
                           /\ task[t].new[s] \in Nat /\ task[t].ins[s] \in Nat
                           /\ store'.amt[s] \in Nat
  BY PurseTypes, AmountsNat, PurseCommitted
<1>5. rest \cap Kept(t) = {}
  BY PurseCommitted DEF Unspent, Stored
<1> HIDE DEF ins, new, rest
\* Before: the inputs and the rest.
<1>6. SumFunctionOnSet(store.amt, Unspent(store)) =
        SumFunctionOnSet(store.amt, rest) + SumFunctionOnSet(store.amt, ins)
  <2>1. Unspent(store) = rest \cup ins /\ rest \cap ins = {}
    BY <1>2 DEF rest
  <2> QED BY <1>2, <1>3, <1>4, <2>1, SumUnion
\* After: the rest and what is kept.
<1>7. SumFunctionOnSet(store'.amt, Unspent(store)') =
        SumFunctionOnSet(store.amt, rest) + SumFunctionOnSet(task[t].new, Kept(t))
  <2>1. Unspent(store)' = rest \cup Kept(t)
    BY PurseCommitted DEF rest, ins
  <2>2. rest \cup Kept(t) \subseteq Secret
    BY <1>2 DEF rest
  <2>3. SumFunctionOnSet(store'.amt, rest \cup Kept(t)) =
          SumFunctionOnSet(store'.amt, rest) + SumFunctionOnSet(store'.amt, Kept(t))
    BY <1>3, <1>4, <1>5, <2>2, SumUnion
  <2>4. SumFunctionOnSet(store'.amt, rest) = SumFunctionOnSet(store.amt, rest)
    <3>1. \A s \in rest : store'.amt[s] = store.amt[s]
      BY <1>5, <2>2, PurseCommitted
    <3> QED BY <1>3, <3>1, SumSame
  <2>5. SumFunctionOnSet(store'.amt, Kept(t)) = SumFunctionOnSet(task[t].new, Kept(t))
    <3>1. \A s \in Kept(t) : store'.amt[s] = task[t].new[s]
      BY PurseCommitted
    <3> QED BY <1>3, <3>1, SumSame
  <2> QED BY <2>1, <2>3, <2>4, <2>5
\* The inputs are worth the outputs, and these are kept or paid.
<1>8. SumFunctionOnSet(store.amt, ins) =
        SumFunctionOnSet(task[t].new, Kept(t))
          + SumFunctionOnSet(task[t].new, new \ Kept(t))
  <2>1. \A s \in ins : store.amt[s] = task[t].ins[s]
    <3>1. \A s \in ins : store.row[s] = "unspent" /\ task[t].ins[s] = worth[s]
      BY <1>1, PurseTypes DEF Balanced, ins
    <3>2. \A s \in ins : store.amt[s] = worth[s]
      BY <1>2, <3>1, PurseTypes, BooksTypes DEF RowsInv, RowsBacked, Stored
    <3> QED BY <3>1, <3>2
  <2>2. SumFunctionOnSet(store.amt, ins) = Total(task[t].ins)
    BY <1>2, <2>1, SumSame DEF Total, ins
  <2>3. Total(task[t].ins) = Total(task[t].new)
    BY <1>1, PurseTypes DEF Balanced
  <2>4. new = Kept(t) \cup (new \ Kept(t)) /\ Kept(t) \cap (new \ Kept(t)) = {}
    BY <1>2
  <2>5. SumFunctionOnSet(task[t].new, new) =
          SumFunctionOnSet(task[t].new, Kept(t))
            + SumFunctionOnSet(task[t].new, new \ Kept(t))
    BY <1>2, <1>3, <1>4, <2>4, SumUnion
  <2> QED BY <2>2, <2>3, <2>5 DEF Total, new
<1>9. Arriving' = Arriving /\ worth' = worth
  BY <1>1, PurseCommitted, ArrivingSame
<1>10. /\ Held = SumFunctionOnSet(store.amt, Unspent(store))
                   + SumFunctionOnSet(worth, Arriving)
       /\ Held' = SumFunctionOnSet(store'.amt, Unspent(store)')
                    + SumFunctionOnSet(worth, Arriving)
  BY <1>9 DEF Held
<1>11. /\ SumFunctionOnSet(store.amt, rest) \in Nat
       /\ SumFunctionOnSet(task[t].new, Kept(t)) \in Nat
       /\ SumFunctionOnSet(task[t].new, new \ Kept(t)) \in Nat
       /\ SumFunctionOnSet(worth, Arriving) \in Nat
  <2>1. rest \subseteq Secret /\ Kept(t) \subseteq Secret /\ new \ Kept(t) \subseteq Secret
    BY <1>2 DEF rest
  <2> QED BY <1>3, <1>4, <2>1, SumNat, HeldNat
<1>12. \A a, b, c, d \in Nat : (a + (b + c)) + d = ((a + b) + d) + c
  OBVIOUS
<1>13. Held = Held' + SumFunctionOnSet(task[t].new, new \ Kept(t))
  BY <1>6, <1>7, <1>8, <1>10, <1>11, <1>12
<1>14. Held' \in Nat
  BY <1>7, <1>10, <1>11
<1> QED BY <1>13, <1>14 DEF new

\* A merge changes nothing the owner can see.
LEMMA MergeKeeps ==
  ASSUME PurseInv, BooksInv', NEW t \in Task, MergeCommit(t)
  PROVE  UNCHANGED <<Held, Outside>>
<1>1. Listed(task[t].new) \ Kept(t) = {}
  BY PurseTypes, BooksTypes DEF MergeCommit, Settled, Kept
<1>2. Held' = Held
  <2>1. Held' \in Nat /\ Held = Held' + SumFunctionOnSet(task[t].new, {})
    BY <1>1, CommitConserves
  <2> QED BY <2>1, SumEmpty
<1>3. Outside' = Outside
  <2>1. \A s \in Claim : s \in Secret /\ s \notin Kept(t)
    <3>1. \A s \in Claim : s \in Secret
      BY DerivedSecret DEF Claim, Chain, Secret
    <3>2. \A s \in Claim : s \notin Derived \/ s[1] # "CHANGE"
      BY ForeignAssumption DEF Claim
    <3> QED BY <3>1, <3>2, PurseCommitted
  <2>2. \A s \in Claim : Stored(store, s)' = Stored(store, s)
    <3> SUFFICES ASSUME NEW s \in Claim PROVE Stored(store, s)' = Stored(store, s)
      OBVIOUS
    <3>1. Stored(store, s)' <=> Stored(store, s)
      BY <2>1, PurseCommitted
    <3> QED BY <3>1 DEF Stored
  <2>3. paid' = paid /\ worth' = worth /\ srv' = srv
    BY <1>1, PurseCommitted
  <2> QED BY <2>2, <2>3, OutsideSame
<1> QED BY <1>2, <1>3

\* A pay gives out its payment with its transaction.
LEMMA PayGivesOut ==
  ASSUME PurseInv, BooksInv', NEW t \in Task, PayCommit(t)
  PROVE  \E s \in Claim : Promise!GiveOut(s)
<1>1. task[t].pc = "pay_replaced" /\ task[t].pc \in Replaced /\ task[t].pc \in Unrecorded
  BY DEF PayCommit, Replaced, Unrecorded
<1>2. PICK d \in Depth : {s \in Listed(task[t].new) : s[1] # "CHANGE"} = {<<"PAY", d>>}
  BY <1>1, PurseTypes DEF Balanced
<1> DEFINE p == <<"PAY", d>>
<1>3. Listed(task[t].new) \ Kept(t) = {p}
  BY <1>2 DEF Kept
<1>4. p \in Listed(task[t].new) /\ p \in Secret /\ p \in Claim
  BY <1>3 DEF Listed, Claim
<1> HIDE DEF p
<1>5. /\ ~Stored(store, p) /\ p \notin paid /\ srv[p] = "unspent"
      /\ task[t].new[p] = worth[p]
  BY <1>1, <1>4, PurseTypes, BooksTypes DEF Settled, CallBacked
<1>6. worth[p] \in Nat /\ worth[p] > 0
  BY <1>4, <1>5, PurseTypes, AmountsNat DEF Listed
<1>7. p \notin Foreign
  BY <1>1, <1>4, PurseTypes, OutputAt, ForeignAssumption
<1>8. Held = Held' + worth[p]
  <2>1. SumFunctionOnSet(task[t].new, {p}) = worth[p]
    BY <1>5, <1>6, TotalOne
  <2> QED BY <1>3, <2>1, CommitConserves
<1>9. Outside[p] = 0
  BY <1>4, <1>5, <1>7 DEF Outside
<1>10. \A s \in Claim : s \in Secret /\ s \notin Kept(t)
  <2>1. \A s \in Claim : s \in Secret
    BY DerivedSecret DEF Claim, Chain, Secret
  <2>2. \A s \in Claim : s \notin Derived \/ s[1] # "CHANGE"
    BY ForeignAssumption DEF Claim
  <2> QED BY <2>1, <2>2, PurseCommitted
<1>11. \A s \in Claim : Stored(store, s)' <=> Stored(store, s)
  BY <1>10, PurseCommitted
<1>12. paid' = paid \cup {p} /\ worth' = worth /\ srv' = srv
  BY <1>3, PurseCommitted
<1>13. \A s \in Claim : Outside'[s] = IF s = p THEN worth[p] ELSE Outside[s]
  BY <1>4, <1>5, <1>11, <1>12 DEF Outside
<1>14. Outside' = [Outside EXCEPT ![p] = Outside'[p]] /\ Outside'[p] = worth[p]
  BY <1>4, <1>13 DEF Outside
<1> QED BY <1>4, <1>6, <1>8, <1>9, <1>14 DEF Promise!GiveOut

\* Others redeem a claim.
LEMMA OthersRedeem ==
  ASSUME PurseInv, BooksInv', NEW s \in Foreign \cup paid, OthersSpend(s)
  PROVE  PurseInv' /\ \E r \in Claim : Promise!Redeem(r)
<1>1. /\ srv[s] = "unspent" /\ srv' = [srv EXCEPT ![s] = "spent"]
      /\ UNCHANGED <<worth, store, task, late, paid>>
  BY DEF OthersSpend, SpentElsewhere
<1>2. s \in Claim /\ s \in Secret
  BY PurseTypes, BooksTypes DEF Claim, Secret
<1>3. ~Stored(store, s)
  BY <1>2, PurseTypes DEF Claim, PurseInv, OnlyOwnRows, BooksInv, PaymentsLeave
<1>4. worth[s] \in Nat /\ worth[s] > 0
  BY <1>1, <1>2, PurseTypes, BooksTypes, AmountsNat DEF CoverInv, KnownWorth, Known
<1>5. Outside[s] = worth[s]
  BY <1>1, <1>2, <1>3 DEF Outside
<1>6. Outside' = [Outside EXCEPT ![s] = 0]
  <2>1. \A r \in Claim : r \in Secret
    BY DerivedSecret DEF Claim, Chain, Secret
  <2>2. \A r \in Claim : srv'[r] = IF r = s THEN "spent" ELSE srv[r]
    BY <1>1, <2>1, PurseTypes, BooksTypes
  <2>3. \A r \in Claim : Outside'[r] = IF r = s THEN 0 ELSE Outside[r]
    BY <1>1, <2>2 DEF Outside, Stored
  <2> QED BY <2>3 DEF Outside
<1>7. Held' = Held
  <2>1. Unspent(store)' = Unspent(store) /\ Arriving' = Arriving
    BY <1>1 DEF Unspent, Arriving, Listed
  <2> QED BY <1>1, <2>1 DEF Held
<1>8. PurseInv'
  <2>1. CallsBalanced'
    BY <1>1, PurseTypes, BalancedKept DEF CallsBalanced
  <2>2. InputsApart' /\ OnlyOwnRows'
    BY <1>1 DEF PurseInv, InputsApart, OnlyOwnRows, Stored, Listed
  <2> QED BY <2>1, <2>2 DEF PurseInv
<1> QED BY <1>2, <1>4, <1>5, <1>6, <1>7, <1>8 DEF Promise!Redeem

----------------------------------------------------------------------------
LEMMA PurseInit ==
  ASSUME Init
  PROVE  PurseInv /\ Promise!Init
<1> DEFINE opened == {<<"RECEIVE", i - 1>> : i \in 1 .. Len(Opening)}
<1>1. BooksInv
  BY BooksInit
<1>2. /\ store.row = [s \in Secret |-> IF s \in opened THEN "unspent" ELSE "none"]
      /\ task = [t \in Task |-> Idle]
  BY DEF Init
<1>3. \A t \in Task : task[t] = Idle /\ task[t].pc = "idle"
  BY <1>2 DEF Idle
<1>4. CallsBalanced
  BY <1>3, IdleBalanced DEF CallsBalanced
<1>5. InputsApart
  BY <1>3 DEF InputsApart, RowsReplaced
<1>6. OnlyOwnRows
  <2>1. opened \subseteq Derived
    BY WalletAssumption, MaxDepthAssumption DEF Derived, Chain, Depth
  <2> HIDE DEF opened
  <2>2. \A s \in Foreign : s \notin opened /\ s \in Secret
    BY <2>1, ForeignAssumption DEF Secret
  <2> QED BY <1>2, <2>2 DEF OnlyOwnRows, Stored
<1>7. PurseInv
  BY <1>1, <1>4, <1>5, <1>6 DEF PurseInv
<1>8. Outside \in [Claim -> Nat]
  <2>1. \A s \in Claim : s \in Secret
    BY DerivedSecret DEF Claim, Chain, Secret
  <2>2. \A s \in Claim : worth[s] \in Nat
    BY <1>1, <2>1, AmountsNat
  <2> QED BY <2>2 DEF Outside
<1> QED BY <1>7, <1>8, HeldNat DEF Promise!Init

\* Every step of the wallet is a step of the purse, or none.
LEMMA PurseStep ==
  ASSUME Undisturbed, SameLineage = {}, PurseInv, BooksInv', [Next]_vars
  PROVE  PurseInv' /\ [Promise!Next]_<<Held, Outside>>
<1> DEFINE Quiet == UNCHANGED <<Held, Outside>>
           Moves == \E s \in Claim : Promise!TakeIn(s) \/ Promise!GiveOut(s) \/ Promise!Redeem(s)
<1>1. SUFFICES PurseInv' /\ (Quiet \/ Moves)
  BY DEF Promise!Next
<1>2. CASE UNCHANGED vars
  <2>1. UNCHANGED <<srv, worth, store, task, late, paid>>
    BY <1>2 DEF vars
  <2>2. CallsBalanced'
    BY <2>1, PurseTypes, BalancedKept DEF CallsBalanced
  <2>3. InputsApart' /\ OnlyOwnRows'
    BY <2>1 DEF PurseInv, InputsApart, OnlyOwnRows, Listed, Stored
  <2>4. Unspent(store)' = Unspent(store) /\ Arriving' = Arriving
    BY <2>1 DEF Unspent, Arriving, Listed
  <2>5. Outside' = Outside
    BY <2>1, OutsideSame DEF Stored
  <2> QED BY <2>1, <2>2, <2>3, <2>4, <2>5 DEF PurseInv, Held
<1> HIDE DEF Quiet, Moves
<1>3. UNCHANGED <<Held, Outside>> => Quiet
  BY DEF Quiet
<1>4. (\E s \in Claim : Promise!TakeIn(s) \/ Promise!GiveOut(s) \/ Promise!Redeem(s))
        => Moves
  BY DEF Moves
<1>5. ASSUME NEW t \in Task, Call(t) PROVE PurseInv' /\ Quiet
  <2>1. ~RecoverBegin(t)
    BY DEF RecoverBegin, Begin, Undisturbed
  <2> QED BY <1>3, <1>5, <2>1, PurseCall
<1>6. ASSUME NEW t \in Task, Advance(t) PROVE PurseInv' /\ (Quiet \/ Moves)
  <2>1. CASE ServerReplaces(t)
    <3>1. CASE task[t].pc = "insert_sent"
      BY <1>4, <2>1, <3>1, PurseReplaces, InsertTakesIn
    <3>2. CASE task[t].pc # "insert_sent"
      BY <1>3, <2>1, <3>2, PurseReplaces, SpendingReplaces
    <3> QED BY <3>1, <3>2
  <2>2. CASE ServerRefuses(t) \/ InsertValidate(t) \/ InsertStore(t)
             \/ InsertSetDepth(t) \/ PaySend(t) \/ MergeSend(t)
    BY <1>3, <2>2, PurseRefuses, PurseValidate, PurseInsertStore, PurseSetDepth,
       PursePaySend, PurseMergeSend
  <2>3. CASE InsertFallback(t) \/ InsertDirect(t)
    BY <2>3, PurseTypes DEF InsertFallback, InsertDirect, Balanced, Fallback
  <2>4. CASE PayCommit(t)
    BY <1>4, <2>4, PurseCommit, PayGivesOut
  <2>5. CASE MergeCommit(t)
    BY <1>3, <2>5, PurseCommit, MergeKeeps
  <2>6. CASE PastBounds(t)
    <3>1. /\ UNCHANGED <<srv, worth, store, paid>> /\ Finish(t)
          /\ task[t].pc # "insert_replaced"
      BY <2>6 DEF PastBounds
    <3> QED BY <1>3, <3>1, PurseFinish
  <2>7. CASE \/ RecoverScan(t) \/ RecoverStore(t) \/ RecoverStored(t)
             \/ RecoverReadDepth(t) \/ RecoverSetDepth(t)
    <3>1. task[t].pc \in Recovering
      BY <2>7 DEF RecoverScan, RecoverStore, RecoverStored, RecoverReadDepth,
                  RecoverSetDepth, Recovering
    <3> QED BY <3>1, PurseTypes, BooksTypes DEF Settled
  <2> QED BY <1>6, <2>1, <2>2, <2>3, <2>4, <2>5, <2>6, <2>7 DEF Advance
<1>7. ASSUME NEW s \in Foreign \cup paid, OthersSpend(s) PROVE PurseInv' /\ Moves
  BY <1>4, <1>7, OthersRedeem
<1>8. ~Crash /\ \A t \in Task : ~GiveUp(t)
  BY DEF Crash, GiveUp, Undisturbed
<1>9. \A req \in late : FALSE
  BY DEF PurseInv, BooksInv
<1> QED BY <1>2, <1>5, <1>6, <1>7, <1>8, <1>9 DEF Next, Progress

\* In a wallet whose replies arrive, that recovers nothing and whose secrets the
\* server replaces by any other, calls that run at once do to the balance what
\* they would do one after the other: the wallet implements the purse.
THEOREM PurseAlways ==
  ASSUME Undisturbed, SameLineage = {}
  PROVE  Spec => PurseSpec
<1>1. Init => PurseInv /\ Promise!Init
  BY PurseInit
<1>2. PurseInv /\ BooksInv' /\ [Next]_vars => PurseInv' /\ [Promise!Next]_<<Held, Outside>>
  BY PurseStep
<1> QED BY <1>1, <1>2, BooksAlways, PTL DEF Spec, PurseSpec, Promise!Spec
============================================================================
