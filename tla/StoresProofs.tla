---------------------------- MODULE StoresProofs ----------------------------
(***************************************************************************)
(* Proofs about the stores, for any number of rows and batches: the SQLite *)
(* stores implement TxStore for any number of threads, and the JSON stores *)
(* of one thread, and a page's, keep what they have answered.              *)
(***************************************************************************)
EXTENDS Stores, Sequences, TLAPS

----------------------------------------------------------------------------
(* The SQLite stores: running a batch statement by statement *)

LEMMA MarkType ==
  ASSUME NEW table \in Rows, NEW S
  PROVE  mark_spent(table, S) \in Rows
  BY DEF mark_spent, Rows, RowState

LEMMA InsertType ==
  ASSUME NEW table \in Rows, NEW S
  PROVE  insert_output(table, S) \in Rows
  BY DEF insert_output, Rows, RowState

LEMMA AppliedType ==
  ASSUME NEW table \in Rows, NEW b \in Batch
  PROVE  Applied(table, b) \in Rows
  BY MarkType, InsertType DEF Applied

LEMMA NothingType == Nothing \in Batch
  BY DEF Nothing, Batch

\* Nothing changes nothing.
LEMMA AppliedNothing ==
  ASSUME NEW table \in Rows
  PROVE  Applied(table, Nothing) = table
  BY DEF Applied, insert_output, mark_spent, Nothing, Rows

\* Marking one more row is the batch with one more row to mark.
LEMMA AppliedMark ==
  ASSUME NEW table \in Rows, NEW b \in Batch, NEW r \in Row \ b.insert
  PROVE  mark_spent(Applied(table, b), {r})
           = Applied(table, [mark |-> b.mark \cup {r}, insert |-> b.insert])
  BY DEF Applied, insert_output, mark_spent, Rows, Batch

\* Inserting one more row is the batch with one more row to insert.
LEMMA AppliedInsert ==
  ASSUME NEW table \in Rows, NEW b \in Batch, NEW r \in Row
  PROVE  insert_output(Applied(table, b), {r})
           = Applied(table, [mark |-> b.mark, insert |-> b.insert \cup {r}])
  BY DEF Applied, insert_output, mark_spent, Rows, Batch

\* A row the batch does not touch is there afterwards as it was before.
LEMMA AppliedElsewhere ==
  ASSUME NEW table \in Rows, NEW b \in Batch, NEW r \in Row \ b.insert,
         Applied(table, b)[r] = "none"
  PROVE  table[r] = "none"
  BY DEF Applied, insert_output, mark_spent, Rows, Batch

----------------------------------------------------------------------------
(* The invariant *)

LEMMA CallBatch ==
  ASSUME TypeOK, NEW t \in Thread
  PROVE  /\ call[t] \in Batch
         /\ call[t].mark \cap call[t].insert = {}
  BY BatchesAssumption, NothingType DEF TypeOK, Nothing

LEMMA InvInit == Init => IInv
  BY NothingType DEF Init, IInv, TypeOK, Isolated, Answer, Nothing, Batch

LEMMA CallStep ==
  ASSUME IInv, NEW t \in Thread, NEW b \in Batches, Call(t, b)
  PROVE  IInv'
  <1>1. TypeOK'
    BY DEF IInv, TypeOK, Call, Answer
  <1>2. t \notin holder
    BY DEF IInv, Isolated, Call
  <1>3. \A u \in holder : /\ call'[u] = call[u] /\ answer'[u] = answer[u]
                          /\ Part(u)' = Part(u)
    BY <1>2 DEF Call, IInv, TypeOK, Part
  <1>4. Isolated'
    BY <1>3 DEF IInv, Isolated, Call
  <1> QED BY <1>1, <1>4 DEF IInv

LEMMA BeginStep ==
  ASSUME IInv, NEW t \in Thread, Begin(t)
  PROVE  IInv'
  <1>1. TypeOK'
    BY CallBatch DEF IInv, TypeOK, Begin
  <1>2. Part(t)' = Nothing
    BY DEF Begin, Part, Nothing
  <1>3. work' = Applied(rows, Nothing)
    BY AppliedNothing DEF Begin, IInv, TypeOK
  <1>4. CanInsert(rows, Nothing.insert)
    BY DEF CanInsert, Nothing
  <1> QED BY <1>1, <1>2, <1>3, <1>4 DEF IInv, Isolated, Begin

LEMMA MarkSpentStep ==
  ASSUME IInv, NEW t \in Thread, NEW r \in Row, MarkSpent(t, r)
  PROVE  IInv'
  <1>1. /\ call[t] \in Batch /\ todo \in Batch /\ Part(t) \in Batch
        /\ call[t].mark \cap call[t].insert = {}
    BY CallBatch DEF IInv, TypeOK, Part, Batch
  <1>2. holder = {t} /\ work = Applied(rows, Part(t)) /\ r \in call[t].mark
    BY DEF IInv, Isolated, MarkSpent
  <1>3. TypeOK'
    BY <1>1, MarkType DEF IInv, TypeOK, MarkSpent, Batch
  <1>4. Part(t)' = [mark |-> Part(t).mark \cup {r}, insert |-> Part(t).insert]
    BY <1>1, <1>2 DEF Part, MarkSpent, Batch
  <1>5. work' = Applied(rows, Part(t)')
    <2>1. r \in Row \ Part(t).insert
      BY <1>1, <1>2 DEF Part
    <2>2. work' = mark_spent(Applied(rows, Part(t)), {r})
      BY <1>2 DEF MarkSpent
    <2> QED BY <1>1, <1>4, <2>1, <2>2, AppliedMark DEF IInv, TypeOK
  <1>6. CanInsert(rows, Part(t)'.insert)
    BY <1>4 DEF IInv, Isolated, MarkSpent
  <1> QED BY <1>1, <1>2, <1>3, <1>5, <1>6 DEF IInv, Isolated, MarkSpent, Batch

LEMMA InsertOutputStep ==
  ASSUME IInv, NEW t \in Thread, NEW r \in Row, InsertOutput(t, r)
  PROVE  IInv'
  <1>1. call[t] \in Batch /\ todo \in Batch /\ Part(t) \in Batch
    BY CallBatch DEF IInv, TypeOK, Part, Batch
  <1>2. /\ holder = {t} /\ work = Applied(rows, Part(t)) /\ r \in call[t].insert
        /\ r \notin Part(t).insert /\ work[r] = "none"
    BY DEF IInv, Isolated, InsertOutput, Part, CanInsert
  <1>3. TypeOK'
    BY <1>1, InsertType DEF IInv, TypeOK, InsertOutput, Batch
  <1>4. Part(t)' = [mark |-> Part(t).mark, insert |-> Part(t).insert \cup {r}]
    BY <1>1, <1>2 DEF Part, InsertOutput, Batch
  <1>5. work' = Applied(rows, Part(t)')
    BY <1>1, <1>2, <1>4, AppliedInsert DEF InsertOutput, IInv, TypeOK
  <1>6. rows[r] = "none"
    BY <1>1, <1>2, AppliedElsewhere DEF IInv, TypeOK
  <1>7. CanInsert(rows, Part(t)'.insert)
    BY <1>4, <1>6 DEF IInv, Isolated, InsertOutput, CanInsert
  <1> QED BY <1>1, <1>2, <1>3, <1>5, <1>7 DEF IInv, Isolated, InsertOutput, Batch

LEMMA EndStep ==
  ASSUME IInv, holder' = {}, rows' \in Rows, UNCHANGED <<work, todo>>,
         call' \in [Thread -> Batches \cup {Nothing}],
         answer' \in [Thread -> Answer]
  PROVE  IInv'
  BY DEF IInv, TypeOK, Isolated

LEMMA InvStep == IInv /\ [Next]_vars => IInv'
  <1> SUFFICES ASSUME IInv, [Next]_vars PROVE IInv'
    OBVIOUS
  <1>1. ASSUME NEW t \in Thread, NEW b \in Batches, Call(t, b) PROVE IInv'
    BY <1>1, CallStep
  <1>2. ASSUME NEW t \in Thread, Begin(t) PROVE IInv'
    BY <1>2, BeginStep
  <1>3. ASSUME NEW t \in Thread, Commit(t) PROVE IInv'
    BY <1>3, EndStep DEF Commit, IInv, TypeOK, Answer
  <1>4. ASSUME NEW t \in Thread, Rollback(t) PROVE IInv'
    BY <1>4, EndStep DEF Rollback, IInv, TypeOK, Answer
  <1>5. ASSUME NEW t \in Thread, NEW r \in Row, MarkSpent(t, r) PROVE IInv'
    BY <1>5, MarkSpentStep
  <1>6. ASSUME NEW t \in Thread, NEW r \in Row, InsertOutput(t, r) PROVE IInv'
    BY <1>6, InsertOutputStep
  <1>7. CASE Crash
    BY <1>7, EndStep DEF Crash, IInv, TypeOK, Answer
  <1>8. CASE UNCHANGED vars
    BY <1>8 DEF vars, IInv, TypeOK, Isolated, Part
  <1> QED BY <1>1, <1>2, <1>3, <1>4, <1>5, <1>6, <1>7, <1>8 DEF Next

----------------------------------------------------------------------------
(* Refinement *)

LEMMA RefineInit == Init => Tx!Init
  BY DEF Init, Tx!Init, Rows, RowState, Tx!Rows, Tx!RowState, Nothing, Tx!Nothing

\* The commit is where the whole batch takes effect.
LEMMA CommitTakes ==
  ASSUME IInv, NEW t \in Thread, Commit(t)
  PROVE  Tx!Take(t)
  <1>1. Part(t) = call[t]
    BY CallBatch DEF IInv, Commit, Part, Nothing, Batch
  <1>2. answer[t] = "pending" /\ work = Applied(rows, call[t])
        /\ CanInsert(rows, call[t].insert)
    BY <1>1 DEF IInv, Isolated, Commit
  <1>3. \A S : Tx!CanInsert(rows, S) <=> CanInsert(rows, S)
    BY DEF Tx!CanInsert, CanInsert
  <1>4. Tx!Applied(rows, call[t]) = Applied(rows, call[t])
    BY DEF Tx!Applied, Tx!insert_output, Tx!mark_spent,
           Applied, insert_output, mark_spent
  <1> QED BY <1>2, <1>3, <1>4 DEF Tx!Take, Tx!Returns, Commit

LEMMA RefineStep == IInv /\ [Next]_vars => [Tx!Next]_<<rows, call, answer>>
  <1> SUFFICES ASSUME IInv, [Next]_vars
               PROVE  [Tx!Next]_<<rows, call, answer>>
    OBVIOUS
  <1>1. ASSUME NEW t \in Thread, NEW b \in Batches, Call(t, b) PROVE Tx!Next
    BY <1>1 DEF Call, Tx!Call, Tx!Next
  <1>2. ASSUME NEW t \in Thread, Commit(t) PROVE Tx!Next
    BY <1>2, CommitTakes DEF Tx!Next
  <1>3. ASSUME NEW t \in Thread, Rollback(t) PROVE Tx!Next
    BY <1>3 DEF Rollback, IInv, Isolated, Tx!Refuse, Tx!Returns, Tx!Next
  <1>4. CASE Crash
    BY <1>4 DEF Crash, Tx!Crash, Tx!Next, Nothing, Tx!Nothing
  <1>5. ASSUME NEW t \in Thread, Begin(t) PROVE UNCHANGED <<rows, call, answer>>
    BY <1>5 DEF Begin
  <1>6. ASSUME NEW t \in Thread, NEW r \in Row, MarkSpent(t, r) \/ InsertOutput(t, r)
        PROVE  UNCHANGED <<rows, call, answer>>
    BY <1>6 DEF MarkSpent, InsertOutput
  <1>7. CASE UNCHANGED vars
    BY <1>7 DEF vars
  <1> QED BY <1>1, <1>2, <1>3, <1>4, <1>5, <1>6, <1>7 DEF Next

----------------------------------------------------------------------------
(* The storage crate's SQLite store *)

LEMMA CrateSqliteCalls ==
  /\ CrateSqlite!Rows = Rows /\ CrateSqlite!Nothing = Nothing
  /\ \A table, S : /\ CrateSqlite!mark_spent(table, S) = mark_spent(table, S)
                   /\ CrateSqlite!insert_output(table, S) = insert_output(table, S)
                   /\ CrateSqlite!CanInsert(table, S) <=> CanInsert(table, S)
  /\ \A table, b : CrateSqlite!Applied(table, b) = Applied(table, b)
  BY DEF CrateSqlite!Rows, CrateSqlite!RowState, CrateSqlite!Nothing,
         CrateSqlite!mark_spent, CrateSqlite!insert_output, CrateSqlite!CanInsert,
         CrateSqlite!Applied, Rows, RowState, Nothing, mark_spent, insert_output,
         CanInsert, Applied

\* Much of it is as in the wallet's own store.
LEMMA SharedSteps ==
  ASSUME NEW t \in Thread
  PROVE  /\ \A b \in Batches : CrateSqlite!Call(t, b) => Call(t, b) /\ UNCHANGED path
         /\ \A r \in Row : CrateSqlite!MarkSpent(t, r)
                             => MarkSpent(t, r) /\ UNCHANGED path
         /\ \A r \in Row : CrateSqlite!InsertOutput(t, r)
                             => InsertOutput(t, r) /\ UNCHANGED path
         /\ CrateSqlite!Commit(t) => Commit(t)
  BY CrateSqliteCalls
  DEF CrateSqlite!Call, CrateSqlite!MarkSpent, CrateSqlite!InsertOutput,
      CrateSqlite!Commit, CrateSqlite!Returns, Call, MarkSpent, InsertOutput, Commit

\* Its connection sees what is committed while no transaction is open; path says
\* whether one is that its thread has left.
CrateSqliteInv == IInv /\ (holder = {} /\ ~path => work = rows)

LEMMA CrateSqliteInit == CrateSqlite!Init => CrateSqliteInv /\ Tx!Init
  <1> SUFFICES ASSUME CrateSqlite!Init PROVE CrateSqliteInv /\ Tx!Init
    OBVIOUS
  <1>1. Init
    BY CrateSqliteCalls DEF CrateSqlite!Init, Init
  <1> QED BY <1>1, InvInit, RefineInit DEF CrateSqliteInv, CrateSqlite!Init

LEMMA CrateStatement ==
  ASSUME Apart, CrateSqliteInv, NEW t \in Thread, CrateSqlite!Statement(t)
  PROVE  CrateSqliteInv' /\ Tx!Next
  <1>1. /\ holder = {} /\ holder' = {} /\ work = rows /\ rows' = work'
        /\ answer[t] = "pending" /\ UNCHANGED <<call, todo>>
    BY DEF CrateSqliteInv, CrateSqlite!Statement, CrateSqlite!Returns,
           CrateSqlite!InTransaction
  <1>2. \/ /\ CanInsert(rows, call[t].insert) /\ rows' = Applied(rows, call[t])
           /\ answer' = [answer EXCEPT ![t] = "ok"]
        \/ rows' = rows /\ answer' = [answer EXCEPT ![t] = "error"]
    BY <1>1, CrateSqliteCalls DEF CrateSqlite!Statement, CrateSqlite!Returns
  <1>3. rows' \in Rows
    BY <1>2, CallBatch, AppliedType DEF CrateSqliteInv, IInv, TypeOK
  <1>4. answer' \in [Thread -> Answer]
    BY <1>2 DEF CrateSqliteInv, IInv, TypeOK, Answer
  <1>5. CrateSqliteInv'
    BY <1>1, <1>3, <1>4 DEF CrateSqliteInv, IInv, TypeOK, Isolated
  <1>6. /\ Tx!CanInsert(rows, call[t].insert) <=> CanInsert(rows, call[t].insert)
        /\ Tx!Applied(rows, call[t]) = Applied(rows, call[t])
    BY DEF Tx!CanInsert, CanInsert, Tx!Applied, Tx!insert_output, Tx!mark_spent,
           Applied, insert_output, mark_spent
  <1>7. Tx!Take(t) \/ Tx!Refuse(t)
    BY <1>1, <1>2, <1>6 DEF Tx!Take, Tx!Refuse, Tx!Returns
  <1> QED BY <1>5, <1>7 DEF Tx!Next

LEMMA CrateBegin ==
  ASSUME CrateSqliteInv, NEW t \in Thread, CrateSqlite!Begin(t)
  PROVE  CrateSqliteInv' /\ [Tx!Next]_<<rows, call, answer>>
  <1>1. CASE ~CrateSqlite!InTransaction
    <2>1. Begin(t) /\ path' = path
      BY <1>1 DEF CrateSqlite!Begin, Begin, CrateSqliteInv, CrateSqlite!InTransaction
    <2>2. IInv'
      BY <2>1, BeginStep DEF CrateSqliteInv
    <2> QED BY <2>1, <2>2 DEF Begin, CrateSqliteInv
  <1>2. CASE CrateSqlite!InTransaction
    <2>1. /\ answer[t] = "pending" /\ t \notin holder
          /\ answer' = [answer EXCEPT ![t] = "error"]
          /\ UNCHANGED <<rows, call, holder, work, todo, path>>
      BY <1>2 DEF CrateSqlite!Begin, CrateSqlite!Returns
    <2>2. TypeOK'
      BY <2>1 DEF CrateSqliteInv, IInv, TypeOK, Answer
    <2>3. \A u \in holder : answer'[u] = answer[u] /\ Part(u)' = Part(u)
      BY <2>1 DEF CrateSqliteInv, IInv, TypeOK, Part
    <2>4. Isolated'
      BY <2>1, <2>3 DEF CrateSqliteInv, IInv, Isolated
    <2>5. Tx!Refuse(t)
      BY <2>1 DEF Tx!Refuse, Tx!Returns
    <2> QED BY <2>1, <2>2, <2>4, <2>5 DEF CrateSqliteInv, IInv, Tx!Next
  <1> QED BY <1>1, <1>2

\* A transaction that is over leaves the connection at what is committed, or is
\* left open.
LEMMA CrateEnd ==
  ASSUME CrateSqliteInv, holder' = {}, work' = rows \/ path', work' \in Rows,
         UNCHANGED <<rows, todo>>,
         call' \in [Thread -> Batches \cup {Nothing}],
         answer' \in [Thread -> Answer]
  PROVE  CrateSqliteInv'
  BY DEF CrateSqliteInv, IInv, TypeOK, Isolated

LEMMA CrateSqliteStep ==
  ASSUME Apart, CrateSqliteInv, CrateSqlite!Next
  PROVE  CrateSqliteInv' /\ [Tx!Next]_<<rows, call, answer>>
  <1>1. IInv
    BY DEF CrateSqliteInv
  <1>2. ASSUME NEW t \in Thread, NEW b \in Batches, Call(t, b), UNCHANGED path
        PROVE  CrateSqliteInv' /\ Tx!Next
    <2>1. IInv' /\ UNCHANGED <<holder, work, rows>>
      BY <1>1, <1>2, CallStep DEF Call
    <2>2. Tx!Next
      BY <1>2 DEF Call, Tx!Call, Tx!Next
    <2> QED BY <1>2, <2>1, <2>2 DEF CrateSqliteInv
  <1>3. ASSUME NEW t \in Thread, NEW r \in Row, UNCHANGED path,
               MarkSpent(t, r) \/ InsertOutput(t, r)
        PROVE  CrateSqliteInv' /\ UNCHANGED <<rows, call, answer>>
    <2>1. IInv'
      BY <1>1, <1>3, MarkSpentStep, InsertOutputStep
    <2> QED BY <1>3, <2>1 DEF MarkSpent, InsertOutput, CrateSqliteInv
  <1>4. ASSUME NEW t \in Thread, Commit(t) PROVE CrateSqliteInv' /\ Tx!Next
    <2>1. IInv' /\ work' = rows'
      BY <1>1, <1>4, EndStep DEF Commit, IInv, TypeOK, Answer
    <2>2. Tx!Next
      BY <1>1, <1>4, CommitTakes DEF Tx!Next
    <2> QED BY <2>1, <2>2 DEF CrateSqliteInv
  <1>5. ASSUME NEW t \in Thread, CrateSqlite!Rollback(t) \/ CrateSqlite!EndFails(t)
        PROVE  CrateSqliteInv' /\ Tx!Next
    <2>1. CrateSqliteInv'
      BY <1>1, <1>5, CrateEnd
      DEF CrateSqlite!Rollback, CrateSqlite!EndFails, CrateSqlite!Returns, IInv, TypeOK,
          Answer
    <2>2. answer[t] = "pending"
      BY <1>1, <1>5 DEF CrateSqlite!Rollback, CrateSqlite!EndFails, IInv, Isolated
    <2>3. Tx!Refuse(t)
      BY <1>5, <2>2 DEF CrateSqlite!Rollback, CrateSqlite!EndFails, CrateSqlite!Returns,
                        Tx!Refuse, Tx!Returns
    <2> QED BY <2>1, <2>3 DEF Tx!Next
  <1>6. CASE CrateSqlite!Crash
    <2>1. CrateSqliteInv'
      BY <1>1, <1>6, CrateEnd, CrateSqliteCalls
      DEF CrateSqlite!Crash, IInv, TypeOK, Answer
    <2>2. Tx!Next
      BY <1>6, CrateSqliteCalls
      DEF CrateSqlite!Crash, Tx!Crash, Tx!Next, Nothing, Tx!Nothing
    <2> QED BY <2>1, <2>2
  <1>7. ASSUME NEW t \in Thread, CrateSqlite!Statement(t) \/ CrateSqlite!Begin(t)
        PROVE  CrateSqliteInv' /\ [Tx!Next]_<<rows, call, answer>>
    BY <1>7, CrateStatement, CrateBegin
  <1> QED BY <1>2, <1>3, <1>4, <1>5, <1>6, <1>7, SharedSteps DEF CrateSqlite!Next

----------------------------------------------------------------------------
(* The storage crate's memory and JSON stores, of one thread *)

\* What the closure of t has run so far.
CrateJsonDone(t) == [mark   |-> asked[t].mark \ left[t].mark,
                     insert |-> asked[t].insert \ left[t].insert]

\* A table that a batch has been run on.
Has(table, b) ==
    /\ \A r \in b.insert : table[r] \in {"unspent", "spent"}
    /\ \A r \in b.mark : table[r] # "unspent"

CrateJsonTypeOK ==
    /\ path \in BOOLEAN
    /\ mem \in CrateJson!Rows /\ file \in CrateJson!Rows \cup {CrateJson!Torn}
    /\ asked \in [{Only} -> CrateJson!Batch]
    /\ \A t \in {Only} : asked[t].mark \cap asked[t].insert = {}
    /\ told \in [{Only} -> CrateJson!Answer]
    /\ stage \in [{Only} -> CrateJson!Stage]
    /\ left \in [{Only} -> CrateJson!Batch]
    /\ copy \in [{Only} -> CrateJson!Rows]

\* Where a call is in its stages, and what memory, copy and file hold there.
CrateJsonAtStage(t) ==
    /\ stage[t] = "rest" =>
         (path => file = mem) /\ (told[t] = "ok" => Has(mem, asked[t]))
    /\ stage[t] # "rest" => told[t] = "pending"
    /\ stage[t] = "begun" => (path => file = mem)
    /\ stage[t] = "closure" =>
         /\ path => file = copy[t]
         /\ left[t].mark \subseteq asked[t].mark
         /\ left[t].insert \subseteq asked[t].insert
         /\ CrateJson!CanInsert(copy[t], CrateJsonDone(t).insert)
         /\ mem = CrateJson!Applied(copy[t], CrateJsonDone(t))
    /\ stage[t] \in {"flush", "open", "write"} => path /\ Has(mem, asked[t])
    /\ stage[t] \in {"open", "write"} => copy[t] = mem
    /\ stage[t] = "write" => file = CrateJson!Torn

CrateJsonInv == CrateJsonTypeOK /\ \A t \in {Only} : CrateJsonAtStage(t)

----------------------------------------------------------------------------
(* The storage crate's JSON store: running a batch *)

LEMMA CrateJsonAppliedType ==
  ASSUME NEW table \in CrateJson!Rows, NEW b \in CrateJson!Batch
  PROVE  CrateJson!Applied(table, b) \in CrateJson!Rows
  BY DEF CrateJson!Applied, CrateJson!insert_output, CrateJson!mark_spent,
         CrateJson!Rows, CrateJson!RowState

LEMMA CrateJsonStatementType ==
  ASSUME NEW table \in CrateJson!Rows, NEW r \in Row
  PROVE  /\ CrateJson!mark_spent(table, {r}) \in CrateJson!Rows
         /\ CrateJson!insert_output(table, {r}) \in CrateJson!Rows
  BY DEF CrateJson!insert_output, CrateJson!mark_spent, CrateJson!Rows,
         CrateJson!RowState

LEMMA CrateJsonAppliedHas ==
  ASSUME NEW table \in CrateJson!Rows, NEW b \in CrateJson!Batch
  PROVE  Has(CrateJson!Applied(table, b),
             [mark |-> b.mark \ b.insert, insert |-> b.insert])
  BY DEF Has, CrateJson!Applied, CrateJson!insert_output, CrateJson!mark_spent,
         CrateJson!Rows, CrateJson!RowState, CrateJson!Batch

LEMMA CrateJsonAppliedNothing ==
  ASSUME NEW table \in CrateJson!Rows, NEW b, b.mark = {}, b.insert = {}
  PROVE  CrateJson!Applied(table, b) = table /\ CrateJson!CanInsert(table, b.insert)
  BY DEF CrateJson!Applied, CrateJson!insert_output, CrateJson!mark_spent,
         CrateJson!CanInsert, CrateJson!Rows

LEMMA CrateJsonNothingType ==
  /\ CrateJson!Nothing \in CrateJson!Batch
  /\ CrateJson!Nothing.mark = {} /\ CrateJson!Nothing.insert = {}
  BY DEF CrateJson!Nothing, CrateJson!Batch

----------------------------------------------------------------------------
(* What it holds at each stage *)

LEMMA CrateJsonInit == CrateJson!Init => CrateJsonInv
  BY CrateJsonNothingType
  DEF CrateJson!Init, CrateJsonInv, CrateJsonTypeOK, CrateJsonAtStage,
      CrateJson!Answer, CrateJson!Stage

\* With one thread, what it does is all there is to look at.
LEMMA CrateJsonOnlyThread ==
  ASSUME NEW t \in {Only}, CrateJsonTypeOK', CrateJsonAtStage(t)'
  PROVE  CrateJsonInv'
  <1>1. ASSUME NEW u \in {Only} PROVE u = t
    OBVIOUS
  <1> QED BY <1>1 DEF CrateJsonInv

LEMMA CrateJsonCallStep ==
  ASSUME CrateJsonInv, NEW t \in {Only}, NEW b \in Batches,
         CrateJson!Call(t, b)
  PROVE  CrateJsonInv'
  <1>1. b \in CrateJson!Batch /\ b.mark \cap b.insert = {}
    BY BatchesAssumption DEF Batch, CrateJson!Batch
  <1>2. CrateJsonTypeOK'
    BY <1>1
    DEF CrateJson!Call, CrateJsonInv, CrateJsonTypeOK, CrateJson!Answer,
        CrateJson!Stage
  <1>3. CrateJsonAtStage(t)'
    BY DEF CrateJson!Call, CrateJsonInv, CrateJsonTypeOK, CrateJsonAtStage
  <1> QED BY <1>2, <1>3, CrateJsonOnlyThread

LEMMA CrateJsonStatementStep ==
  ASSUME CrateJsonInv, NEW t \in {Only}, CrateJson!Statement(t)
  PROVE  CrateJsonInv'
  <1>1. /\ asked[t] \in CrateJson!Batch /\ mem \in CrateJson!Rows /\ stage[t] = "begun"
        /\ UNCHANGED <<path, file, asked, left, copy>>
        /\ asked[t].mark \ asked[t].insert = asked[t].mark
        /\ path => file = mem
    BY DEF CrateJsonInv, CrateJsonTypeOK, CrateJson!Statement, CrateJsonAtStage
  <1>2. CASE CrateJson!CanInsert(mem, asked[t].insert)
    <2>1. mem' = CrateJson!Applied(mem, asked[t]) /\ CrateJson!Flushes(t)
      BY <1>2 DEF CrateJson!Statement
    <2>2. Has(mem', asked[t])
      BY <1>1, <2>1, CrateJsonAppliedHas DEF Has
    <2>3. mem' \in CrateJson!Rows
      BY <1>1, <2>1, CrateJsonAppliedType
    <2>4. CrateJsonTypeOK'
      BY <1>1, <2>1, <2>3
     
      DEF CrateJsonInv, CrateJsonTypeOK, CrateJson!Flushes, CrateJson!Goto,
          CrateJson!Returns, CrateJson!Stage, CrateJson!Answer
    <2>5. CASE path
      <3>1. stage'[t] = "flush" /\ told'[t] = "pending"
        BY <1>1, <2>1, <2>5
       
        DEF CrateJsonInv, CrateJsonTypeOK, CrateJsonAtStage, CrateJson!Flushes,
            CrateJson!Goto
      <3>2. CrateJsonAtStage(t)'
        BY <1>1, <2>2, <2>5, <3>1 DEF CrateJsonAtStage, Has
      <3> QED BY <2>4, <3>2, CrateJsonOnlyThread
    <2>6. CASE ~path
      <3>1. stage'[t] = "rest"
        BY <1>1, <2>1, <2>6
        DEF CrateJsonInv, CrateJsonTypeOK, CrateJson!Flushes, CrateJson!Returns
      <3>2. CrateJsonAtStage(t)'
        BY <1>1, <2>2, <2>6, <3>1 DEF CrateJsonAtStage, Has
      <3> QED BY <2>4, <3>2, CrateJsonOnlyThread
    <2> QED BY <2>5, <2>6
  <1>3. CASE ~CrateJson!CanInsert(mem, asked[t].insert)
    <2>1. CrateJson!Returns(t, "error") /\ mem' = mem
      BY <1>3 DEF CrateJson!Statement
    <2>2. CrateJsonTypeOK'
      BY <1>1, <2>1
      DEF CrateJsonInv, CrateJsonTypeOK, CrateJson!Returns, CrateJson!Stage,
          CrateJson!Answer
    <2>3. stage'[t] = "rest" /\ told'[t] = "error"
      BY <2>1 DEF CrateJsonInv, CrateJsonTypeOK, CrateJson!Returns
    <2>4. CrateJsonAtStage(t)'
      BY <1>1, <2>1, <2>3 DEF CrateJsonAtStage
    <2> QED BY <2>2, <2>4, CrateJsonOnlyThread
  <1> QED BY <1>2, <1>3

LEMMA CrateJsonBeginStep ==
  ASSUME CrateJsonInv, NEW t \in {Only}, CrateJson!Begin(t)
  PROVE  CrateJsonInv'
  <1>1. CrateJsonTypeOK'
    BY DEF CrateJson!Begin, CrateJson!Goto, CrateJsonInv, CrateJsonTypeOK,
           CrateJson!Stage
  <1>2. /\ stage'[t] = "closure" /\ told'[t] = "pending"
        /\ copy'[t] = mem /\ left'[t] = asked[t] /\ mem \in CrateJson!Rows
        /\ UNCHANGED <<path, mem, file, asked>> /\ (path => file = mem)
    BY DEF CrateJson!Begin, CrateJson!Goto, CrateJsonInv, CrateJsonTypeOK,
           CrateJsonAtStage
  <1>3. CrateJsonDone(t)'.mark = {} /\ CrateJsonDone(t)'.insert = {}
    BY <1>2 DEF CrateJsonDone
  <1>4. /\ CrateJson!Applied(copy'[t], CrateJsonDone(t)') = mem
        /\ CrateJson!CanInsert(copy'[t], CrateJsonDone(t)'.insert)
    BY <1>2, <1>3, CrateJsonAppliedNothing
  <1>5. CrateJsonAtStage(t)'
    BY <1>2, <1>4
    DEF CrateJsonAtStage, CrateJson!Applied, CrateJson!CanInsert,
        CrateJson!insert_output, CrateJson!mark_spent
  <1> QED BY <1>1, <1>5, CrateJsonOnlyThread

LEMMA CrateJsonMarkStep ==
  ASSUME CrateJsonInv, NEW t \in {Only}, NEW r \in Row,
         CrateJson!MarkSpent(t, r)
  PROVE  CrateJsonInv'
  <1>1. /\ stage[t] = "closure" /\ r \in left[t].mark
        /\ mem' = CrateJson!mark_spent(mem, {r})
        /\ UNCHANGED <<path, file, asked, told, stage, copy>>
    BY DEF CrateJson!MarkSpent
  <1>2. /\ copy[t] \in CrateJson!Rows /\ asked[t] \in CrateJson!Batch
        /\ left[t] \in CrateJson!Batch
        /\ asked[t].mark \cap asked[t].insert = {} /\ CrateJsonAtStage(t)
        /\ mem \in CrateJson!Rows
    BY DEF CrateJsonInv, CrateJsonTypeOK
  <1>3. left'[t] = [left[t] EXCEPT !.mark = @ \ {r}] /\ left'[t] \in CrateJson!Batch
        /\ left' \in [{Only} -> CrateJson!Batch]
    BY <1>2 DEF CrateJson!MarkSpent, CrateJsonInv, CrateJsonTypeOK, CrateJson!Batch
  <1>4. left'[t].mark = left[t].mark \ {r} /\ left'[t].insert = left[t].insert
    BY <1>2, <1>3 DEF CrateJson!Batch
  <1>5. CrateJsonTypeOK'
    BY <1>1, <1>2, <1>3, CrateJsonStatementType DEF CrateJsonInv, CrateJsonTypeOK
  <1>6. /\ CrateJsonDone(t)'.mark = CrateJsonDone(t).mark \cup {r}
        /\ CrateJsonDone(t)'.insert = CrateJsonDone(t).insert
        /\ r \notin CrateJsonDone(t).insert
    BY <1>1, <1>2, <1>4 DEF CrateJsonDone, CrateJsonAtStage, CrateJson!Batch
  <1>7. mem' = CrateJson!Applied(copy[t], CrateJsonDone(t)')
    BY <1>1, <1>2, <1>6
   
    DEF CrateJsonAtStage, CrateJson!Applied, CrateJson!insert_output,
        CrateJson!mark_spent, CrateJson!Rows
  <1>8. CrateJsonAtStage(t)'
    BY <1>1, <1>2, <1>4, <1>6, <1>7
   
    DEF CrateJsonAtStage, CrateJson!CanInsert, CrateJson!Applied,
        CrateJson!insert_output, CrateJson!mark_spent
  <1> QED BY <1>5, <1>8, CrateJsonOnlyThread

LEMMA CrateJsonInsertStep ==
  ASSUME CrateJsonInv, NEW t \in {Only}, NEW r \in Row,
         CrateJson!InsertOutput(t, r)
  PROVE  CrateJsonInv'
  <1>1. /\ stage[t] = "closure" /\ r \in left[t].insert
        /\ CrateJson!CanInsert(mem, {r}) /\ mem' = CrateJson!insert_output(mem, {r})
        /\ UNCHANGED <<path, file, asked, told, stage, copy>>
    BY DEF CrateJson!InsertOutput
  <1>2. /\ copy[t] \in CrateJson!Rows /\ asked[t] \in CrateJson!Batch
        /\ left[t] \in CrateJson!Batch
        /\ asked[t].mark \cap asked[t].insert = {} /\ CrateJsonAtStage(t)
        /\ mem \in CrateJson!Rows
    BY DEF CrateJsonInv, CrateJsonTypeOK
  <1>3. left'[t] = [left[t] EXCEPT !.insert = @ \ {r}] /\ left'[t] \in CrateJson!Batch
        /\ left' \in [{Only} -> CrateJson!Batch]
    BY <1>2
    DEF CrateJson!InsertOutput, CrateJsonInv, CrateJsonTypeOK, CrateJson!Batch
  <1>4. left'[t].insert = left[t].insert \ {r} /\ left'[t].mark = left[t].mark
    BY <1>2, <1>3 DEF CrateJson!Batch
  <1>5. CrateJsonTypeOK'
    BY <1>1, <1>2, <1>3, CrateJsonStatementType DEF CrateJsonInv, CrateJsonTypeOK
  <1>6. /\ CrateJsonDone(t)'.insert = CrateJsonDone(t).insert \cup {r}
        /\ CrateJsonDone(t)'.mark = CrateJsonDone(t).mark
        /\ r \notin CrateJsonDone(t).insert /\ r \notin CrateJsonDone(t).mark
    BY <1>1, <1>2, <1>4 DEF CrateJsonDone, CrateJsonAtStage, CrateJson!Batch
  <1>7. copy[t][r] = "none"
    BY <1>1, <1>2, <1>6
   
    DEF CrateJsonAtStage, CrateJson!CanInsert, CrateJson!Applied,
        CrateJson!insert_output, CrateJson!mark_spent, CrateJson!Rows
  <1>8. mem' = CrateJson!Applied(copy[t], CrateJsonDone(t)')
    BY <1>1, <1>2, <1>6
   
    DEF CrateJsonAtStage, CrateJson!Applied, CrateJson!insert_output,
        CrateJson!mark_spent, CrateJson!Rows
  <1>9. CrateJsonAtStage(t)'
    BY <1>1, <1>2, <1>4, <1>6, <1>7, <1>8
   
    DEF CrateJsonAtStage, CrateJson!CanInsert, CrateJson!Applied,
        CrateJson!insert_output, CrateJson!mark_spent
  <1> QED BY <1>5, <1>9, CrateJsonOnlyThread

\* A closure that has run all its statements has run its batch.
LEMMA CrateJsonAllDone ==
  ASSUME CrateJsonInv, NEW t \in {Only}, stage[t] = "closure", left[t] = CrateJson!Nothing
  PROVE  /\ mem = CrateJson!Applied(copy[t], asked[t])
         /\ CrateJson!CanInsert(copy[t], asked[t].insert)
         /\ Has(mem, asked[t])
  <1>1. /\ copy[t] \in CrateJson!Rows /\ asked[t] \in CrateJson!Batch
        /\ CrateJsonAtStage(t)
        /\ asked[t].mark \ asked[t].insert = asked[t].mark
    BY DEF CrateJsonInv, CrateJsonTypeOK
  <1>2. CrateJsonDone(t).mark = asked[t].mark /\ CrateJsonDone(t).insert = asked[t].insert
    BY CrateJsonNothingType DEF CrateJsonDone
  <1>3. /\ mem = CrateJson!Applied(copy[t], asked[t])
        /\ CrateJson!CanInsert(copy[t], asked[t].insert)
    BY <1>1, <1>2 DEF CrateJsonAtStage, CrateJson!Applied
  <1> QED BY <1>1, <1>3, CrateJsonAppliedHas DEF Has

LEMMA CrateJsonEndClosureStep ==
  ASSUME CrateJsonInv, NEW t \in {Only}, CrateJson!EndClosure(t)
  PROVE  CrateJsonInv'
  <1>1. /\ stage[t] = "closure" /\ left[t] = CrateJson!Nothing /\ CrateJson!Flushes(t)
        /\ UNCHANGED <<path, mem, file, asked, left, copy>>
    BY DEF CrateJson!EndClosure
  <1>2. Has(mem, asked[t])
    BY <1>1, CrateJsonAllDone
  <1>3. CrateJsonTypeOK'
    BY <1>1
    DEF CrateJsonInv, CrateJsonTypeOK, CrateJson!Flushes, CrateJson!Goto,
        CrateJson!Returns, CrateJson!Stage, CrateJson!Answer
  <1>4. CASE path
    <2>1. stage'[t] = "flush" /\ told'[t] = "pending"
      BY <1>1, <1>4
      DEF CrateJsonInv, CrateJsonTypeOK, CrateJsonAtStage, CrateJson!Flushes,
          CrateJson!Goto
    <2>2. CrateJsonAtStage(t)'
      BY <1>1, <1>2, <1>4, <2>1 DEF CrateJsonAtStage, Has
    <2> QED BY <1>3, <2>2, CrateJsonOnlyThread
  <1>5. CASE ~path
    <2>1. stage'[t] = "rest"
      BY <1>1, <1>5
      DEF CrateJsonInv, CrateJsonTypeOK, CrateJson!Flushes, CrateJson!Returns
    <2>2. CrateJsonAtStage(t)'
      BY <1>1, <1>2, <1>5, <2>1 DEF CrateJsonAtStage, Has
    <2> QED BY <1>3, <2>2, CrateJsonOnlyThread
  <1> QED BY <1>4, <1>5

LEMMA CrateJsonRestoreStep ==
  ASSUME CrateJsonInv, NEW t \in {Only}, CrateJson!Restore(t)
  PROVE  CrateJsonInv'
  <1>1. CrateJsonTypeOK'
    BY CrateJsonNothingType
    DEF CrateJson!Restore, CrateJson!Returns, CrateJsonInv, CrateJsonTypeOK,
        CrateJson!Stage, CrateJson!Answer
  <1>2. /\ stage'[t] = "rest" /\ told'[t] = "error" /\ mem' = copy[t]
        /\ UNCHANGED <<path, file>> /\ (path => file = copy[t])
    BY DEF CrateJson!Restore, CrateJson!Returns, CrateJsonInv, CrateJsonTypeOK,
           CrateJsonAtStage
  <1>3. CrateJsonAtStage(t)'
    BY <1>2 DEF CrateJsonAtStage
  <1> QED BY <1>1, <1>3, CrateJsonOnlyThread

LEMMA CrateJsonFlushStep ==
  ASSUME CrateJsonInv, NEW t \in {Only},
         CrateJson!Encode(t) \/ CrateJson!Open(t) \/ CrateJson!Write(t)
  PROVE  CrateJsonInv'
  <1>1. CASE CrateJson!Encode(t)
    <2>1. CrateJsonTypeOK'
      BY <1>1
      DEF CrateJson!Encode, CrateJson!Goto, CrateJsonInv, CrateJsonTypeOK,
          CrateJson!Stage
    <2>2. /\ stage'[t] = "open" /\ told'[t] = "pending" /\ copy'[t] = mem
          /\ path /\ Has(mem, asked[t]) /\ UNCHANGED <<path, mem, file, asked>>
      BY <1>1
      DEF CrateJson!Encode, CrateJson!Goto, CrateJsonInv, CrateJsonTypeOK,
          CrateJsonAtStage
    <2>3. CrateJsonAtStage(t)'
      BY <2>2 DEF CrateJsonAtStage, Has
    <2> QED BY <2>1, <2>3, CrateJsonOnlyThread
  <1>2. CASE CrateJson!Open(t)
    <2>1. CrateJsonTypeOK'
      BY <1>2
      DEF CrateJson!Open, CrateJson!Goto, CrateJsonInv, CrateJsonTypeOK,
          CrateJson!Stage
    <2>2. /\ stage'[t] = "write" /\ told'[t] = "pending" /\ copy[t] = mem
          /\ path /\ Has(mem, asked[t]) /\ UNCHANGED <<path, mem, asked, copy>>
          /\ file' = CrateJson!Torn
      BY <1>2
      DEF CrateJson!Open, CrateJson!Goto, CrateJsonInv, CrateJsonTypeOK,
          CrateJsonAtStage
    <2>3. CrateJsonAtStage(t)'
      BY <2>2 DEF CrateJsonAtStage, Has, CrateJson!Torn
    <2> QED BY <2>1, <2>3, CrateJsonOnlyThread
  <1>3. CASE CrateJson!Write(t)
    <2>1. /\ stage'[t] = "rest" /\ file' = mem /\ copy[t] = mem
          /\ Has(mem, asked[t]) /\ UNCHANGED <<path, mem, asked, left, copy>>
      BY <1>3
      DEF CrateJson!Write, CrateJson!Returns, CrateJsonInv, CrateJsonTypeOK,
          CrateJsonAtStage
    <2>2. CrateJsonTypeOK'
      BY <1>3, <2>1
      DEF CrateJson!Write, CrateJson!Returns, CrateJsonInv, CrateJsonTypeOK,
          CrateJson!Stage, CrateJson!Answer
    <2>3. CrateJsonAtStage(t)'
      BY <2>1 DEF CrateJsonAtStage, Has
    <2> QED BY <2>2, <2>3, CrateJsonOnlyThread
  <1> QED BY <1>1, <1>2, <1>3

LEMMA CrateJsonCrashStep ==
  ASSUME CrateJsonInv, CrateJson!Crash
  PROVE  CrateJsonInv'
  <1>1. CrateJsonTypeOK'
    BY CrateJsonNothingType
    DEF CrateJson!Crash, CrateJsonInv, CrateJsonTypeOK, CrateJson!Stage,
        CrateJson!Answer
  <1>2. ASSUME NEW t \in {Only} PROVE CrateJsonAtStage(t)'
    BY DEF CrateJson!Crash, CrateJsonAtStage
  <1> QED BY <1>1, <1>2 DEF CrateJsonInv

LEMMA CrateJsonStep ==
  ASSUME CrateJsonInv, [CrateJson!Next]_(CrateJson!vars)
  PROVE  CrateJsonInv'
  <1>1. CASE UNCHANGED CrateJson!vars
    BY <1>1
    DEF CrateJson!vars, CrateJsonInv, CrateJsonTypeOK, CrateJsonAtStage,
        CrateJsonDone, Has, CrateJson!Applied, CrateJson!CanInsert,
       CrateJson!insert_output, CrateJson!mark_spent
  <1>2. ASSUME NEW t \in {Only}, NEW b \in Batches, CrateJson!Call(t, b)
        PROVE  CrateJsonInv'
    BY <1>2, CrateJsonCallStep
  <1>3. ASSUME NEW t \in {Only},
               \/ CrateJson!Statement(t) \/ CrateJson!Begin(t)
               \/ CrateJson!EndClosure(t) \/ CrateJson!Restore(t)
               \/ CrateJson!Encode(t) \/ CrateJson!Open(t) \/ CrateJson!Write(t)
        PROVE  CrateJsonInv'
    BY <1>3, CrateJsonStatementStep, CrateJsonBeginStep, CrateJsonEndClosureStep,
       CrateJsonRestoreStep, CrateJsonFlushStep
  <1>4. ASSUME NEW t \in {Only}, NEW r \in Row,
               CrateJson!MarkSpent(t, r) \/ CrateJson!InsertOutput(t, r)
        PROVE  CrateJsonInv'
    BY <1>4, CrateJsonMarkStep, CrateJsonInsertStep
  <1> QED BY <1>1, <1>2, <1>3, <1>4, CrateJsonCrashStep DEF CrateJson!Next

----------------------------------------------------------------------------
(* The settled state *)

LEMMA CrateJsonSettledState ==
  ASSUME NEW t \in {Only}
  PROVE  CrateJson!Settled = IF stage[t] = "closure" THEN copy[t] ELSE mem
  BY DEF CrateJson!Settled

LEMMA CrateJsonSettledNext ==
  ASSUME NEW t \in {Only}
  PROVE  CrateJson!Settled' = IF stage'[t] = "closure" THEN copy'[t] ELSE mem'
  BY DEF CrateJson!Settled

LEMMA CrateJsonWholeStep ==
  ASSUME CrateJsonInv, [CrateJson!Next]_(CrateJson!vars)
  PROVE  CrateJson!WholeOrNothing
  <1>1. CASE UNCHANGED CrateJson!vars
    BY <1>1 DEF CrateJson!vars, CrateJson!WholeOrNothing, CrateJson!Settled
  <1>2. CASE CrateJson!Crash
    <2>1. \A t \in {Only} : stage'[t] = "rest"
      BY <1>2 DEF CrateJson!Crash
    <2>2. CrateJson!Settled' = file
      BY <1>2, <2>1 DEF CrateJson!Crash, CrateJson!Settled
    <2> QED BY <1>2, <2>2 DEF CrateJson!Crash, CrateJson!WholeOrNothing
  <1>3. ASSUME NEW t \in {Only},
               \/ \E b \in Batches : CrateJson!Call(t, b)
               \/ CrateJson!Begin(t) \/ CrateJson!Restore(t)
               \/ CrateJson!Encode(t) \/ CrateJson!Open(t) \/ CrateJson!Write(t)
               \/ \E r \in Row : CrateJson!MarkSpent(t, r) \/ CrateJson!InsertOutput(t, r)
        PROVE  CrateJson!Settled' = CrateJson!Settled
    <2>1. CrateJson!Settled = IF stage[t] = "closure" THEN copy[t] ELSE mem
      BY CrateJsonSettledState
    <2>2. CrateJson!Settled' = IF stage'[t] = "closure" THEN copy'[t] ELSE mem'
      BY CrateJsonSettledNext
    <2> HIDE DEF CrateJson!Settled
    <2> QED BY <1>3, <2>1, <2>2
       
        DEF CrateJsonInv, CrateJsonTypeOK, CrateJson!Call, CrateJson!Begin,
            CrateJson!Restore, CrateJson!Encode, CrateJson!Open, CrateJson!Write,
            CrateJson!MarkSpent, CrateJson!InsertOutput, CrateJson!Goto, CrateJson!Returns
  <1>4. ASSUME NEW t \in {Only}, CrateJson!Statement(t) PROVE CrateJson!WholeOrNothing
    <2>1. /\ stage[t] = "begun" /\ told[t] = "pending"
          /\ stage'[t] \in {"flush", "rest"}
      BY <1>4
      DEF CrateJson!Statement, CrateJsonInv, CrateJsonTypeOK, CrateJsonAtStage,
          CrateJson!Flushes, CrateJson!Goto, CrateJson!Returns
    <2>2. CrateJson!Settled = mem /\ CrateJson!Settled' = mem'
      BY <2>1, CrateJsonSettledState, CrateJsonSettledNext
    <2>3. CASE CrateJson!CanInsert(mem, asked[t].insert)
      <3>1. mem' = CrateJson!Applied(mem, asked[t]) /\ told'[t] # "error"
        BY <1>4, <2>1, <2>3
       
        DEF CrateJson!Statement, CrateJson!Flushes, CrateJson!Goto,
            CrateJson!Returns, CrateJsonInv, CrateJsonTypeOK
      <3> QED BY <2>2, <2>3, <3>1 DEF CrateJson!WholeOrNothing
    <2>4. CASE ~CrateJson!CanInsert(mem, asked[t].insert)
      BY <1>4, <2>2, <2>4 DEF CrateJson!Statement, CrateJson!WholeOrNothing
    <2> QED BY <2>3, <2>4
  <1>5. ASSUME NEW t \in {Only}, CrateJson!EndClosure(t) PROVE CrateJson!WholeOrNothing
    <2>1. /\ stage[t] = "closure" /\ left[t] = CrateJson!Nothing /\ told[t] = "pending"
          /\ stage'[t] \in {"flush", "rest"} /\ mem' = mem /\ told'[t] # "error"
      BY <1>5
      DEF CrateJson!EndClosure, CrateJsonInv, CrateJsonTypeOK, CrateJsonAtStage,
          CrateJson!Flushes, CrateJson!Goto, CrateJson!Returns
    <2>2. CrateJson!Settled = copy[t] /\ CrateJson!Settled' = mem
      BY <2>1, CrateJsonSettledState, CrateJsonSettledNext
    <2>3. /\ mem = CrateJson!Applied(copy[t], asked[t])
          /\ CrateJson!CanInsert(copy[t], asked[t].insert)
      BY <2>1, CrateJsonAllDone
    <2> QED BY <2>1, <2>2, <2>3 DEF CrateJson!WholeOrNothing
  <1>6. (\E t \in {Only} : CrateJson!Settled' = CrateJson!Settled)
          => CrateJson!WholeOrNothing
    BY DEF CrateJson!WholeOrNothing
  <1> QED BY <1>1, <1>2, <1>3, <1>4, <1>5, <1>6 DEF CrateJson!Next

----------------------------------------------------------------------------
(* The wallet's JSON store, of one thread *)

\* The file holds the state until a call changes it, and the text on its way to
\* the file is the state's.
JsonInv ==
    /\ stage \in [{Only} -> {"rest", "begun", "flush", "open", "write"}]
    /\ DOMAIN text = {Only}
    /\ stage[Only] \in {"rest", "begun"} => file = state
    /\ stage[Only] \in {"open", "write"} => text[Only] = state
    /\ stage[Only] = "write" => file = Json!Torn

LEMMA JsonInit == Json!Init => JsonInv
  BY DEF Json!Init, JsonInv

LEMMA JsonStep ==
  ASSUME JsonInv, [Json!Next]_(Json!vars)
  PROVE  JsonInv'
  <1>1. CASE Json!Crash
    BY <1>1 DEF Json!Crash, JsonInv
  <1>2. ASSUME NEW t \in {Only}, NEW b \in Batches, Json!Call(t, b) PROVE JsonInv'
    BY <1>2 DEF Json!Call, JsonInv
  <1>3. ASSUME NEW t \in {Only}, Json!Mutate(t) PROVE JsonInv'
    BY <1>3 DEF Json!Mutate, Json!Goto, JsonInv
  <1>4. ASSUME NEW t \in {Only}, Json!Drop(t) PROVE JsonInv'
    BY <1>4 DEF Json!Drop, JsonInv
  <1>5. ASSUME NEW t \in {Only}, Json!Encode(t) PROVE JsonInv'
    BY <1>5 DEF Json!Encode, Json!Goto, JsonInv
  <1>6. ASSUME NEW t \in {Only}, Json!Open(t) PROVE JsonInv'
    BY <1>6 DEF Json!Open, Json!Goto, JsonInv, Json!Torn
  <1>7. ASSUME NEW t \in {Only}, Json!Write(t) PROVE JsonInv'
    <2>1. /\ file' = text[Only] /\ text[Only] = state
          /\ stage' = [stage EXCEPT ![Only] = "rest"] /\ UNCHANGED <<state, text>>
      BY <1>7 DEF Json!Write, JsonInv
    <2> QED BY <2>1 DEF JsonInv
  <1>8. CASE UNCHANGED Json!vars
    BY <1>8 DEF Json!vars, JsonInv, Json!Torn
  <1> QED BY <1>1, <1>2, <1>3, <1>4, <1>5, <1>6, <1>7, <1>8 DEF Json!Next

----------------------------------------------------------------------------
(* A page's store: how far along a table is *)

LEMMA RankType ==
  ASSUME NEW x \in Page!Rows, NEW r \in Row
  PROVE  Page!Rank[x[r]] \in 0 .. 2
  BY DEF Page!Rank, Page!Rows, Page!RowState

LEMMA HoldsItself ==
  ASSUME NEW x \in Page!Rows
  PROVE  Page!Holds(x, x)
  BY RankType DEF Page!Holds

LEMMA HoldsThrough ==
  ASSUME NEW x \in Page!Rows, NEW y \in Page!Rows, NEW z \in Page!Rows,
         Page!Holds(x, y), Page!Holds(y, z)
  PROVE  Page!Holds(x, z)
  <1>1. \A r \in Row : /\ Page!Rank[x[r]] \in 0 .. 2 /\ Page!Rank[y[r]] \in 0 .. 2
                       /\ Page!Rank[z[r]] \in 0 .. 2
    BY RankType
  <1> HIDE DEF Page!Rank
  <1> QED BY <1>1 DEF Page!Holds

LEMMA MarkHolds ==
  ASSUME NEW x \in Page!Rows, NEW S
  PROVE  Page!mark_spent(x, S) \in Page!Rows /\ Page!Holds(Page!mark_spent(x, S), x)
  BY DEF Page!mark_spent, Page!Holds, Page!Rank, Page!Rows, Page!RowState

LEMMA AppliedHolds ==
  ASSUME NEW x \in Page!Rows, NEW b \in Batches, Page!CanInsert(x, b.insert)
  PROVE  Page!Applied(x, b) \in Page!Rows /\ Page!Holds(Page!Applied(x, b), x)
  BY DEF Page!Applied, Page!insert_output, Page!mark_spent, Page!CanInsert,
         Page!Holds, Page!Rank, Page!Rows, Page!RowState

----------------------------------------------------------------------------
(* What a page has told *)

PageTypeOK ==
    /\ mem \in Page!Rows /\ file \in Page!Rows
    /\ text \in Seq(Page!Rows)
    /\ copy = {} \/ \E x \in Page!Rows : copy = {x}
    /\ told \in SUBSET Page!Rows

\* Tables only grow: each save holds those before it, memory holds them all, and
\* what is persisted, older than the saves in progress, holds what was told.
PageInv ==
    /\ PageTypeOK
    /\ \A i \in 1 .. Len(text) :
         /\ Page!Holds(mem, text[i])
         /\ \A j \in 1 .. i : Page!Holds(text[i], text[j])
         /\ \A p \in Page!Persisted : Page!Holds(text[i], p)
    /\ \A p \in Page!Persisted : Page!Holds(mem, p)
    /\ Page!AnsweredSaved

LEMMA PersistedType ==
  ASSUME PageTypeOK
  PROVE  Page!Persisted \subseteq Page!Rows
  BY DEF PageTypeOK, Page!Persisted

LEMMA PageInitInv == Page!Init => PageInv
  <1> SUFFICES ASSUME Page!Init PROVE PageInv
    OBVIOUS
  <1>1. PageTypeOK
    BY DEF Page!Init, PageTypeOK
  <1>2. Len(text) = 0 /\ Page!Persisted = {mem}
    BY DEF Page!Init, Page!Persisted
  <1>3. Page!Holds(mem, mem)
    BY <1>1, HoldsItself DEF PageTypeOK
  <1> QED BY <1>1, <1>2, <1>3 DEF PageInv, Page!AnsweredSaved, Page!Init

LEMMA RunStep ==
  ASSUME PageInv, NEW b \in Batches, Page!Run(b)
  PROVE  PageInv'
  <1>1. mem' \in Page!Rows /\ Page!Holds(mem', mem)
    BY AppliedHolds, MarkHolds DEF Page!Run, PageInv, PageTypeOK
  <1>2. UNCHANGED <<file, text, copy, told>>
    BY DEF Page!Run
  <1>3. mem \in Page!Rows /\ Page!Persisted \subseteq Page!Rows
        /\ \A i \in 1 .. Len(text) : text[i] \in Page!Rows
    BY PersistedType DEF PageInv, PageTypeOK
  <1>4. \A i \in 1 .. Len(text) : Page!Holds(mem', text[i])
    BY <1>1, <1>3, HoldsThrough DEF PageInv
  <1>5. \A p \in Page!Persisted : Page!Holds(mem', p)
    BY <1>1, <1>3, HoldsThrough DEF PageInv
  <1>6. PageTypeOK'
    BY <1>1, <1>2 DEF PageInv, PageTypeOK
  <1> QED BY <1>2, <1>4, <1>5, <1>6
      DEF PageInv, Page!AnsweredSaved, Page!Persisted, Page!Holds

LEMMA SaveStep ==
  ASSUME PageInv, Page!Save
  PROVE  PageInv'
  <1>1. /\ text' = Append(text, mem)
        /\ UNCHANGED <<mem, file, copy, told>>
    BY DEF Page!Save
  <1>2. PageTypeOK
    BY DEF PageInv
  <1>3. /\ Len(text) \in Nat /\ Len(text') = Len(text) + 1
        /\ text'[Len(text) + 1] = mem
        /\ \A i \in 1 .. Len(text) : text'[i] = text[i]
    BY <1>1, <1>2 DEF PageTypeOK
  <1>4. PageTypeOK'
    BY <1>1, <1>2 DEF PageTypeOK
  <1>5. Page!Holds(mem, mem)
    BY <1>2, HoldsItself DEF PageTypeOK
  <1>6. ASSUME NEW i \in 1 .. Len(text')
        PROVE  /\ Page!Holds(mem, text'[i])
               /\ \A j \in 1 .. i : Page!Holds(text'[i], text'[j])
               /\ \A p \in Page!Persisted : Page!Holds(text'[i], p)
    <2>1. CASE i = Len(text) + 1
      BY <1>3, <1>5, <2>1 DEF PageInv
    <2>2. CASE i \in 1 .. Len(text)
      BY <1>3, <2>2 DEF PageInv
    <2> QED BY <1>3, <2>1, <2>2
  <1> QED BY <1>1, <1>4, <1>6 DEF PageInv, Page!AnsweredSaved, Page!Persisted, Page!Holds

\* What is left of the saves when the first is through.
LEMMA TailSaves ==
  ASSUME PageInv, text # <<>>, text' = Tail(text)
  PROVE  /\ Head(text) = text[1] /\ text[1] \in Page!Rows /\ 1 \in 1 .. Len(text)
         /\ text' \in Seq(Page!Rows)
         /\ \A i \in 1 .. Len(text') :
              text'[i] = text[i + 1] /\ i + 1 \in 1 .. Len(text)
  BY DEF PageInv, PageTypeOK

LEMMA PutStep ==
  ASSUME PageInv, Page!Put
  PROVE  PageInv'
  <1>1. /\ text # <<>> /\ copy = {} /\ text' = Tail(text)
        /\ copy' = {Head(text)} /\ told' = told \cup {Head(text)}
        /\ UNCHANGED <<mem, file>>
    BY DEF Page!Put
  <1>2. /\ Head(text) = text[1] /\ text[1] \in Page!Rows /\ 1 \in 1 .. Len(text)
        /\ text' \in Seq(Page!Rows)
        /\ \A i \in 1 .. Len(text') :
             text'[i] = text[i + 1] /\ i + 1 \in 1 .. Len(text)
    BY <1>1, TailSaves
  <1>3. Page!Persisted = {file} /\ Page!Persisted' = {text[1]}
    BY <1>1, <1>2 DEF Page!Persisted
  <1>4. PageTypeOK'
    BY <1>1, <1>2 DEF PageInv, PageTypeOK
  <1>5. ASSUME NEW i \in 1 .. Len(text')
        PROVE  /\ Page!Holds(mem, text'[i])
               /\ \A j \in 1 .. i : Page!Holds(text'[i], text'[j])
               /\ Page!Holds(text'[i], text[1])
    <2>1. text'[i] = text[i + 1] /\ i + 1 \in 1 .. Len(text) /\ 1 \in 1 .. i + 1
      BY <1>2
    <2>2. \A j \in 1 .. i : text'[j] = text[j + 1] /\ j + 1 \in 1 .. i + 1
      BY <1>2
    <2> QED BY <2>1, <2>2 DEF PageInv
  <1>6. Page!Holds(mem, text[1]) /\ Page!Holds(text[1], file)
    BY <1>2, <1>3 DEF PageInv
  <1>7. \A s \in told : Page!Holds(text[1], s)
    <2>1. \A s \in told : s \in Page!Rows /\ Page!Holds(file, s)
      BY <1>3 DEF PageInv, PageTypeOK, Page!AnsweredSaved
    <2>2. file \in Page!Rows
      BY DEF PageInv, PageTypeOK
    <2> QED BY <1>2, <1>6, <2>1, <2>2, HoldsThrough
  <1>8. Page!Holds(text[1], text[1])
    BY <1>2, HoldsItself
  <1>9. \A s \in told' : Page!Holds(text[1], s)
    BY <1>1, <1>2, <1>7, <1>8
  <1> QED BY <1>1, <1>3, <1>4, <1>5, <1>6, <1>9
      DEF PageInv, Page!AnsweredSaved, Page!Holds

LEMMA PutFailsStep ==
  ASSUME PageInv, Page!PutFails
  PROVE  PageInv'
  <1>1. /\ text # <<>> /\ text' = Tail(text)
        /\ UNCHANGED <<mem, file, copy, told>>
    BY DEF Page!PutFails
  <1>2. /\ text' \in Seq(Page!Rows)
        /\ \A i \in 1 .. Len(text') :
             text'[i] = text[i + 1] /\ i + 1 \in 1 .. Len(text)
    BY <1>1, TailSaves
  <1>3. PageTypeOK'
    BY <1>1, <1>2 DEF PageInv, PageTypeOK
  <1>4. ASSUME NEW i \in 1 .. Len(text')
        PROVE  /\ Page!Holds(mem, text'[i])
               /\ \A j \in 1 .. i : Page!Holds(text'[i], text'[j])
               /\ \A p \in Page!Persisted : Page!Holds(text'[i], p)
    <2>1. \A j \in 1 .. i : text'[j] = text[j + 1] /\ j + 1 \in 1 .. i + 1
      BY <1>2
    <2> QED BY <1>2, <2>1 DEF PageInv
  <1> QED BY <1>1, <1>3, <1>4 DEF PageInv, Page!AnsweredSaved, Page!Persisted, Page!Holds

LEMMA CompleteStep ==
  ASSUME PageInv, Page!Complete
  PROVE  PageInv'
  <1>1. PICK x \in Page!Rows : copy = {x}
    BY DEF Page!Complete, PageInv, PageTypeOK
  <1>2. /\ file' = x /\ copy' = {} /\ UNCHANGED <<mem, text, told>>
    BY <1>1 DEF Page!Complete
  <1>3. Page!Persisted = {x} /\ Page!Persisted' = {x}
    BY <1>1, <1>2 DEF Page!Persisted
  <1>4. PageTypeOK'
    BY <1>2 DEF PageInv, PageTypeOK
  <1> QED BY <1>2, <1>3, <1>4 DEF PageInv, Page!AnsweredSaved, Page!Holds

LEMMA ReloadStep ==
  ASSUME PageInv, Page!Reload
  PROVE  PageInv'
  <1>1. /\ mem' = file /\ file' = file /\ text' = <<>>
        /\ copy' = {} /\ told' = {}
    BY DEF Page!Reload
  <1>2. PageTypeOK'
    BY <1>1 DEF PageInv, PageTypeOK
  <1>3. Page!Persisted' = {file} /\ Len(text') = 0
    BY <1>1 DEF Page!Persisted
  <1>4. Page!Holds(file, file)
    BY HoldsItself DEF PageInv, PageTypeOK
  <1> QED BY <1>1, <1>2, <1>3, <1>4 DEF PageInv, Page!AnsweredSaved, Page!Holds

LEMMA PageStep == PageInv /\ [Page!Next]_(Page!vars) => PageInv'
  <1> SUFFICES ASSUME PageInv, [Page!Next]_(Page!vars) PROVE PageInv'
    OBVIOUS
  <1>1. ASSUME NEW b \in Batches, Page!Run(b) PROVE PageInv'
    BY <1>1, RunStep
  <1>2. CASE Page!Save \/ Page!Put \/ Page!PutFails \/ Page!Complete \/ Page!Reload
    BY <1>2, SaveStep, PutStep, PutFailsStep, CompleteStep, ReloadStep
  <1>3. CASE UNCHANGED Page!vars
    BY <1>3
    DEF Page!vars, PageInv, PageTypeOK, Page!AnsweredSaved, Page!Persisted,
        Page!Holds
  <1> QED BY <1>1, <1>2, <1>3 DEF Page!Next

----------------------------------------------------------------------------
(* Theorems *)

\* What a wallet's store does is a step of its kind, and leaves the others alone.
LEMMA KindStep ==
  ASSUME [StoresNext]_storesVars
  PROVE  /\ kind' = kind
         /\ kind = "sqlite" => [Next]_vars
         /\ kind = "crate_sqlite" => CrateSqlite!Next \/ UNCHANGED <<vars, path>>
         /\ kind = "crate_json" => [CrateJson!Next]_(CrateJson!vars)
         /\ kind = "json" => [Json!Next]_(Json!vars)
         /\ kind = "page" => [Page!Next]_(Page!vars)
         /\ kind \notin {"sqlite", "crate_sqlite"} => UNCHANGED vars
  <1>1. CASE UNCHANGED storesVars
    BY <1>1 DEF storesVars, vars, crateVars, walletVars, fileVars, CrateJson!vars,
                Json!vars, Page!vars
  <1>2. CASE StoresNext
    BY <1>2 DEF StoresNext
  <1> QED BY <1>1, <1>2

\* One transaction is open at a time, and what it sees is the committed table
\* with its own statements applied: in the wallet's SQLite store whatever its
\* threads do, in the storage crate's if they make no single call meanwhile.
THEOREM IsolatedAlways ==
  ASSUME "crate_sqlite" \in Kinds => Apart
  PROVE  StoresSpec => []IInv
  <1> DEFINE Inv == /\ IInv /\ kind \in Kinds
                    /\ kind = "crate_sqlite" => CrateSqliteInv
  <1>1. StoresInit => Inv
    <2>1. NoSqlite => Init
      BY DEF NoSqlite
    <2> QED BY <2>1, InvInit, CrateSqliteInit DEF StoresInit, CrateSqliteInv
  <1>2. Inv /\ [StoresNext]_storesVars => Inv'
    <2> SUFFICES ASSUME Inv, [StoresNext]_storesVars PROVE Inv'
      OBVIOUS
    <2>1. kind' = kind
      BY KindStep
    <2>2. CASE UNCHANGED vars /\ (kind = "crate_sqlite" => UNCHANGED path)
      <3>1. IInv'
        BY <2>2, InvStep
      <3>2. kind = "crate_sqlite" => CrateSqliteInv'
        BY <2>2, <3>1 DEF vars, CrateSqliteInv
      <3> QED BY <2>1, <3>1, <3>2
    <2>3. CASE kind = "sqlite"
      BY <2>1, <2>3, KindStep, InvStep
    <2>4. CASE kind = "crate_sqlite" /\ CrateSqlite!Next
      <3>1. CrateSqliteInv'
        BY <2>4, CrateSqliteStep
      <3> QED BY <2>1, <3>1 DEF CrateSqliteInv
    <2> QED BY <2>2, <2>3, <2>4, KindStep
  <1> QED BY <1>1, <1>2, PTL DEF StoresSpec

\* Both SQLite stores implement TxStore: a call is atomic among threads and
\* against a stopped process, and an answered one is never taken back; the
\* storage crate's for threads that make no single call while a transaction is
\* open.
THEOREM SqliteIsTransactional ==
  ASSUME "crate_sqlite" \in Kinds => Apart
  PROVE  StoresSpec => TxSpec
  <1> DEFINE Inv == /\ IInv /\ kind \in Kinds
                    /\ kind = "crate_sqlite" => CrateSqliteInv
  <1>1. StoresInit => Inv /\ Tx!Init
    <2>1. NoSqlite => Init
      BY DEF NoSqlite
    <2> QED BY <2>1, InvInit, RefineInit, CrateSqliteInit DEF StoresInit, CrateSqliteInv
  <1>2. Inv /\ [StoresNext]_storesVars => Inv' /\ [Tx!Next]_<<rows, call, answer>>
    <2> SUFFICES ASSUME Inv, [StoresNext]_storesVars
                 PROVE  Inv' /\ [Tx!Next]_<<rows, call, answer>>
      OBVIOUS
    <2>1. kind' = kind
      BY KindStep
    <2>2. CASE UNCHANGED vars /\ (kind = "crate_sqlite" => UNCHANGED path)
      <3>1. IInv'
        BY <2>2, InvStep
      <3>2. kind = "crate_sqlite" => CrateSqliteInv'
        BY <2>2, <3>1 DEF vars, CrateSqliteInv
      <3> QED BY <2>1, <2>2, <3>1, <3>2 DEF vars
    <2>3. CASE kind = "sqlite"
      BY <2>1, <2>3, KindStep, InvStep, RefineStep
    <2>4. CASE kind = "crate_sqlite" /\ CrateSqlite!Next
      <3>1. CrateSqliteInv' /\ [Tx!Next]_<<rows, call, answer>>
        BY <2>4, CrateSqliteStep
      <3> QED BY <2>1, <3>1 DEF CrateSqliteInv
    <2> QED BY <2>2, <2>3, <2>4, KindStep
  <1> QED BY <1>1, <1>2, PTL DEF StoresSpec, TxSpec, Tx!Spec

LEMMA CrateJsonKept ==
  /\ StoresInit => (kind = "crate_json" => CrateJsonInv)
  /\ (kind = "crate_json" => CrateJsonInv) /\ [StoresNext]_storesVars
       => (kind = "crate_json" => CrateJsonInv)'
  <1>1. StoresInit => (kind = "crate_json" => CrateJsonInv)
    BY CrateJsonInit DEF StoresInit
  <1>2. ASSUME kind = "crate_json" => CrateJsonInv, [StoresNext]_storesVars,
               kind' = "crate_json"
        PROVE  CrateJsonInv'
    BY <1>2, KindStep, CrateJsonStep
  <1> QED BY <1>1, <1>2

\* What the storage crate's JSON store has answered its thread is in the file.
THEOREM AnsweredOnDiskAlways == StoresSpec => []AnsweredOnDisk
  <1> DEFINE Inv == kind = "crate_json" => CrateJsonInv
  <1>1. Inv => AnsweredOnDisk
    BY DEF CrateJsonInv, CrateJsonAtStage, AnsweredOnDisk, CrateJson!AnsweredOnDisk, Has
  <1>2. StoresInit => Inv
    BY CrateJsonKept
  <1>3. Inv /\ [StoresNext]_storesVars => Inv'
    BY CrateJsonKept
  <1> QED BY <1>1, <1>2, <1>3, PTL DEF StoresSpec

\* The storage crate's memory and JSON stores take a call of their thread whole
\* or not at all, and hold after a stopped process what was in the file.
THEOREM WholeOrNothingAlways == StoresSpec => AllOrNothing
  <1> DEFINE Inv == kind = "crate_json" => CrateJsonInv
  <1>1. StoresInit => Inv
    BY CrateJsonKept
  <1>2. Inv /\ [StoresNext]_storesVars => Inv'
    BY CrateJsonKept
  <1>3. Inv /\ [StoresNext]_storesVars =>
          [kind = "crate_json" => CrateJson!WholeOrNothing]_<<kind, crateVars, fileVars>>
    BY KindStep, CrateJsonWholeStep
  <1> QED BY <1>1, <1>2, <1>3, PTL DEF StoresSpec, AllOrNothing

\* Between the calls of its thread, the wallet's JSON store has its state in the
\* file, whatever closure fails and wherever the process stops.
THEOREM FlushedAtRestAlways == StoresSpec => []FlushedAtRest
  <1> DEFINE Inv == kind = "json" => JsonInv
  <1>1. Inv => FlushedAtRest
    BY DEF JsonInv, FlushedAtRest, Json!FlushedAtRest
  <1>2. StoresInit => Inv
    BY JsonInit DEF StoresInit
  <1>3. Inv /\ [StoresNext]_storesVars => Inv'
    BY KindStep, JsonStep
  <1> QED BY <1>1, <1>2, <1>3, PTL DEF StoresSpec

\* A page that is loaded again finds every row, and every spent row spent, that
\* was in memory when a save was called that has been answered since.
THEOREM AnsweredSavedAlways == StoresSpec => []AnsweredSaved
  <1> DEFINE Inv == kind = "page" => PageInv
  <1>1. Inv => AnsweredSaved
    BY DEF PageInv, AnsweredSaved
  <1>2. StoresInit => Inv
    BY PageInitInv DEF StoresInit
  <1>3. Inv /\ [StoresNext]_storesVars => Inv'
    BY KindStep, PageStep
  <1> QED BY <1>1, <1>2, <1>3, PTL DEF StoresSpec
=============================================================================
