---------------------------- MODULE BackupProofs ----------------------------
(***************************************************************************)
(* Proofs that restoring a file, however old, into a wallet of the same    *)
(* seed, at any moment, burns no depth, so that a recover() afterwards     *)
(* still gets to all the money.  They extend the invariant of WalletProofs *)
(* by the depths the files hold.                                           *)
(***************************************************************************)
EXTENDS WalletProofs, Backup, FiniteSetTheorems

\* The server's knowledge only grows, so an old file stays covered.
KnowledgeGrows == \A s \in Secret : Known(s) => Known(s)'

LEMMA BlankType == Blank \in File /\ NoExport \in Export
  <1>1. NoCoins \in Coins
    BY MaxAmountAssumption DEF NoCoins, Coins, Amount
  <1> QED BY <1>1 DEF Blank, NoExport, File, Export, Format

LEMMA BlankCovered == \A c \in Chain : Prefix(c, Blank.depth[c])
  BY MaxDepthAssumption DEF Blank, Prefix, Depth

LEMMA FilesKept ==
  ASSUME BackupInv, KnowledgeGrows,
         export' = export \/ export' = NoExport, backup' = backup
  PROVE  (BackupTypeOK /\ FilesCovered)'
  <1>1. BackupTypeOK'
    BY BlankType DEF BackupInv, BackupTypeOK
  <1>2. \A c \in Chain : \A n : Prefix(c, n) => Prefix(c, n)'
    BY DerivedSecret DEF Prefix, KnowledgeGrows
  <1>3. \A c \in Chain : Prefix(c, NoExport.file.depth[c])
    BY BlankCovered DEF NoExport
  <1> QED BY <1>1, <1>2, <1>3 DEF BackupInv, FilesCovered

----------------------------------------------------------------------------
(* The calls of Wallet *)

LEMMA StepKnows ==
  ASSUME CoverInv, [Next]_vars
  PROVE  KnowledgeGrows
  <1>1. ASSUME NEW req \in Request, Replaceable(req), Replace(req)
        PROVE  KnowledgeGrows
    BY <1>1, ReplaceGrows DEF KnowledgeGrows, CoverInv
  <1>2. ASSUME srv' = srv PROVE KnowledgeGrows
    BY <1>2 DEF KnowledgeGrows, Known
  <1>3. ASSUME NEW t \in Task, Advance(t) PROVE KnowledgeGrows
    <2>1. CASE ServerReplaces(t)
      BY <2>1, <1>1, RequestCovered DEF ServerReplaces
    <2>2. CASE ~ServerReplaces(t)
      <3>1. srv' = srv
        BY <1>3, <2>2 DEF Advance, ServerRefuses, InsertValidate, InsertStore,
           InsertSetDepth, InsertFallback, InsertDirect, PaySend, PayCommit,
           MergeSend, MergeCommit, Send, PastBounds, RecoverScan, RecoverStore,
           RecoverStored, RecoverReadDepth, RecoverSetDepth
      <3> QED BY <3>1, <1>2
    <2> QED BY <2>1, <2>2
  <1>4. ASSUME NEW t \in Task, Call(t) PROVE srv' = srv
    BY <1>4 DEF Call, InsertBegin, PayBegin, MergeBegin, RecoverBegin, Begin
  <1>5. ASSUME NEW req \in late, LateReplace(req) PROVE KnowledgeGrows
    <2>1. req \in Request
      BY DEF CoverInv, TypeOK
    <2> QED BY <2>1, <1>1, <1>2, <1>5 DEF LateReplace, ledgerVars
  <1>6. ASSUME NEW s \in Foreign \cup paid, OthersSpend(s) PROVE KnowledgeGrows
    BY <1>6 DEF OthersSpend, SpentElsewhere, KnowledgeGrows, Known, CoverInv,
       TypeOK
  <1>7. CASE (\E t \in Task : GiveUp(t)) \/ Crash \/ UNCHANGED vars
    BY <1>7, <1>2 DEF GiveUp, Crash, vars
  <1> QED BY <1>2, <1>3, <1>4, <1>5, <1>6, <1>7 DEF Next, Progress

----------------------------------------------------------------------------
(* Export *)

LEMMA ReadPartType ==
  ASSUME TypeOK, NEW file \in File, NEW part \in {"outputs", "hashes", "depths"}
  PROVE  /\ ReadPart(file, part) \in File
         /\ ReadPart(file, part).depth \in {file.depth, store.depth}
  <1>1. store.amt \in Coins /\ OutputsFor(file.format) \in Coins
    BY CoinsOfType DEF TypeOK, Store, OutputsFor, Coins
  <1>2. CASE part = "outputs"
    BY <1>1, <1>2 DEF ReadPart, File
  <1>3. CASE part = "hashes"
    BY <1>3 DEF ReadPart, File, TypeOK, Store
  <1>4. CASE part = "depths"
    BY <1>4 DEF ReadPart, File, TypeOK, Store
  <1> QED BY <1>2, <1>3, <1>4

LEMMA ExportReadStep ==
  ASSUME BackupInv, ExportRead
  PROVE  (BackupTypeOK /\ FilesCovered)'
  <1> DEFINE file == export.file
             order == ReadOrder[file.format]
             part == order[export.next]
  <1>1. file \in File /\ export.next \in Nat
    BY DEF BackupInv, BackupTypeOK, Export
  <1>2. export.next \in DOMAIN order
    BY DEF ExportRead
  <1>3. part \in {"outputs", "hashes", "depths"}
    BY <1>1, <1>2 DEF ReadOrder, File, Format
  <1>4. /\ ReadPart(file, part) \in File
        /\ ReadPart(file, part).depth \in {file.depth, store.depth}
    BY <1>1, <1>3, ReadPartType DEF BackupInv, CoverInv
  <1>5. /\ export'.next = export.next + 1
        /\ export'.file = ReadPart(file, part)
        /\ export'.ahead \in {AheadNow, export.ahead}
        /\ export' = [next |-> export'.next, file |-> export'.file,
                      ahead |-> export'.ahead]
        /\ backup' = backup /\ UNCHANGED vars
    BY DEF ExportRead
  <1>6. AheadNow \subseteq Secret /\ export.ahead \subseteq Secret
    BY DEF AheadNow, Ahead, Listed, BackupInv, BackupTypeOK, Export
  <1>7. BackupTypeOK'
    BY <1>1, <1>4, <1>5, <1>6 DEF BackupTypeOK, Export, BackupInv
  <1>8. \A c \in Chain : \A n : Prefix(c, n) => Prefix(c, n)'
    BY <1>5 DEF Prefix, Known, vars
  <1>9. \A c \in Chain : Prefix(c, store.depth[c])
    BY DEF BackupInv, CoverInv, ChainsContiguous, Prefix
  <1> HIDE DEF part
  <1> QED BY <1>4, <1>5, <1>7, <1>8, <1>9 DEF BackupInv, FilesCovered

LEMMA ExportStep ==
  ASSUME BackupInv,
         \/ \E format \in Format : ExportBegin(format)
         \/ ExportRead
         \/ ExportEnd
  PROVE  BackupInv'
  <1>1. UNCHANGED vars
    BY DEF ExportBegin, ExportRead, ExportEnd
  <1>2. CoverInv'
    BY <1>1, CoverStep DEF BackupInv
  <1>3. ASSUME NEW format \in Format, ExportBegin(format)
        PROVE  (BackupTypeOK /\ FilesCovered)'
    <2> DEFINE e == [NoExport EXCEPT !.next = 1, !.file.format = format]
    <2>1. e \in Export /\ e.file.depth = Blank.depth
      BY BlankType DEF Export, File, NoExport
    <2>2. export' = e /\ backup' = backup
      BY <1>3 DEF ExportBegin
    <2> HIDE DEF e
    <2>3. \A c \in Chain : \A n : Prefix(c, n) => Prefix(c, n)'
      BY <1>1 DEF Prefix, Known, vars
    <2> QED BY <2>1, <2>2, <2>3, BlankCovered
        DEF BackupInv, BackupTypeOK, FilesCovered
  <1>4. CASE ExportEnd
    <2>1. export' = NoExport /\ backup' \in {backup, export.file}
      BY <1>4 DEF ExportEnd
    <2>2. \A c \in Chain : \A n : Prefix(c, n) => Prefix(c, n)'
      BY <1>1 DEF Prefix, Known, vars
    <2>3. \A c \in Chain : Prefix(c, NoExport.file.depth[c])
      BY BlankCovered DEF NoExport
    <2> QED BY <1>2, <2>1, <2>2, <2>3, BlankType
        DEF BackupInv, BackupTypeOK, FilesCovered, Export
  <1> QED BY <1>2, <1>3, <1>4, ExportReadStep DEF BackupInv

----------------------------------------------------------------------------
(* Import *)

LEMMA RestoredType ==
  ASSUME NEW file \in File, NEW depth \in [Chain -> Nat]
  PROVE  Restored(file, depth) \in Store /\ Restored(file, depth).depth = depth
  BY DEF Restored, Store, File, Coins, RowState

LEMMA ForgottenCovered ==
  ASSUME CoverInv
  PROVE  /\ Forgotten \in [Task -> Locals]
         /\ \A t \in Task : Covered(Forgotten[t])
  BY IdleType, IdleCovered DEF Forgotten, CoverInv, TypeOK, CallsCovered

\* Any covered depths may take the place of the recorded ones.
LEMMA RestoreStep ==
  ASSUME BackupInv, NEW depth \in [Chain -> Nat],
         \A c \in Chain : Prefix(c, depth[c]),
         store' = Restored(backup, depth), task' = Forgotten,
         UNCHANGED <<srv, worth, late, paid, export, backup>>
  PROVE  BackupInv'
  <1>1. store' \in Store /\ store'.depth = depth
    BY RestoredType DEF BackupInv, BackupTypeOK
  <1>2. KnowledgeGrows
    BY DEF KnowledgeGrows, Known
  <1>3. TypeOK'
    BY <1>1, ForgottenCovered DEF BackupInv, CoverInv, TypeOK
  <1>4. ChainsContiguous'
    BY <1>1 DEF BackupInv, CoverInv, ChainsContiguous, Prefix, Known
  <1>5. CallsCovered'
    <2>1. ASSUME NEW t \in Task PROVE Covered(task[t])'
      <3>1. PICK l \in Locals : l = task'[t] /\ Covered(l)
        BY ForgottenCovered DEF BackupInv
      <3>2. Covered(l)'
        BY <3>1, <1>2, CoveredGrows DEF KnowledgeGrows
      <3> QED BY <3>1, <3>2 DEF Covered
    <2> QED BY <2>1 DEF CallsCovered
  <1>6. LateCovered'
    BY <1>2, LateGrows DEF BackupInv, CoverInv, KnowledgeGrows
  <1>7. KnownWorth'
    BY DEF BackupInv, CoverInv, KnownWorth, Known
  <1>8. (BackupTypeOK /\ FilesCovered)'
    BY <1>2, FilesKept
  <1> QED BY <1>3, <1>4, <1>5, <1>6, <1>7, <1>8 DEF BackupInv, CoverInv

LEMMA ImportStep ==
  ASSUME BackupInv, ImportSnapshot \/ ImportData
  PROVE  BackupInv'
  <1>1. ASSUME NEW kept \in Target
        PROVE  /\ kept \in [Chain -> Nat]
               /\ \A c \in Chain : Prefix(c, kept[c])
    BY <1>1, MaxDepthAssumption
    DEF Target, BackupInv, CoverInv, TypeOK, Store, ChainsContiguous, Prefix, Depth
  <1>2. ASSUME NEW kept \in Target
        PROVE  /\ DepthAfter(backup, kept) \in [Chain -> Nat]
               /\ \A c \in Chain : Prefix(c, DepthAfter(backup, kept)[c])
    BY <1>1, <1>2 DEF DepthAfter, BackupInv, BackupTypeOK, File, FilesCovered
  <1>3. CASE ImportSnapshot
    BY <1>2, <1>3, RestoreStep DEF ImportSnapshot
  <1>4. CASE ImportData
    BY <1>1, <1>4, RestoreStep DEF ImportData
  <1> QED BY <1>3, <1>4

----------------------------------------------------------------------------
LEMMA BackupStep == BackupInv /\ [BackupNext]_backupVars => BackupInv'
  <1> SUFFICES ASSUME BackupInv, [BackupNext]_backupVars PROVE BackupInv'
    OBVIOUS
  <1>1. CASE WalletStep \/ BackupCrash \/ UNCHANGED backupVars
    <2>1. [Next]_vars /\ (export' = export \/ export' = NoExport) /\ backup' = backup
      BY <1>1 DEF WalletStep, BackupCrash, backupVars, Next
    <2>2. CoverInv'
      BY <2>1, CoverStep DEF BackupInv
    <2>3. KnowledgeGrows
      BY <2>1, StepKnows DEF BackupInv
    <2> QED BY <2>1, <2>2, <2>3, FilesKept DEF BackupInv
  <1>2. CASE \/ \E format \in Format : ExportBegin(format)
             \/ ExportRead \/ ExportEnd
    BY <1>2, ExportStep
  <1>3. CASE ImportSnapshot \/ ImportData
    BY <1>3, ImportStep
  <1> QED BY <1>1, <1>2, <1>3 DEF BackupNext

\* Whatever is exported and restored meanwhile, at rest or not: the recorded
\* depths, those of the files, and what calls in progress have read are of
\* secrets the server knows.
THEOREM BackupAlways == BackupSpec => []BackupInv
  <1>1. BackupInit => BackupInv
    BY CoverInit, BlankType, BlankCovered
    DEF BackupInit, BackupInv, BackupTypeOK, FilesCovered, NoExport
  <1> QED BY <1>1, BackupStep, PTL DEF BackupSpec

\* Restoring an old file puts no money out of reach: what the server holds for
\* a secret of the wallet is a spendable row, or a recover() gets to it.
THEOREM RestoreRecoverable == BackupSpec => []Recoverable
  <1>1. BackupInv => Recoverable
    BY ContiguousVisited DEF BackupInv, CoverInv, Recoverable, Known
  <1> QED BY <1>1, BackupAlways, PTL

----------------------------------------------------------------------------
(* A recover() that nothing disturbs                                       *)
(*                                                                         *)
(* One caller, whose abandoned requests do not reach the server later, and *)
(* who restores at rest.  The scan of a chain stops at a window without a  *)
(* used depth, and the chains have no gaps: so it has passed all of them.  *)

OneCaller == OneTask /\ AtRestOnly

Lone == OneCaller /\ MaxLate = 0

LoneInv == BackupInv /\ late = {} /\ RecoverInv

\* A window without a used depth ends its chain: there is none further on.
LEMMA MissEndsChain ==
  ASSUME CoverInv, NEW l \in Locals,
         Hits(l.chain, {d \in Depth : d >= l.from /\ d < l.from + GapLimit}) = {}
  PROVE  \A d \in Depth : Known(<<l.chain, d>>) => d < l.from
  <1> DEFINE window == {d \in Depth : d >= l.from /\ d < l.from + GapLimit}
  <1>1. SUFFICES ASSUME NEW d \in Depth, Known(<<l.chain, d>>), ~(d < l.from)
                 PROVE FALSE
    OBVIOUS
  <1>2. l.from \in Nat /\ d \in Nat /\ GapLimit \in Nat \ {0} /\ l.chain \in Chain
    BY WalletAssumption DEF Locals, Depth
  <1>3. l.from \in 0 .. d /\ l.from \in Depth
    BY <1>1, <1>2, MaxDepthAssumption DEF Depth
  <1>4. Known(<<l.chain, l.from>>)
    BY <1>1, <1>2, <1>3 DEF CoverInv, ChainsContiguous
  <1>5. l.from \in window
    BY <1>2, <1>3
  <1>6. l.from \in Hits(l.chain, window)
    BY <1>2, <1>3, <1>4, <1>5, DerivedSecret DEF Hits, Used
  <1> QED BY <1>6

----------------------------------------------------------------------------
\* With MaxLate = 0 no request outlives its caller.
LEMMA NothingLate ==
  ASSUME Lone, late = {}, NEW requests, NEW x, requests \subseteq {x},
         Abandoned(requests)
  PROVE  late' = {}
  <1>1. late' \in {{}, {x}} /\ Cardinality(late') <= 0
    BY DEF Abandoned, Lone
  <1>2. Cardinality({x}) = 1
    BY FS_Singleton
  <1> QED BY <1>1, <1>2

LEMMA FaultLone ==
  ASSUME Lone, LoneInv, NEW t \in Task, GiveUp(t) \/ Crash
  PROVE  RecoverInv' /\ late' = {}
  <1>1. UNCHANGED <<srv, store>>
    BY DEF GiveUp, Crash
  <1>2. SpentRows'
    BY <1>1, RowsStaySpent DEF LoneInv
  <1>3. late' = {}
    <2>1. CASE GiveUp(t)
      BY <2>1, NothingLate DEF GiveUp, LoneInv
    <2>2. CASE Crash
      <3>1. {RequestOf(u) : u \in {v \in Task : task[v].pc \in Sent}}
              \subseteq {RequestOf(t)}
        BY DEF Lone, OneCaller, OneTask
      <3> QED BY <2>2, <3>1, NothingLate DEF Crash, LoneInv
    <2> QED BY <2>1, <2>2
  <1>4. task \in [Task -> Locals]
    BY DEF LoneInv, BackupInv, CoverInv, TypeOK
  <1>5. task'[t].pc = "idle"
    BY <1>4 DEF GiveUp, Crash, Finish, Idle
  <1>6. \A u \in Task : task'[u].pc \notin Interesting
    BY <1>5 DEF Lone, OneCaller, OneTask, Interesting
  <1> QED BY <1>2, <1>3, <1>6, PlainRecovers DEF Lone, OneCaller

LEMMA SpendLone ==
  ASSUME Lone, LoneInv, NEW s \in Foreign \cup paid, OthersSpend(s)
  PROVE  RecoverInv' /\ late' = {}
  <1>1. TypeOK /\ srv \in [Secret -> Status]
    BY DEF LoneInv, BackupInv, CoverInv, TypeOK
  <1>2. /\ UNCHANGED <<store, task, late>>
        /\ srv[s] = "unspent" /\ srv' = [srv EXCEPT ![s] = "spent"]
    BY DEF OthersSpend, SpentElsewhere
  <1>3. /\ \A x \in Secret : Known(x)' <=> Known(x)
        /\ \A x \in Secret : srv'[x] = "unspent" => srv[x] = "unspent"
        /\ \A x \in Secret : srv[x] = "spent" => srv'[x] = "spent"
    BY <1>1, <1>2 DEF Known
  <1> QED BY <1>1, <1>2, <1>3, OthersRecover DEF LoneInv

LEMMA AdvanceLone ==
  ASSUME Lone, LoneInv, NEW t \in Task, Advance(t)
  PROVE  RecoverInv' /\ late' = {}
  <1>1. OneTask /\ TypeOK /\ KnownWorth /\ RecoverInv /\ late = {}
    BY DEF Lone, OneCaller, LoneInv, BackupInv, CoverInv
  <1>2. ScanEnds
    <2>1. \A u \in Task : task[u] \in Locals
      BY <1>1 DEF TypeOK
    <2> QED BY <2>1, MissEndsChain DEF ScanEnds, LoneInv, BackupInv
  <1>3. late' = late
    BY DEF Advance, ServerReplaces, ServerRefuses, InsertValidate, InsertStore,
       InsertSetDepth, InsertFallback, InsertDirect, PaySend, PayCommit, MergeSend,
       MergeCommit, Send, PastBounds, RecoverScan, RecoverStore, RecoverStored,
       RecoverReadDepth, RecoverSetDepth
  <1>4. RecoverInv'
    BY <1>1, <1>2, PassingRecovers, InsertingRecovers, CommitRecovers,
       ReplacesRecovers, ScanRecovers, FindsRecovers, StoredRecovers, DepthsRecovers
    DEF Advance, KnownWorth
  <1> QED BY <1>1, <1>3, <1>4

LEMMA ImportLone ==
  ASSUME Lone, LoneInv, ImportSnapshot \/ ImportData
  PROVE  RecoverInv' /\ late' = {}
  <1>1. /\ \E depth : store' = Restored(backup, depth)
        /\ task' = Forgotten
        /\ UNCHANGED <<srv, late>>
        /\ AllAtRest
    BY DEF ImportSnapshot, ImportData, Resting, Lone, OneCaller
  <1>2. \A s \in Secret : store'.row[s] # "spent"
    BY <1>1 DEF Restored
  <1>3. SpentRows' /\ late' = {}
    BY <1>1, <1>2 DEF SpentRows, LoneInv
  <1>4. \A t \in Task : task'[t].pc \notin Interesting
    BY <1>1 DEF Forgotten, Idle, AllAtRest, AtRest, Interesting
  <1> QED BY <1>3, <1>4, PlainRecovers DEF Lone, OneCaller

LEMMA LoneStep ==
  ASSUME Lone
  PROVE  LoneInv /\ [BackupNext]_backupVars => LoneInv'
  <1> SUFFICES ASSUME LoneInv, [BackupNext]_backupVars
               PROVE  RecoverInv' /\ late' = {}
    BY BackupStep DEF LoneInv
  <1>1. OneTask /\ TypeOK /\ RecoverInv /\ late = {}
    BY DEF Lone, OneCaller, LoneInv, BackupInv, CoverInv
  <1>2. CASE UNCHANGED vars
    BY <1>1, <1>2, OthersRecover DEF vars, Known
  <1>3. CASE WalletStep
    <2>1. ASSUME NEW t \in Task, Call(t) PROVE RecoverInv' /\ late' = {}
      BY <1>1, <2>1, BeginRecovers
      DEF Call, InsertBegin, PayBegin, MergeBegin, RecoverBegin, Begin
    <2>2. ASSUME NEW t \in Task, GiveUp(t) PROVE RecoverInv' /\ late' = {}
      BY <2>2, FaultLone
    <2>3. ~\E req \in late : LateReplace(req)
      BY <1>1
    <2> QED BY <1>3, <2>1, <2>2, <2>3, AdvanceLone, SpendLone
        DEF WalletStep, Progress
  <1>4. CASE BackupCrash
    <2>1. PICK t \in Task : task[t].pc \notin AtRest
      BY <1>4 DEF BackupCrash, Crash, AllAtRest
    <2> QED BY <1>4, <2>1, FaultLone DEF BackupCrash
  <1>5. CASE ImportSnapshot \/ ImportData
    BY <1>5, ImportLone
  <1> QED BY <1>2, <1>3, <1>4, <1>5
      DEF BackupNext, backupVars, ExportBegin, ExportRead, ExportEnd

\* A recover() is complete: with one caller, none of whose requests arrives
\* after it was abandoned, and who restores at rest, a recover() that has ended
\* leaves every live secret of the wallet spendable in the store and every
\* chain at a secret the server has not seen.  This is so whatever file was
\* restored before it, whatever replies were lost, wherever the process had
\* stopped, and however small the window is.
THEOREM RecoverCompletesAlways ==
  ASSUME Lone
  PROVE  BackupSpec => []RecoverCompletes
  <1>1. BackupInit => LoneInv
    <2> SUFFICES ASSUME BackupInit PROVE LoneInv
      OBVIOUS
    <2>1. BackupInv
      BY CoverInit, BlankType, BlankCovered
      DEF BackupInit, BackupInv, BackupTypeOK, FilesCovered, NoExport
    <2>2. \A s \in Secret : store.row[s] # "spent"
      BY DEF BackupInit, Init
    <2>3. late = {} /\ \A t \in Task : task[t].pc = "idle"
      BY DEF BackupInit, Init, Idle
    <2> QED BY <2>1, <2>2, <2>3
        DEF LoneInv, RecoverInv, SpentRows, Established, ScanEstablished, StoreEstablished,
            DepthsEstablished, EndEstablished, InputsSpent
  <1>2. LoneInv => RecoverCompletes
    BY DEF LoneInv, RecoverInv, Established, EndEstablished, RecoverCompletes, Unused, Live,
       Spendable
  <1> QED BY <1>1, <1>2, LoneStep, PTL DEF BackupSpec

----------------------------------------------------------------------------
(* A snapshot read while the wallet is in use                              *)
(*                                                                         *)
(* Between the outputs and the depths of an export the calls of one caller *)
(* only raise the depths: each writes the successor of one it has read,    *)
(* and nobody else has written since.                                      *)

AtLeastStored(l) ==
    /\ l.pc \in Inserting => l.read["RECEIVE"] >= store.depth["RECEIVE"]
    /\ l.pc \in {"pay_sent", "pay_replaced", "merge_sent", "merge_replaced"} =>
         \A c \in Chain : l.read[c] >= store.depth[c]
    /\ l.pc = "recover_set" => l.used[l.chain] > store.depth[l.chain]

\* What has been read of a snapshot, while the depths are still to come and
\* after them.
ReadAhead ==
    export.file.format = "snapshot" =>
        /\ export.next \in {2, 3} =>
             Ahead(export.file.coins, store.depth) \subseteq export.ahead
        /\ export.next > 3 =>
             Ahead(export.file.coins, export.file.depth) \subseteq export.ahead

SnapshotInv ==
    /\ BackupInv
    /\ \A t \in Task : AtLeastStored(task[t])
    /\ ReadAhead

DepthsRise == \A c \in Chain : store'.depth[c] >= store.depth[c]

Writes(t) ==
    InsertSetDepth(t) \/ PayCommit(t) \/ MergeCommit(t) \/ RecoverSetDepth(t)

\* The writes of depths.
LEMMA WritesRise ==
  ASSUME OneCaller, SnapshotInv, NEW t \in Task, Writes(t)
  PROVE  DepthsRise /\ AtLeastStored(task[t])'
  <1>1. PICK l \in Locals : l = task[t] /\ AtLeastStored(l)
    BY TaskType DEF SnapshotInv, BackupInv
  <1>2. /\ store \in Store /\ store.depth \in [Chain -> Nat]
        /\ task \in [Task -> Locals]
    BY DEF SnapshotInv, BackupInv, CoverInv, TypeOK, Store
  <1>3. /\ \A c \in Chain : l.read[c] \in Nat /\ l.used[c] \in Nat
        /\ "RECEIVE" \in Chain /\ l.chain \in Chain
    BY DEF Locals, Chain
  <1>4. CASE InsertSetDepth(t)
    <2>1. /\ l.pc = "insert_stored"
          /\ store' = set_depth(store, "RECEIVE", l.read["RECEIVE"] + 1)
          /\ Finish(t)
      BY <1>1, <1>4 DEF InsertSetDepth
    <2>2. l.read["RECEIVE"] >= store.depth["RECEIVE"]
      BY <1>1, <2>1 DEF AtLeastStored, Inserting
    <2>3. store'.depth = [store.depth EXCEPT !["RECEIVE"] = l.read["RECEIVE"] + 1]
      BY <1>2, <2>1 DEF set_depth, Store
    <2>4. task'[t].pc = "idle"
      BY <1>2, <2>1 DEF Finish, Idle
    <2> QED BY <1>2, <1>3, <2>2, <2>3, <2>4 DEF DepthsRise, AtLeastStored, Inserting
  <1>5. CASE PayCommit(t) \/ MergeCommit(t)
    <2>1. Commit(t) /\ l.pc \in {"pay_replaced", "merge_replaced"}
      BY <1>1, <1>5 DEF PayCommit, MergeCommit
    <2>2. \A c \in Chain : l.read[c] >= store.depth[c]
      BY <1>1, <2>1 DEF AtLeastStored
    <2>3. Recorded(t).depth = DepthsPast(t, store.depth)
      BY <1>2 DEF Recorded, mark_spent, Store
    <2>4. \A c \in Chain : Recorded(t).depth[c] >= store.depth[c]
      BY <1>1, <1>2, <1>3, <2>2, <2>3 DEF DepthsPast
    <2>5. task'[t].pc = "idle"
      BY <1>2, <2>1 DEF Commit, Finish, Idle
    <2> QED BY <1>2, <2>1, <2>4, <2>5
        DEF Commit, DepthsRise, AtLeastStored, Inserting
  <1>6. CASE RecoverSetDepth(t)
    <2>1. /\ l.pc = "recover_set"
          /\ store' = set_depth(store, l.chain, l.used[l.chain])
          /\ task' = [task EXCEPT ![t] = NextChain(l)]
      BY <1>1, <1>6 DEF RecoverSetDepth
    <2>2. store'.depth = [store.depth EXCEPT ![l.chain] = l.used[l.chain]]
      BY <1>2, <2>1 DEF set_depth, Store
    <2>3. l.used[l.chain] > store.depth[l.chain]
      BY <1>1, <2>1 DEF AtLeastStored
    <2>4. task'[t].pc \in {"recover_depths", "recovered"}
      BY <1>2, <2>1 DEF NextChain, Locals, Idle
    <2> QED BY <1>2, <1>3, <2>2, <2>3, <2>4 DEF DepthsRise, AtLeastStored, Inserting
  <1> QED BY <1>4, <1>5, <1>6 DEF Writes

\* Every other step leaves the depths alone.
LEMMA OthersLeaveDepths ==
  ASSUME SnapshotInv, NEW t \in Task, Advance(t), ~Writes(t)
  PROVE  store'.depth = store.depth
  <1>1. store \in Store
    BY DEF SnapshotInv, BackupInv, CoverInv, TypeOK
  <1>2. \/ UNCHANGED store
        \/ \E s \in Secret : \E a : store' = insert_output(store, s, a)
    <2>1. CASE InsertStore(t) \/ InsertDirect(t) \/ RecoverStore(t)
      BY <2>1 DEF InsertStore, InsertDirect, RecoverStore, store_directly, Listed
    <2>2. CASE ~(InsertStore(t) \/ InsertDirect(t) \/ RecoverStore(t))
      BY <2>2 DEF Writes, Advance, ServerReplaces, ServerRefuses, InsertValidate,
         InsertFallback, PaySend, MergeSend, Send, PastBounds, RecoverScan,
         RecoverStored, RecoverReadDepth
    <2> QED BY <2>1, <2>2
  <1> QED BY <1>1, <1>2 DEF insert_output, Store

\* Where a window leaves the scan.
LEMMA ScanPlace ==
  ASSUME CoverInv, NEW t \in Task, RecoverScan(t)
  PROVE  task'[t].pc \in {"scan", "recover_store"}
  <1>1. task[t] \in Locals /\ task[t].pc = "scan" /\ task \in [Task -> Locals]
    BY TaskType DEF RecoverScan, CoverInv, TypeOK
  <1>2. PICK used, new, hit :
          task' = [task EXCEPT ![t] =
                     ScanOn([task[t] EXCEPT !.used = used, !.new = new], hit)]
    BY DEF RecoverScan
  <1>3. task'[t] = ScanOn([task[t] EXCEPT !.used = used, !.new = new], hit)
    BY <1>1, <1>2
  <1>4. PICK k : k = [task[t] EXCEPT !.used = used, !.new = new]
    OBVIOUS
  <1>5. k.pc = "scan"
    BY <1>1, <1>4 DEF Locals
  <1>6. DOMAIN k = DOMAIN task[t]
    BY <1>4
  <1> QED BY <1>1, <1>3, <1>4, <1>5 DEF ScanOn, Locals

\* A call that goes on keeps what it has read.
LEMMA AdvanceSteady ==
  ASSUME OneCaller, SnapshotInv, NEW t \in Task, Advance(t), ~Writes(t)
  PROVE  AtLeastStored(task[t])'
  <1>1. PICK l \in Locals : l = task[t] /\ AtLeastStored(l)
    BY TaskType DEF SnapshotInv, BackupInv
  <1>2. store'.depth = store.depth
    BY OthersLeaveDepths
  <1>3. task \in [Task -> Locals] /\ store.depth \in [Chain -> Nat]
    BY DEF SnapshotInv, BackupInv, CoverInv, TypeOK, Store
  <1>4. ASSUME task'[t].pc \notin Inserting \cup
                 {"pay_sent", "pay_replaced", "merge_sent", "merge_replaced",
                  "recover_set"}
        PROVE  AtLeastStored(task[t])'
    BY <1>4 DEF AtLeastStored
  <1>5. CASE ServerReplaces(t)
    <2>1. /\ l.pc \in Sent /\ task'[t].pc = NextPC[l.pc] /\ task'[t].read = l.read
      BY <1>1, <1>3, <1>5 DEF ServerReplaces, Goto, Locals
    <2>2. CASE l.pc = "insert_sent"
      BY <1>1, <1>2, <2>1, <2>2 DEF NextPC, AtLeastStored, Inserting
    <2>3. CASE l.pc \in {"pay_sent", "merge_sent"}
      BY <1>1, <1>2, <2>1, <2>3 DEF NextPC, AtLeastStored, Inserting
    <2> QED BY <2>1, <2>2, <2>3 DEF Sent
  <1>6. CASE InsertValidate(t) \/ InsertStore(t)
    <2>1. \/ task'[t].pc = "idle"
          \/ /\ l.pc \in Inserting /\ task'[t].pc \in {"insert_sent", "insert_stored"}
             /\ task'[t].read = l.read
      BY <1>1, <1>3, <1>6
      DEF InsertValidate, InsertStore, Finish, Goto, Idle, Locals, Inserting
    <2> QED BY <1>1, <1>2, <1>4, <2>1 DEF AtLeastStored, Inserting
  <1>7. CASE PaySend(t) \/ MergeSend(t)
    <2>1. PICK pc \in {"pay_sent", "merge_sent"} : \E new : Send(t, pc, new)
      BY <1>7 DEF PaySend, MergeSend
    <2>2. task'[t].pc \in {"pay_sent", "merge_sent"} /\ task'[t].read = store.depth
      BY <1>3, <2>1 DEF Send, Locals
    <2> QED BY <1>2, <1>3, <2>2 DEF AtLeastStored, Inserting
  <1>8. CASE RecoverReadDepth(t)
    <2>1. \/ /\ l.used[l.chain] > store.depth[l.chain]
             /\ task'[t] = [l EXCEPT !.pc = "recover_set"]
          \/ task'[t] = NextChain(l)
      BY <1>1, <1>3, <1>8 DEF RecoverReadDepth
    <2>2. CASE task'[t] = NextChain(l)
      <3>1. task'[t].pc \in {"recover_depths", "recovered"}
        BY <2>2 DEF NextChain, Locals, Idle
      <3> QED BY <1>4, <3>1 DEF Inserting
    <2>3. CASE /\ l.used[l.chain] > store.depth[l.chain]
               /\ task'[t] = [l EXCEPT !.pc = "recover_set"]
      <3>1. /\ task'[t].pc = "recover_set" /\ task'[t].used = l.used
            /\ task'[t].chain = l.chain
        BY <2>3 DEF Locals
      <3> QED BY <1>2, <2>3, <3>1 DEF AtLeastStored, Inserting
    <2> QED BY <2>1, <2>2, <2>3
  <1>9. CASE RecoverScan(t)
    <2>1. task'[t].pc \in {"scan", "recover_store"}
      BY <1>9, ScanPlace DEF SnapshotInv, BackupInv
    <2> QED BY <1>4, <2>1 DEF Inserting
  <1>10. CASE \/ ServerRefuses(t) \/ InsertFallback(t) \/ InsertDirect(t)
              \/ PastBounds(t) \/ RecoverStore(t) \/ RecoverStored(t)
    <2>1. task'[t].pc \in {"idle", "insert_fallback", "insert_direct",
                           "recover_store", "recover_depths"}
      BY <1>1, <1>3, <1>10
      DEF ServerRefuses, InsertFallback, InsertDirect, PastBounds, RecoverStore,
          RecoverStored, Finish, Goto, Idle, Locals
    <2> QED BY <1>4, <2>1 DEF Inserting
  <1> QED BY <1>5, <1>6, <1>7, <1>8, <1>9, <1>10 DEF Advance, Writes

LEMMA SteadyTask ==
  ASSUME OneCaller, NEW t \in Task, AtLeastStored(task[t])'
  PROVE  \A u \in Task : AtLeastStored(task[u])'
  BY DEF OneCaller, OneTask

\* The depths have not gone down, and the export is where it was.
LEMMA ReadAheadKept ==
  ASSUME SnapshotInv, DepthsRise, BackupInv', export' = export
  PROVE  ReadAhead'
  <1>1. /\ store.depth \in [Chain -> Nat]
        /\ store'.depth \in [Chain -> Nat]
    BY DEF SnapshotInv, BackupInv, CoverInv, TypeOK, Store
  <1>2. Ahead(export.file.coins, store'.depth) \subseteq
          Ahead(export.file.coins, store.depth)
    BY <1>1 DEF Ahead, DepthsRise, Derived, Depth
  <1> HIDE DEF Ahead
  <1> QED BY <1>2 DEF SnapshotInv, ReadAhead

LEMMA CallSteady ==
  ASSUME OneCaller, SnapshotInv, NEW t \in Task, Call(t)
  PROVE  store' = store /\ AtLeastStored(task[t])'
  <1>1. store' = store
    BY DEF Call, InsertBegin, PayBegin, MergeBegin, RecoverBegin, Begin
  <1>2. task \in [Task -> Locals] /\ store.depth \in [Chain -> Nat]
    BY DEF SnapshotInv, BackupInv, CoverInv, TypeOK, Store
  <1>3. ASSUME NEW s, NEW v, InsertBegin(t, s, v) PROVE AtLeastStored(task[t])'
    <2>1. task'[t].pc \in {"insert_validate", "insert_sent"}
      BY <1>2, <1>3 DEF InsertBegin, Idle
    <2>2. task'[t].read["RECEIVE"] = store.depth["RECEIVE"]
      <3>1. task'[t].read =
              [Idle.read EXCEPT !["RECEIVE"] = store.depth["RECEIVE"]]
        BY <1>2, <1>3 DEF InsertBegin, Idle
      <3> QED BY <3>1 DEF Idle, Chain
    <2>3. store.depth["RECEIVE"] \in Nat
      BY <1>2 DEF Chain
    <2> QED BY <1>1, <2>1, <2>2, <2>3 DEF AtLeastStored
  <1>4. CASE (\E a \in Amount \ {0} : PayBegin(t, a)) \/ MergeBegin(t) \/ RecoverBegin(t)
    <2>1. task'[t].pc \in {"pay_selected", "merge_selected", "scan"}
      <3>1. ASSUME NEW a, PayBegin(t, a) PROVE task'[t].pc = "pay_selected"
        BY <1>2, <3>1 DEF PayBegin, Idle
      <3>2. CASE MergeBegin(t)
        BY <1>2, <3>2 DEF MergeBegin, Idle
      <3>3. CASE RecoverBegin(t)
        BY <1>2, <3>3 DEF RecoverBegin, Idle
      <3> QED BY <1>4, <3>1, <3>2, <3>3
    <2>2. task'[t].pc \notin Inserting \cup
            {"pay_sent", "pay_replaced", "merge_sent", "merge_replaced",
             "recover_set"}
      BY <2>1 DEF Inserting
    <2> QED BY <1>1, <2>2 DEF AtLeastStored
  <1> QED BY <1>1, <1>3, <1>4 DEF Call

LEMMA WalletSteady ==
  ASSUME OneCaller, SnapshotInv, BackupInv', WalletStep
  PROVE  SnapshotInv'
  <1>1. export' = export
    BY DEF WalletStep
  <1>2. store.depth \in [Chain -> Nat] /\ task \in [Task -> Locals]
    BY DEF SnapshotInv, BackupInv, CoverInv, TypeOK, Store
  <1>3. ASSUME DepthsRise, \A u \in Task : AtLeastStored(task[u])'
        PROVE  SnapshotInv'
    BY <1>1, <1>3, ReadAheadKept DEF SnapshotInv
  <1>4. store' = store => DepthsRise
    BY <1>2 DEF DepthsRise
  <1>5. ASSUME NEW t \in Task, Call(t) PROVE SnapshotInv'
    BY <1>3, <1>4, <1>5, CallSteady, SteadyTask
  <1>6. ASSUME NEW t \in Task, Advance(t) PROVE SnapshotInv'
    <2>1. CASE Writes(t)
      BY <1>3, <2>1, WritesRise, SteadyTask
    <2>2. CASE ~Writes(t)
      <3>1. DepthsRise
        BY <1>2, <1>6, <2>2, OthersLeaveDepths DEF DepthsRise
      <3> QED BY <1>3, <1>6, <2>2, <3>1, AdvanceSteady, SteadyTask
    <2> QED BY <2>1, <2>2
  <1>7. ASSUME NEW t \in Task, GiveUp(t) PROVE SnapshotInv'
    <2>1. store' = store /\ task'[t].pc = "idle"
      BY <1>2, <1>7 DEF GiveUp, Finish, Idle
    <2>2. AtLeastStored(task[t])'
      BY <2>1 DEF AtLeastStored, Inserting
    <2> QED BY <1>3, <1>4, <2>1, <2>2, SteadyTask
  <1>8. ASSUME UNCHANGED <<store, task>> PROVE SnapshotInv'
    <2>1. \A u \in Task : AtLeastStored(task[u])'
      BY <1>8 DEF SnapshotInv, AtLeastStored
    <2> QED BY <1>3, <1>4, <1>8, <2>1
  <1> QED BY <1>5, <1>6, <1>7, <1>8
      DEF WalletStep, Progress, LateReplace, OthersSpend

LEMMA ExportAhead ==
  ASSUME SnapshotInv, ExportRead
  PROVE  ReadAhead'
  <1> DEFINE file == export.file
             order == ReadOrder[file.format]
             part == order[export.next]
  <1>1. SUFFICES ASSUME file'.format = "snapshot"
                 PROVE  /\ export'.next \in {2, 3} =>
                             Ahead(file'.coins, store'.depth) \subseteq export'.ahead
                        /\ export'.next > 3 =>
                             Ahead(file'.coins, file'.depth) \subseteq export'.ahead
    BY DEF ReadAhead
  <1>2. file \in File /\ export.next \in Nat /\ store \in Store
    BY DEF SnapshotInv, BackupInv, BackupTypeOK, Export, CoverInv, TypeOK
  <1>3. /\ export'.next = export.next + 1
        /\ file' = ReadPart(file, part)
        /\ export'.ahead = IF part = "outputs" THEN AheadNow ELSE export.ahead
        /\ store' = store
        /\ export.next \in DOMAIN order
    BY DEF ExportRead, vars
  <1>4. part \in {"outputs", "hashes", "depths"}
    BY <1>2, <1>3 DEF ReadOrder, File, Format
  <1>5. file.format = "snapshot"
    BY <1>1, <1>2, <1>3, <1>4 DEF ReadPart, File
  <1>6. order = <<"outputs", "hashes", "depths">>
    BY <1>5 DEF ReadOrder
  <1>7. ReadAhead
    BY DEF SnapshotInv
  <1>8. CASE export.next = 1
    <2>1. /\ part = "outputs" /\ export'.next = 2
          /\ file'.coins = CoinsOf(Unspent(store), store.amt)
      BY <1>2, <1>3, <1>5, <1>6, <1>8 DEF ReadPart, OutputsFor, File
    <2>2. Listed(file'.coins) \subseteq Listed(store.amt)
      BY <2>1 DEF Listed, CoinsOf
    <2> QED BY <1>3, <2>1, <2>2 DEF Ahead, AheadNow
  <1>9. CASE export.next = 2
    <2>1. /\ part = "hashes" /\ export'.next = 3 /\ file'.coins = file.coins
      BY <1>2, <1>3, <1>6, <1>9 DEF ReadPart, File
    <2> QED BY <1>3, <1>5, <1>7, <1>9, <2>1 DEF ReadAhead
  <1>10. CASE export.next = 3
    <2>1. /\ part = "depths" /\ export'.next = 4 /\ file'.coins = file.coins
          /\ file'.depth = store.depth
      BY <1>2, <1>3, <1>6, <1>10 DEF ReadPart, File
    <2> QED BY <1>3, <1>5, <1>7, <1>10, <2>1 DEF ReadAhead
  <1> QED BY <1>3, <1>6, <1>8, <1>9, <1>10

LEMMA SnapshotStep ==
  ASSUME OneCaller
  PROVE  SnapshotInv /\ [BackupNext]_backupVars => SnapshotInv'
  <1> SUFFICES ASSUME SnapshotInv, [BackupNext]_backupVars PROVE SnapshotInv'
    OBVIOUS
  <1>1. BackupInv'
    BY BackupStep DEF SnapshotInv
  <1>2. UNCHANGED <<store, task>> => \A t \in Task : AtLeastStored(task[t])'
    BY DEF SnapshotInv, AtLeastStored
  <1>3. (\A t \in Task : task'[t].pc \in {"idle", "recovered"})
          => \A t \in Task : AtLeastStored(task[t])'
    BY DEF AtLeastStored, Inserting
  <1>4. export' = NoExport => ReadAhead'
    BY DEF ReadAhead, NoExport, Blank
  <1>5. CASE WalletStep
    BY <1>1, <1>5, WalletSteady
  <1>6. CASE BackupCrash
    BY <1>1, <1>3, <1>4, <1>6 DEF BackupCrash, Crash, Idle, SnapshotInv
  <1>7. CASE \E format \in Format : ExportBegin(format)
    <2>1. export'.next = 1 /\ UNCHANGED <<store, task>>
      BY <1>7 DEF ExportBegin, NoExport, vars
    <2> QED BY <1>1, <1>2, <2>1 DEF SnapshotInv, ReadAhead
  <1>8. CASE ExportRead
    BY <1>1, <1>2, <1>8, ExportAhead DEF ExportRead, vars, SnapshotInv
  <1>9. CASE ExportEnd
    BY <1>1, <1>2, <1>4, <1>9 DEF ExportEnd, vars, SnapshotInv
  <1>10. CASE ImportSnapshot \/ ImportData
    <2>1. export' = NoExport /\ task' = Forgotten /\ AllAtRest
      BY <1>10 DEF ImportSnapshot, ImportData, Resting, OneCaller
    <2>2. \A t \in Task : task'[t].pc \in {"idle", "recovered"}
      BY <2>1 DEF Forgotten, Idle, AllAtRest, AtRest
    <2> QED BY <1>1, <1>3, <1>4, <2>1, <2>2 DEF SnapshotInv
  <1>11. CASE UNCHANGED backupVars
    BY <1>1, <1>2, <1>11 DEF backupVars, vars, SnapshotInv, ReadAhead
  <1> QED BY <1>5, <1>6, <1>7, <1>8, <1>9, <1>10, <1>11 DEF BackupNext

\* A snapshot taken while the one caller goes on holds no output past its own
\* depths but those that were past them in the store when the outputs were
\* read, because the outputs are read before the depths and the depths only
\* rise in between: the wallet restored from it does not derive a secret it
\* already holds.
THEOREM SnapshotCoversAlways ==
  ASSUME OneCaller
  PROVE  BackupSpec => SnapshotCovers
  <1>1. BackupInit => SnapshotInv
    <2> SUFFICES ASSUME BackupInit PROVE SnapshotInv
      OBVIOUS
    <2>1. BackupInv
      BY CoverInit, BlankType, BlankCovered
      DEF BackupInit, BackupInv, BackupTypeOK, FilesCovered, NoExport
    <2>2. \A t \in Task : AtLeastStored(task[t])
      BY DEF BackupInit, Init, Idle, AtLeastStored, Inserting
    <2>3. ReadAhead
      BY DEF BackupInit, ReadAhead, NoExport, Blank
    <2> QED BY <2>1, <2>2, <2>3 DEF SnapshotInv
  <1>2. SnapshotInv /\ [BackupNext]_backupVars =>
          [ExportEnd /\ export.file.format = "snapshot" =>
             Ahead(export.file.coins, export.file.depth) \subseteq export.ahead]_backupVars
    <2>1. SUFFICES ASSUME SnapshotInv, ExportEnd, export.file.format = "snapshot"
                   PROVE Ahead(export.file.coins, export.file.depth) \subseteq export.ahead
      OBVIOUS
    <2>2. export.next > 3
      BY <2>1 DEF ExportEnd, ReadOrder
    <2> QED BY <2>1, <2>2 DEF SnapshotInv, ReadAhead
  <1> QED BY <1>1, <1>2, SnapshotStep, PTL DEF BackupSpec, SnapshotCovers
============================================================================
