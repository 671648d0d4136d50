------------------------------- MODULE Backup -------------------------------
(***************************************************************************)
(* Snapshots of a wallet in use: export and import of                      *)
(* src/src/wallet/snapshot.rs, beside the calls of Wallet.  An export is   *)
(* several reads of the store, each an access of its own, so that calls    *)
(* get in between; an import of a snapshot is one atomic().  There are two *)
(* formats: the snapshot, and the data inside an encrypted backup, which   *)
(* holds every output but no depths.                                       *)
(*                                                                         *)
(* Every wallet here has the same seed.  import_wallet_data is one step: a *)
(* process that stops in it leaves a store without a seed.                 *)
(***************************************************************************)
EXTENDS Wallet

CONSTANTS
    SparseDepths, \* whether a depth never set has no entry (JSON, memory)
    AtRestOnly,   \* whether the caller restores only while nothing runs
    OneFile       \* bound: whether only a first export is followed

ASSUME BackupAssumption ==
    /\ SparseDepths \in BOOLEAN
    /\ AtRestOnly \in BOOLEAN
    /\ OneFile \in BOOLEAN

VARIABLES
    export,  \* the export in progress
    backup   \* what the user has kept of the exports that finished

backupVars == <<vars, export, backup>>

Format == {"snapshot", "data"}

\* A file, and what is so far read of it.
File == [format : Format,
         coins  : Coins,
         hashes : SUBSET Secret,
         depth  : [Chain -> Nat]]

Blank == [format |-> "data", coins |-> NoCoins, hashes |-> {},
          depth |-> [c \in Chain |-> 0]]

\* Outputs at or past the recorded depth of their chain.
Ahead(coins, depth) ==
    {s \in Listed(coins) \cap Derived : s[2] >= depth[s[1]]}

\* ahead is auxiliary: the outputs that were ahead of the depths when read.
Export == [next : Nat, file : File, ahead : SUBSET Secret]

NoExport == [next |-> 0, file |-> Blank, ahead |-> {}]

BackupInit ==
    /\ Init
    /\ export = NoExport
    /\ backup = Blank

----------------------------------------------------------------------------
(* Export *)

\* Mutant: depths before outputs.
DepthsFirst == [snapshot |-> <<"depths", "outputs", "hashes">>,
                data     |-> <<"outputs", "hashes">>]

\* What is read, in this order.
ReadOrder == [snapshot |-> <<"outputs", "hashes", "depths">>,
              data     |-> <<"outputs", "hashes">>]

\* Only the data holds outputs that have been spent.
OutputsFor(format) ==
    IF format = "snapshot" THEN CoinsOf(Unspent(store), store.amt) ELSE store.amt

ReadPart(file, part) ==
    CASE part = "outputs" -> [file EXCEPT !.coins = OutputsFor(file.format)]
      [] part = "hashes"  -> [file EXCEPT !.hashes = store.hashes]
      [] part = "depths"  -> [file EXCEPT !.depth = store.depth]

\* The outputs of the store that are ahead of its depths now.
AheadNow == Ahead(store.amt, store.depth)

ExportBegin(format) ==
    /\ export.next = 0
    /\ OneFile => backup = Blank
    /\ export' = [NoExport EXCEPT !.next = 1, !.file.format = format]
    /\ UNCHANGED <<vars, backup>>

ExportRead ==
    LET order == ReadOrder[export.file.format] IN
    /\ export.next \in DOMAIN order
    /\ export' = [next  |-> export.next + 1,
                  file  |-> ReadPart(export.file, order[export.next]),
                  ahead |-> IF order[export.next] = "outputs"
                            THEN AheadNow ELSE export.ahead]
    /\ UNCHANGED <<vars, backup>>

\* The caller keeps the new file, or the one it had.
ExportEnd ==
    /\ export.next > Len(ReadOrder[export.file.format])
    /\ backup' \in {backup, export.file}
    /\ export' = NoExport
    /\ UNCHANGED vars

----------------------------------------------------------------------------
(* Import *)

Resting ==
    AtRestOnly => AllAtRest /\ export = NoExport

\* Mutant: outputs come back with the flag turned round.
RestoredSpent(file, depth) ==
    [row    |-> [s \in Secret |-> IF s \in Listed(file.coins)
                                  THEN "spent" ELSE "none"],
     amt    |-> file.coins,
     hashes |-> file.hashes,
     depth  |-> depth]

\* clear_all and the insertions: every output comes back as unspent.
Restored(file, depth) ==
    [row    |-> [s \in Secret |-> IF s \in Listed(file.coins)
                                  THEN "unspent" ELSE "none"],
     amt    |-> file.coins,
     hashes |-> file.hashes,
     depth  |-> depth]

\* Mutant: the depth next to be used is taken for the last one used.
DepthAfterNext(file, kept) == [c \in Chain |-> file.depth[c] + 1]

\* clear_all leaves the depths alone; the snapshot overrides those it lists.
DepthAfter(file, kept) ==
    [c \in Chain |-> IF SparseDepths /\ file.depth[c] = 0
                     THEN kept[c] ELSE file.depth[c]]

\* Into the wallet as it is, or into one newly created.
Target == {store.depth, [c \in Chain |-> 0]}

\* A recover() before it is over for the wallet.
Forgotten == [t \in Task |-> IF task[t].pc = "recovered" THEN Idle ELSE task[t]]

ImportSnapshot ==
    /\ Resting
    /\ backup.format = "snapshot"
    /\ \E kept \in Target :
         store' = Restored(backup, DepthAfter(backup, kept))
    /\ task' = Forgotten
    /\ UNCHANGED <<srv, worth, late, paid, export, backup>>

\* The data has no depths: those of the target stay.
ImportData ==
    /\ Resting
    /\ backup.format = "data"
    /\ \E kept \in Target : store' = Restored(backup, kept)
    /\ task' = Forgotten
    /\ UNCHANGED <<srv, worth, late, paid, export, backup>>

----------------------------------------------------------------------------
WalletStep ==
    /\ \/ \E t \in Task : Call(t)
       \/ Progress
    /\ UNCHANGED <<export, backup>>

\* The process stops: an export in progress is lost.
BackupCrash ==
    /\ Crash
    /\ export' = NoExport
    /\ UNCHANGED backup

BackupNext ==
    \/ WalletStep
    \/ BackupCrash
    \/ \E format \in Format : ExportBegin(format)
    \/ ExportRead
    \/ ExportEnd
    \/ ImportSnapshot
    \/ ImportData

BackupSpec == BackupInit /\ [][BackupNext]_backupVars

----------------------------------------------------------------------------
(* Properties *)

\* Every variable has its type.
BackupTypeOK ==
    /\ export \in Export
    /\ backup \in File

\* The depths in a file, however old, are of secrets the server knows.
FilesCovered ==
    \A c \in Chain :
        Prefix(c, export.file.depth[c]) /\ Prefix(c, backup.depth[c])

\* The inductive invariant: restoring any file, at any moment, burns no depth
\* and leaves every call in progress within its chains.
BackupInv == CoverInv /\ BackupTypeOK /\ FilesCovered

\* Because outputs are read before depths, a snapshot holds no output past its
\* depths but those that were past them in the store: the wallet restored from
\* it does not derive a secret it holds.
SnapshotCovers ==
    [][ExportEnd /\ export.file.format = "snapshot" =>
        Ahead(export.file.coins, export.file.depth) \subseteq export.ahead]_backupVars
============================================================================
