------------------------------ MODULE Lifecycle ------------------------------
(***************************************************************************)
(* The database file of a wallet from open to close: the constructors,     *)
(* close and Drop of src/src/wallet/mod.rs, encryption.rs beside it, and   *)
(* the stored key of src/src/passkey.rs.  A wallet opened with a passkey   *)
(* is a plain database while it is open, in the file itself the first time *)
(* and then in a temporary copy, and one ciphertext after close.           *)
(*                                                                         *)
(* External: SQLite in WAL mode (commits are in the -wal file until a      *)
(* checkpoint; the connection checkpoints and removes it when it closes)   *)
(* and the keyring of the platform, which may fail to answer.              *)
(***************************************************************************)
EXTENDS Integers, Sequences, SequencesExt

CONSTANTS
    Faults,     \* what can go wrong
    MaxSeeds,   \* bound: wallets created
    MaxCommits, \* bound: transactions
    MaxKeys,    \* bound: keys generated
    MaxLocks    \* bound: encryptions one over the other

ASSUME LifecycleAssumption ==
    /\ Faults \subseteq {"crash", "torn", "keyring"}
    /\ MaxSeeds \in Nat /\ MaxCommits \in Nat
    /\ MaxKeys \in Nat \ {0} /\ MaxLocks \in Nat \ {0}

VARIABLES
    file,    \* the bytes on disk
    wal,     \* what opening the database gives, if its -wal file exists
    keyring, \* the stored key: keys are numbered as they are generated
    wallet,  \* the open wallet, if any
    seeds,   \* auxiliary: how many seeds have been generated
    last,    \* auxiliary: how the last session ended, what a closing one has
             \* seen, what the last one that was closed kept
    spoiled  \* auxiliary: whether what this module shows to lose a wallet happened

vars == <<file, wal, keyring, wallet, seeds, last, spoiled>>

\* The database file, and its decrypted copy.
Place == {"path", "temp"}

\* A database is the seed in it and the transactions committed to it.
Content == [kind    : {"absent", "fresh", "junk", "db"},
            seed    : 0 .. MaxSeeds,
            commits : 0 .. MaxCommits]

Of(kind) == [kind |-> kind, seed |-> 0, commits |-> 0]

Absent == Of("absent")
Fresh == Of("fresh")  \* no bytes, or a database without tables
Junk == Of("junk")    \* bytes that are neither a database nor a ciphertext

Key == 1 .. MaxKeys
Password == 0

\* The keys something is encrypted with, the outermost last.
File == [locks : Seq(Key \cup {Password}), content : Content]

Plain(content) == [locks |-> <<>>, content |-> content]

Encrypted(f, key) == [f EXCEPT !.locks = Append(@, key)]

Locked(f, key) == f.locks # <<>> /\ Last(f.locks) = key

Unlocked(f) == [f EXCEPT !.locks = Front(@)]

\* What SQLite finds in a file that is not a database.
Readable(f) == IF f.locks = <<>> THEN f.content ELSE Junk

\* What a connection to a place sees.
View(p) == IF wal[p] # Absent THEN wal[p] ELSE Readable(file[p])

PC == {"shut", "open", "closing", "encrypted", "written"}

Wallet == [pc        : PC,
           passkey   : BOOLEAN,        \* is_encrypted
           place     : Place,          \* "temp": temp_db_path is set
           cached    : Key \cup {0},   \* cached_key, 0 for none
           image     : File,           \* the bytes encrypt_database will write
           rewritten : BOOLEAN]        \* path was written under the connection

Shut == [pc |-> "shut", passkey |-> FALSE, place |-> "path", cached |-> 0,
         image |-> Plain(Absent), rewritten |-> FALSE]

Init ==
    /\ file = [p \in Place |-> Plain(Absent)]
    /\ wal = [p \in Place |-> Absent]
    /\ keyring = 0
    /\ wallet = Shut
    /\ seeds = 0
    /\ last = [how |-> "ended", passkey |-> FALSE, seen |-> Fresh, kept |-> Fresh]
    /\ spoiled = FALSE

----------------------------------------------------------------------------
(* The stored key *)

\* get_or_create_passkey_key: the cached key, the stored one, or a new one,
\* which replaces the stored one whatever the error was.
GetKey(key) ==
    IF wallet.cached # 0
    THEN key = wallet.cached /\ UNCHANGED keyring
    ELSE \/ keyring # 0 /\ key = keyring /\ UNCHANGED keyring
         \/ /\ keyring = 0 \/ "keyring" \in Faults
            /\ key = keyring + 1 /\ keyring' = key

----------------------------------------------------------------------------
(* Open *)

\* is_database_encrypted, from the first bytes: a ciphertext has no header of a
\* database; other bytes may have one, and a file of under 16 counts as plain.
IsEncrypted(f) ==
    IF f.locks # <<>> THEN {TRUE} ELSE IF f.content = Junk THEN BOOLEAN ELSE {FALSE}

\* A wallet over content c at place p; a new database gets a new seed.
Opened(passkey, p, c) ==
    /\ wallet' = [Shut EXCEPT !.pc = "open", !.passkey = passkey, !.place = p]
    /\ IF c \in {Absent, Fresh}
       THEN /\ seeds < MaxSeeds
            /\ seeds' = seeds + 1
            /\ wal' = [wal EXCEPT ![p] = [kind |-> "db", seed |-> seeds + 1, commits |-> 0]]
       ELSE /\ UNCHANGED seeds
            /\ wal' = [wal EXCEPT ![p] = IF wal[p] = Absent THEN Absent ELSE c]
    /\ spoiled' = (spoiled \/ c = Junk)
    /\ UNCHANGED <<keyring, last>>

\* Without a passkey nobody looks at the header; with one, before the first close
\* or after a decryption.  SQLite refuses what is not a database, unless a -wal
\* file makes it one.
OpenPath(passkey) ==
    /\ wallet.pc = "shut"
    /\ passkey => FALSE \in IsEncrypted(file["path"])
    /\ View("path") # Junk
    /\ IF file["path"].content = Absent
       THEN file' = [file EXCEPT !["path"] = Plain(Fresh)]
       ELSE UNCHANGED file
    /\ Opened(passkey, "path", View("path"))

\* The copy, with a -wal file an earlier session has left beside it: SQLite
\* takes that for its own, and puts its pages over those of the copy.
Paired(content) == IF wal["temp"] = Absent THEN {content} ELSE {wal["temp"], Junk}

Decrypted == Unlocked(file["path"])

\* decrypt_database_for_runtime, then the copy is opened.
OpenTemp ==
    /\ wallet.pc = "shut" /\ TRUE \in IsEncrypted(file["path"])
    /\ keyring # 0 /\ Locked(file["path"], keyring)
    /\ file' = [file EXCEPT !["temp"] = Decrypted]
    /\ Readable(Decrypted) # Junk
    /\ \E c \in Paired(Readable(Decrypted)) : Opened(TRUE, "temp", c)

\* The copy cannot be opened, and stays.
OpenTempFails ==
    /\ wallet.pc = "shut" /\ TRUE \in IsEncrypted(file["path"])
    /\ keyring # 0 /\ Locked(file["path"], keyring)
    /\ Junk \in Paired(Readable(Decrypted)) \cup {Readable(Decrypted)}
    /\ file' = [file EXCEPT !["temp"] = Decrypted]
    /\ UNCHANGED <<wal, keyring, wallet, seeds, last, spoiled>>

----------------------------------------------------------------------------
(* In use *)

At == wallet.place

\* A transaction.  What SQLite does on a file that was rewritten under it is
\* followed only to the end of the connection.
Commit ==
    /\ wallet.pc = "open" /\ ~wallet.rewritten
    /\ View(At).commits < MaxCommits
    /\ wal' = [wal EXCEPT ![At] = [View(At) EXCEPT !.commits = @ + 1]]
    /\ UNCHANGED <<file, keyring, wallet, seeds, last, spoiled>>

Checkpoint ==
    /\ wallet.pc = "open" /\ ~wallet.rewritten /\ wal[At] # Absent
    /\ file' = [file EXCEPT ![At] = Plain(wal[At])]
    /\ UNCHANGED <<wal, keyring, wallet, seeds, last, spoiled>>

\* The stored key is replaced only when it cannot be read.
Replaced == "keyring" \in Faults /\ keyring # 0 /\ keyring' # keyring

\* encrypt_with_passkey: a backup is made, and the key if need be.
ExportBackup ==
    /\ wallet.pc = "open"
    /\ \E key \in Key :
         /\ GetKey(key)
         /\ wallet' = [wallet EXCEPT !.cached = IF wallet.passkey THEN key ELSE 0]
    /\ spoiled' = (spoiled \/ Replaced)
    /\ UNCHANGED <<file, wal, seeds, last>>

\* decrypt_with_passkey: a cached key counts only while the stored one can be
\* read.  What an import does to the database is the Backup module's.
Authenticate ==
    /\ wallet.pc = "open" /\ wallet.passkey
    /\ \/ /\ keyring # 0
          /\ wallet' = [wallet EXCEPT !.cached = IF @ # 0 THEN @ ELSE keyring]
       \/ /\ keyring = 0 \/ "keyring" \in Faults
          /\ wallet' = [wallet EXCEPT !.cached = 0]
    /\ UNCHANGED <<file, wal, keyring, seeds, last, spoiled>>

\* Mutant: the file is read where it will be written.
PathBytes == file["path"]

\* The bytes that encrypt_database reads, without what is in the -wal file.
Source == file[At]

\* Mutant: the copy is left.
CopyLeft(f) == f

RemoveTemp(f) ==
    IF wallet.passkey /\ At = "temp" THEN [f EXCEPT !["temp"] = Plain(Absent)] ELSE f

Rewritten(f) == [file EXCEPT !["path"] = f]

\* encrypt_database while the wallet is open.
EncryptDatabase ==
    /\ wallet.pc = "open" /\ wallet.passkey
    /\ Source.content # Absent /\ Len(Source.locks) < MaxLocks
    /\ \E key \in Key :
         /\ GetKey(key)
         /\ file' = RemoveTemp(Rewritten(Encrypted(Source, key)))
         /\ wallet' = [wallet EXCEPT !.cached = key, !.rewritten = TRUE]
    /\ spoiled' = TRUE
    /\ UNCHANGED <<wal, seeds, last>>

EncryptWithPassword ==
    /\ wallet.pc = "open"
    /\ Len(file["path"].locks) < MaxLocks
    /\ file' = Rewritten(Encrypted(file["path"], Password))
    /\ wallet' = [wallet EXCEPT !.rewritten = @ \/ At = "path"]
    /\ spoiled' = TRUE
    /\ UNCHANGED <<wal, keyring, seeds, last>>

DecryptWithPassword ==
    /\ wallet.pc = "open"
    /\ Locked(file["path"], Password)
    /\ file' = Rewritten(Unlocked(file["path"]))
    /\ UNCHANGED <<wal, keyring, wallet, seeds, last, spoiled>>

----------------------------------------------------------------------------
(* Close *)

\* The connection to place p closes, the files being f.  It checkpoints into
\* whatever is there now, pages of the -wal file only, unless the file is gone:
\* then SQLite leaves the -wal file where it is.
Disconnect(f, p) ==
    IF f[p].content = Absent
    THEN /\ file' = f
         /\ UNCHANGED wal
    ELSE /\ \E g \in IF wallet.rewritten /\ wal[p] # Absent
                     THEN {f[p], Plain(Junk), Plain(wal[p])}
                     ELSE {IF wal[p] = Absent THEN f[p] ELSE Plain(wal[p])} :
              file' = [f EXCEPT ![p] = g]
         /\ wal' = [wal EXCEPT ![p] = Absent]

\* The session ends: "closed" ok and as it should, "crashed", or "ended".
Ended(how) ==
    /\ wallet' = Shut
    /\ last' = [how |-> how, passkey |-> how = "closed" /\ wallet.passkey, seen |-> Fresh,
                kept |-> IF how # "closed" THEN last.kept
                         ELSE IF wallet.passkey THEN last.seen ELSE View(At)]

\* How it ends if close returns ok.
Closed == Ended(IF wallet.rewritten THEN "ended" ELSE "closed")

\* A wallet that is not encrypted has nothing more to do.
Close ==
    /\ wallet.pc = "open" /\ ~wallet.passkey
    /\ Disconnect(file, At)
    /\ Closed
    /\ UNCHANGED <<keyring, seeds, spoiled>>

\* Mutant: the store is dropped after the file has been written.
StoreKept ==
    /\ wallet.pc = "open" /\ wallet.passkey
    /\ wallet' = [wallet EXCEPT !.pc = "closing"]
    /\ last' = [last EXCEPT !.seen = View(At)]
    /\ UNCHANGED <<file, wal, keyring, seeds, spoiled>>

\* close swaps the store first, so that the connection is gone.
DropStore ==
    /\ wallet.pc = "open" /\ wallet.passkey
    /\ Disconnect(file, At)
    /\ wallet' = [wallet EXCEPT !.pc = "closing"]
    /\ last' = [last EXCEPT !.seen = View(At)]
    /\ UNCHANGED <<keyring, seeds, spoiled>>

CloseEncrypts ==
    /\ wallet.pc = "closing"
    /\ Source.content # Absent /\ Len(Source.locks) < MaxLocks
    /\ \E key \in Key :
         /\ GetKey(key)
         /\ wallet' = [wallet EXCEPT !.pc = "encrypted", !.cached = key,
                                     !.image = Encrypted(Source, key)]
    /\ spoiled' = (spoiled \/ Replaced)
    /\ UNCHANGED <<file, wal, seeds, last>>

CloseWrites ==
    /\ wallet.pc = "encrypted"
    /\ file' = Rewritten(wallet.image)
    /\ wallet' = [wallet EXCEPT !.pc = "written"]
    /\ UNCHANGED <<wal, keyring, seeds, last, spoiled>>

CloseRemoves ==
    /\ wallet.pc = "written"
    /\ file' = RemoveTemp(file)
    /\ Closed
    /\ UNCHANGED <<wal, keyring, seeds, spoiled>>

\* The copy is gone, or the keyring takes no key: close returns the error, and
\* the wallet is dropped with its copy.
CloseFails ==
    /\ wallet.pc = "closing"
    /\ \/ Source.content = Absent
       \/ wallet.cached = 0 /\ "keyring" \in Faults
    /\ file' = RemoveTemp(file)
    /\ Ended("ended")
    /\ UNCHANGED <<wal, keyring, seeds, spoiled>>

\* Drop without close: the copy is removed, then the connection closes.
Drop ==
    /\ wallet.pc = "open"
    /\ Disconnect(RemoveTemp(file), At)
    /\ Ended("ended")
    /\ UNCHANGED <<keyring, seeds, spoiled>>

----------------------------------------------------------------------------
(* Failures *)

\* fs::write has truncated the file, and has written some of it or nothing.
Torn == {Rewritten(Plain(Fresh)), Rewritten(Plain(Junk))}

\* The process stops in it, ...
CrashInWrite ==
    /\ "torn" \in Faults
    /\ wallet.pc = "encrypted"
    /\ file' \in Torn
    /\ Ended("crashed")
    /\ spoiled' = TRUE
    /\ UNCHANGED <<wal, keyring, seeds>>

\* ... or it fails, for want of space: the error drops the wallet.
WriteFails ==
    /\ "torn" \in Faults
    /\ wallet.pc = "encrypted"
    /\ \E f \in Torn : file' = RemoveTemp(f)
    /\ Ended("ended")
    /\ spoiled' = TRUE
    /\ UNCHANGED <<wal, keyring, seeds>>

Crash ==
    /\ "crash" \in Faults
    /\ wallet.pc # "shut"
    /\ Ended("crashed")
    /\ UNCHANGED <<file, wal, keyring, seeds, spoiled>>

----------------------------------------------------------------------------
Next ==
    \/ \E passkey \in BOOLEAN : OpenPath(passkey)
    \/ OpenTemp \/ OpenTempFails
    \/ Commit \/ Checkpoint \/ ExportBackup \/ Authenticate
    \/ EncryptDatabase \/ EncryptWithPassword \/ DecryptWithPassword
    \/ Close \/ DropStore \/ CloseEncrypts \/ CloseWrites \/ CloseRemoves
    \/ CloseFails \/ Drop
    \/ CrashInWrite \/ WriteFails \/ Crash

Spec == Init /\ [][Next]_vars

----------------------------------------------------------------------------
(* Properties *)

AtRest == wallet.pc = "shut"

\* After a close that returned ok the next open finds every transaction, those
\* still in the -wal file and those of a session that had crashed included,
\* under the key that is stored now, whatever the keyring did.
CloseKeeps ==
    AtRest /\ last.how = "closed" =>
        IF last.passkey
        THEN file["path"] = Encrypted(Plain(last.kept), keyring)
        ELSE View("path") = last.kept

\* Crashes between any two steps, closes that fail and sessions dropped without
\* close do not lose the wallet: the file is a database of the first seed, plain
\* or under the stored key, with all that the last close kept.  What may lose it
\* is a write that stops half way, a stored key that could not be read and was
\* replaced, encrypting the file while it is open, and a -wal file put over a
\* copy it does not belong to.
WalletSurvives ==
    AtRest /\ seeds > 0 /\ ~spoiled =>
        LET f == file["path"]
            c == IF wal["path"] # Absent THEN wal["path"] ELSE f.content
        IN  /\ seeds = 1
            /\ f.locks \in {<<>>, <<keyring>>}
            /\ c.kind = "db" /\ c.seed = 1 /\ c.commits >= last.kept.commits

\* A session on a copy that ends otherwise than by a crash removes the copy; one
\* that is closed removes what its -wal file holds of it too.
CopyRemoved ==
    [][ wallet.place = "temp" /\ wallet'.pc = "shut" /\ last'.how # "crashed"
        => /\ file'["temp"] = Plain(Absent)
           /\ last'.how = "closed" => wal'["temp"] = Absent ]_vars

\* `encrypt-db --password` promises that the same password decrypts the database,
\* and `decrypt-db --password` that the wallet need not be opened for it: but the
\* method is a method of an open wallet.  So a wallet that was closed in order and
\* then encrypted whole, with no crash that left a -wal file beside it, would have
\* to open for the password to be asked for.
SamePasswordDecrypts ==
    AtRest /\ last.kept.kind = "db" /\ wal["path"] = Absent
        /\ file["path"] = Encrypted(Plain(last.kept), Password)
        => ENABLED (OpenTemp \/ \E passkey \in BOOLEAN : OpenPath(passkey))
==============================================================================
