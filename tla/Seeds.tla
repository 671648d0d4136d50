------------------------------- MODULE Seeds -------------------------------
(***************************************************************************)
(* The seed of a wallet, which its secrets are derived from: where one is  *)
(* generated, given, replaced or restored, and what the outputs and depths *)
(* in the store then belong to.  open and open_with_seed of                *)
(* src/src/wallet/mod.rs, the imports of snapshot.rs (import_wallet_data   *)
(* statement by statement: it runs outside atomic()) and recover.  Money   *)
(* operations are what they come to, on one chain; Wallet has their steps, *)
(* and the foreign secrets that insert may keep as they are.               *)
(***************************************************************************)
EXTENDS Integers

CONSTANTS
    Seed,
    Given,     \* the seeds callers bring; others are generated
    MaxDepth,  \* bound: derivation depths
    GapLimit,  \* window of the recovery scan
    Careless   \* whether callers recover another seed, or set one in a used wallet

ASSUME SeedsAssumption ==
    /\ Given \subseteq Seed
    /\ MaxDepth \in Nat /\ GapLimit \in Nat \ {0}
    /\ Careless \in BOOLEAN

VARIABLES
    known,   \* the secrets the server has seen,
    live,    \* and those it holds money for
    seed,    \* the store: master_secret, if any,
    rows,    \* its outputs,
    spent,   \* those marked spent,
    depth,   \* and the depth of the chain
    session, \* whether the wallet is open, or what import_wallet_data does next
    backup,  \* the file the user has kept
    owner,   \* auxiliary: the seed the depth was left by,
    mixed    \* and the seeds that were given the depth of another

server == <<known, live>>
store == <<seed, rows, spent, depth>>
aux == <<owner, mixed>>
seedVars == <<server, store, session, backup, aux>>

\* A secret is the seed it is derived from and its depth.
Secret == Seed \X (0 .. MaxDepth)

Session == {"shut", "open", "set_meta", "insert_outputs"}

Format == {"none", "snapshot", "data"}

\* A snapshot has the depth, but outputs only while they are unspent.
BackupFile == [format : Format, seed : SUBSET Seed, outputs : SUBSET Secret, depth : Nat]

NoFile == [format |-> "none", seed |-> {}, outputs |-> {}, depth |-> 0]

SeedInit ==
    /\ known = {} /\ live = {}
    /\ seed = {} /\ rows = {} /\ spent = {} /\ depth = 0
    /\ session = "shut"
    /\ backup = NoFile
    /\ owner = {} /\ mixed = {}

----------------------------------------------------------------------------
(* Open *)

\* A seed that nobody has had yet.
Unused(s) ==
    /\ s \notin Given \cup backup.seed
    /\ \A d \in 0 .. MaxDepth : <<s, d>> \notin known

\* get_or_generate_master_secret
Generated == IF seed = {} THEN {s \in Seed : Unused(s)} ELSE seed

\* Setting master_secret leaves the depth as it is, whoever left it.
SetSeed(s) ==
    /\ seed' = {s}
    /\ owner' = {s}
    /\ mixed' = IF depth # 0 /\ owner # {s} THEN mixed \cup {s} ELSE mixed

Open ==
    /\ session = "shut"
    /\ \E s \in Generated : SetSeed(s)
    /\ session' = "open"
    /\ UNCHANGED <<server, rows, spent, depth, backup>>

\* Mutant: the outputs are not looked at.
TakesAny(s, existing) == TRUE

\* stats().total_webcash counts rows, spent ones too.
Takes(s, existing) == s = existing \/ rows = {}

OpenWithSeed(s) ==
    /\ session = "shut"
    /\ \E existing \in Generated :
         LET after == IF Takes(s, existing) THEN s ELSE existing
         IN  /\ SetSeed(after)
             /\ session' = IF after = s THEN "open" ELSE "shut"
    /\ UNCHANGED <<server, rows, spent, depth, backup>>

\* setup --master-secret: store_master_secret, which looks at nothing.
StoreMasterSecret(s) ==
    /\ session = "open" /\ (rows = {} \/ Careless)
    /\ SetSeed(s)
    /\ UNCHANGED <<server, rows, spent, depth, session, backup>>

----------------------------------------------------------------------------
(* Money *)

\* The server puts what the inputs are worth on the next secret; the answer is
\* recorded or lost.  A secret it has seen is refused.
Replace(inputs) ==
    \E s \in seed :
        /\ depth <= MaxDepth
        /\ <<s, depth>> \notin known
        /\ known' = known \cup {<<s, depth>>}
        /\ live' = (live \ inputs) \cup {<<s, depth>>}
        /\ \/ /\ rows' = rows \cup {<<s, depth>>}
              /\ spent' = spent \cup inputs
              /\ depth' = depth + 1
           \/ UNCHANGED <<rows, spent, depth>>
        /\ UNCHANGED <<seed, session, backup, aux>>

Insert == session = "open" /\ Replace({})

\* pay and merge: one input, and what comes back of it.
Pay ==
    /\ session = "open"
    /\ \E i \in live \cap (rows \ spent) : Replace({i})

\* Mutant: windows that find money only are hits.
LiveWindow(s, w) ==
    \E d \in w * GapLimit .. (w + 1) * GapLimit - 1 : <<s, d>> \in live

Window(s, w) ==
    \E d \in w * GapLimit .. (w + 1) * GapLimit - 1 : <<s, d>> \in known

\* Whether the scan gets to depth d of a seed, from the depth on record: past
\* that it ends with the first window without a hit.
Scanned(s, d, reported) ==
    \A w \in 0 .. (d \div GapLimit) - 1 :
        Window(s, w) \/ (w + 1) * GapLimit <= reported

Found(s) == {c \in known : c[1] = s /\ Scanned(s, c[2], depth)}

\* recover, of the wallet's seed unless the caller is careless.
Recover(s) ==
    /\ session = "open"
    /\ s \in seed \/ Careless
    /\ rows' = rows \cup (Found(s) \cap live)
    /\ depth' \in {d \in 0 .. MaxDepth + 1 :
                     /\ d >= depth /\ \A c \in Found(s) : d > c[2]
                     /\ d = depth \/ <<s, d - 1>> \in Found(s)}
    /\ mixed' = IF s \notin seed /\ depth' # depth THEN mixed \cup seed ELSE mixed
    /\ UNCHANGED <<server, seed, spent, session, backup, owner>>

----------------------------------------------------------------------------
(* Files *)

Export(format) ==
    /\ session = "open"
    /\ backup' = [format  |-> format,
                  seed    |-> seed,
                  outputs |-> IF format = "snapshot" THEN rows \ spent ELSE rows,
                  depth   |-> IF format = "snapshot" THEN depth ELSE 0]
    /\ UNCHANGED <<server, store, session, aux>>

\* Mutant: the depths are left alone.
DepthKept(file) == depth

DepthOf(file) == file.depth

\* One atomic().
ImportSnapshot ==
    /\ session = "open" /\ backup.format = "snapshot"
    /\ seed' = backup.seed
    /\ rows' = backup.outputs /\ spent' = {}
    /\ depth' = DepthOf(backup)
    /\ owner' = backup.seed
    /\ UNCHANGED <<server, session, backup, mixed>>

\* import_wallet_data: clear_all, which keeps the depths, ...
ClearAll ==
    /\ session = "open" /\ backup.format = "data"
    /\ seed' = {} /\ rows' = {} /\ spent' = {}
    /\ session' = "set_meta"
    /\ UNCHANGED <<server, depth, backup, aux>>

\* ... the metadata, the seed among it, ...
SetMeta ==
    /\ session = "set_meta"
    /\ \E s \in backup.seed : SetSeed(s)
    /\ session' = "insert_outputs"
    /\ UNCHANGED <<server, rows, spent, depth, backup>>

InsertOutput ==
    /\ session = "insert_outputs"
    /\ \E s \in backup.outputs \ rows : rows' = rows \cup {s}
    /\ UNCHANGED <<server, seed, spent, depth, session, backup, aux>>

ImportEnds ==
    /\ session = "insert_outputs" /\ rows = backup.outputs
    /\ session' = "open"
    /\ UNCHANGED <<server, store, backup, aux>>

\* The wallet is closed, or the process stops, in an import too.
Stop ==
    /\ session # "shut"
    /\ session' = "shut"
    /\ UNCHANGED <<server, store, backup, aux>>

SeedNext ==
    \/ Open
    \/ \E s \in Given : OpenWithSeed(s) \/ StoreMasterSecret(s)
    \/ Insert \/ Pay
    \/ \E s \in Seed : Recover(s)
    \/ \E format \in {"snapshot", "data"} : Export(format)
    \/ ImportSnapshot
    \/ ClearAll \/ SetMeta \/ InsertOutput \/ ImportEnds
    \/ Stop

SeedSpec == SeedInit /\ [][SeedNext]_seedVars

----------------------------------------------------------------------------
(* Properties *)

\* A wallet holds outputs of its own seed only, so that what it holds can be
\* rebuilt from the seed it shows its user: neither open_with_seed nor a process
\* that stops inside an import puts another seed over them.
RowsFromSeed == \A r \in rows : seed = {r[1]}

Singleton(S) == \E x \in Seed : S = {x}

SeedTypeOK ==
    /\ known \subseteq Secret /\ live \subseteq known
    /\ seed = {} \/ Singleton(seed)
    /\ rows \subseteq Secret
    /\ depth \in Nat
    /\ session \in Session
    /\ backup \in BackupFile /\ (backup.seed = {} \/ Singleton(backup.seed))
    /\ owner \subseteq Seed /\ mixed \subseteq Seed

\* An open wallet has a seed, and so has a file; an import is at its statements.
Seeded ==
    /\ session = "open" => Singleton(seed)
    /\ backup.format # "none" => Singleton(backup.seed)
    /\ session \in {"set_meta", "insert_outputs"} => backup.format = "data"
    /\ session = "insert_outputs" => seed = backup.seed

\* A file holds outputs of the seed in it, which an import puts before them.
FilesFromSeed ==
    /\ \A r \in backup.outputs : backup.seed = {r[1]}
    /\ session = "set_meta" => rows = {}

\* The server has seen every depth of s below d.
Below(s, d) == \A e \in 0 .. MaxDepth : e < d => <<s, e>> \in known

\* The depths on record, in the store and in a file, are of their seeds, and no
\* seed has a gap but those that were given the depth of another.
DepthsBacked ==
    /\ seed # {} => owner = seed
    /\ \A s \in owner \ mixed : Below(s, depth)
    /\ \A s \in backup.seed \ mixed : Below(s, backup.depth)
    /\ \A c \in known : c[1] \in mixed \/ Below(c[1], c[2])

\* The inductive invariants: this one callers of every kind keep, ...
ReachInv == SeedTypeOK /\ Seeded /\ DepthsBacked

\* ... and this one those that bring no other seed.
OwnInv == SeedTypeOK /\ Seeded /\ RowsFromSeed /\ FilesFromSeed

\* Whatever is restored, lost or stopped, recover from a seed gets to all the
\* money on it, unless that seed was given the depth of another: clear_all and
\* a new seed leave it there.
SeedReaches == \A c \in live : c[1] \in mixed \/ Scanned(c[1], c[2], 0)
============================================================================
