# Verification of the webylib wallet

TLA+ models of the webylib wallet, TLC configurations that check them on small
instances, and TLAPS proofs about them for every value of their constants.  The
reference is the Rust source beside this directory; line numbers are those of
that commit.  `PROJECT.json` is the machine-readable index: components, runs,
mutants, the map from each definition to the lines it models, findings, hazards
and theorems.

To check one run: `tlc -workers 2 -config MCWallet_Calls.cfg MCWallet`.  To check
one proof module: `tlapm WalletProofs.tla`.

## 1. The system

webylib is a wallet for webcash: bearer money whose units are secrets that one
central server exchanges.  Whoever knows an unspent secret owns it; to take
possession is to ask the server to *replace* it by a fresh secret of one's own.
A wallet holds a master secret; the secret at depth *d* of one of four chains
(RECEIVE, PAY, CHANGE, MINING) is derived from it.  The store on disk is
therefore a cache of what the seed and the server could rebuild, and `recover()`
rebuilds it.

### 1.1 Inventory

| component | state it keeps | operations | correct when |
|---|---|---|---|
| Money operations, `src/src/wallet/operations.rs` | none of its own: the calls in progress | `insert`, `pay`, `merge`, `recover`, `store_directly`, `derive_next_secret`; read only: `check`, `balance`, `list_webcash`, `stats` | no money is lost or invented; a payment string is redeemable; the next secret is fresh; a refused call leaves the store alone |
| Recovery scan, `src/crates/webylib-core/src/ops/recover.rs` | window, hits and last used depth of each chain | `recover`, `scan_chain` | ends, and only after every live secret has been looked at |
| Stores of the wallet, `src/src/wallet/store.rs`, `schema.rs`, `idb.rs` | outputs, spent hashes, chain depths, metadata; in SQLite, in a JSON file, or (in a page) in memory and IndexedDB | statements of the `Store` trait, `atomic`, `save_to_idb`, `load_from_idb` | `atomic` is all or nothing, apart from other threads, and survives a stopped process once answered; what a page's save has reported as kept is found again |
| Storage crate, `src/crates/storage/src/` | the same, with asset name spaces | the same trait, three implementations | the same |
| Server client, `src/src/server.rs`, `src/crates/server-client/` | an HTTP client with a 30 s timeout | `/replace`, `/health_check`, `/target`, `/mining_report` | a lost answer never costs money |
| Miner, `src/src/miner.rs` | secrets taken, solution | `mine` | every reward is within reach of `recover` |
| Snapshots, `src/src/wallet/snapshot.rs` | none | `export_snapshot`, `import_snapshot`, `export_wallet_data`, `import_wallet_data` | a wallet restored from any file has all its money within reach, and does not derive a secret it holds |
| Encryption and passkey, `src/src/wallet/encryption.rs`, `src/src/passkey.rs` | database file, temporary plain file, stored key | open, close, encrypt, decrypt, seed encryption | no crash between two steps loses the file or leaves it plain; a key is never replaced while something is encrypted under it |
| Browser wallet, `src/crates/webylib-wasm/`, `src/src/wallet/idb.rs` | JSON state passed in and out | `prepare_*`, `apply_*`, `recover` | an apply records exactly what its prepare proposed |
| Amounts and webcash strings, `src/src/amount.rs`, `src/src/webcash.rs`, and the parsers of `crates/webylib-core/` and `crates/webylib-wasm/` | none | parse (three parsers, six readers), format, saturating arithmetic | a string is worth to its reader what it was to its writer; a sum that saturates makes no money |
| Key derivation, `src/src/hd.rs`, `src/crates/hd/` | none | `derive_secret` | injective in chain and depth |
| Wallet lifecycle, `src/src/wallet/mod.rs` | path, flags, the connection, the seed | constructors, `open_with_seed`, `close`, `Drop` | a close that returns ok keeps every transaction; a wallet's outputs are of the seed it has; see encryption |
| C interface, command line tools, `src/src/ffi/`, `src/src/bin/cli.rs` | none | one wallet call each | see the call |
| Other assets and HTLC, crypto, macros, conformance vectors | none that persists | wrappers and pure functions | not modelled, see section 7 |

### 1.2 How they interact

Every money operation takes `&self`, so calls of one wallet interleave at every
`await`.  An operation (1) reads depths and rows from the store, one locked
access each; (2) sends a request, holding the server client's lock for that
request only; (3) after the answer writes to the store.  Nothing is reserved
between (1) and (3): two calls can propose the same secret and offer the same
rows, and it is the server that lets only one of them through.  `pay` and
`merge` write in one `atomic` block; `insert` writes the output and the depth in
two accesses; `recover` writes output by output and then chain by chain, from a
scan that is already old.  `mine` advances the depth before it reports.

### 1.3 What is hard here

* Interleavings of calls between the read of a depth and its write.
* A reply that is lost, a timeout while the request still travels, a process
  that stops between the server's answer and the wallet's write.
* `recover` beside other calls, with a scan that ages as they go on.
* Windows, gaps and recorded depths: where the scan stops is the difference
  between money and none.
* `atomic` under threads, errors in closures and stopped processes, in six
  implementations that lock, copy and flush differently.
* Three parsers of one amount, written apart, with signs, prefixes, exponents
  and 64 bits.
* A seed that is given, replaced or restored over rows and depths of another.

The hazards of `PROJECT.json` list each of these at its line.

## 2. The modules

    Coins ── Ledger ─┬─ BrowserWallet            StoreCalls ── TxStore (abstract)
      │              │                              ├── SqliteStore       implements it
      │              ├─ Wallet ─┬─ Miner            ├── CrateSqliteStore  implements it
      └── StoreOps ──┘          ├─ Backup           ├── CrateJsonStore
                                └─ WalletPurse      ├── JsonStore
                                     implements     └── PageStore
                                     Purse (abstract)     all of them in Stores

    Lifecycle    what a session is to the file, not what it does
    Seeds        what a seed is to the rows and depths of a store
    Amounts      texts, wats and sums

    WalletProofs ─┬─ MoneyProofs (and WalletPurse)  StoresProofs    BrowserProofs
                  ├─ BackupProofs                   AmountProofs    LifecycleProofs
                  └─ MinerProofs                                    (and Seeds)

| module | models | state and actions |
|---|---|---|
| `Coins` | chains, depths, secrets, amounts, lists of webcash | constants and operators only |
| `Ledger` | the server (external): `srv`, `worth`; what `/replace` accepts and does | `Replaceable`, `Replace`, `SpentElsewhere` |
| `StoreOps` | the wallet's store as a value and its statements as functions | `insert_output`, `mark_spent`, `set_depth`, the order of `get_unspent` |
| `Wallet` | `insert`, `pay`, `merge`, `recover` and the scan | a *task* is a call in progress; its `pc` says which access or answer comes next; one action per store access or server answer; `GiveUp`, `Crash`, `LateReplace`, `OthersSpend` are the environment |
| `Miner` | `mine` and `derive_next_secret`, composed with `Wallet` | `MineBegin`, `ReadDepth`, `SetDepth`, `ReportAccepted`, `ReportRefused`, `StoreMined`, and late reports |
| `Purse`, `WalletPurse` | what a wallet is to its owner: the abstract specification; and the refinement mapping from `Wallet` | `TakeIn`, `GiveOut`, `Redeem`, each one step; `Promise` is the instance |
| `Backup` | `export_*` and `import_*` of `snapshot.rs`, composed with `Wallet`: a file the user has kept is restored at some later time | `ExportBegin`, `ExportRead` (one read of the store each), `ExportEnd`, `ImportSnapshot`, `ImportData` |
| `BrowserWallet` | the state and calls of `crates/webylib-wasm/src/wallet.rs` and the page that makes them; a *flow* is a prepare on its way to its apply | `Prepare*`, `ApplyReplace`, `StoreMined`, `ApplyRecover`, `Reimport`; `ServerAccepts`, `EffectLost`, `LateRequest`, `OthersSpend` are the environment |
| `StoreCalls` | the statements of the `Store` trait, a call as a batch of them | operators only |
| `TxStore` | what a store promises: the abstract specification | `Call`, `Take`, `Refuse`, `Crash` |
| `SqliteStore` | the wallet's `SqliteStore` and `SqliteTxStore` with the mutex held across `atomic` | `Begin`, `MarkSpent`, `InsertOutput`, `Commit`, `Rollback`, `Crash` |
| `CrateSqliteStore` | the storage crate's `SqliteStore`, which drops the mutex after BEGIN | the same, `Statement` and `EndFails` |
| `CrateJsonStore` | its `MemStore` and `JsonStore`: copy, closure, restore, flush | and `Encode`, `Open`, `Write` of the file |
| `JsonStore` | the wallet's `JsonStore`: change under the lock, flush outside it | `Mutate`, `Drop`, `Encode`, `Open`, `Write` |
| `PageStore` | the wallet's `MemStore` in a page and `save_to_idb`; IndexedDB is external | `Run` (a call), `Save`, `Put`, `PutFails`, `Complete` (the transaction of the put), `Reload` |
| `Stores` | the stores a wallet can be opened on, one per behaviour | `kind` is the store at work; its steps are those of the store's module |
| `Amounts` | `from_str`, `parse_decimal_to_wats`, `parse_amount_str` and the webcash strings around them, `to_string_with_decimals`, `Add` and `Sub`, the sums of `select_inputs` | a text is what the parsers tell apart in it; `Read`, `HandOn`, `Ask`, `Select`, `Propose` |
| `Seeds` | `open`, `open_with_seed`, `store_master_secret`, `import_wallet_data` statement by statement, `recover` of any seed; money operations as what they come to | a secret is a seed and a depth; `Open`, `OpenWithSeed`, `StoreMasterSecret`, `Insert`, `Pay`, `Recover`, `Export`, `ImportSnapshot`, `ClearAll`, `SetMeta`, `InsertOutput`, `ImportEnds`, `Stop` |
| `Lifecycle` | `open*`, `close` and `Drop` of `mod.rs`, `encryption.rs` and the stored key of `passkey.rs`; SQLite's -wal file and the keyring are external | a file is the keys it is encrypted with and a database, a database its seed and how many transactions it holds; `OpenPath`, `OpenTemp`, `EncryptDatabase`, ...; close in the steps `DropStore`, `CloseEncrypts`, `CloseWrites`, `CloseRemoves`; `Crash`, `CrashInWrite`, `WriteFails` |
| `MCWallet`, `MCMiner`, `MCBackup`, `MCBrowser`, `MCStores`, `MCLifecycle` | small instances | values of constants; `MCLifecycle` the file or the seed, `MCBrowser` the page's state or an amount, `MCMiner` a miner beside a `recover` or a caller of everything |

### 2.1 Choices a reader should know

* A derived secret *is* the pair of its chain and depth: the hash is taken to be
  injective.  A foreign secret is a model value with the amount printed on it.
* Amounts are natural numbers up to the whole supply and sums are exact, but in
  `Amounts`.  There the base, the number of decimals and the largest integer are
  parameters, and a text is a record of what a parser tells apart in it: its
  prefix, the signs and digits before and after the points, the exponent.
  Floats, which a text with an exponent goes through, are not followed bit by
  bit: a float is any number within `Slack`/`Precision` of the exact one, for the
  roundings of the coefficient, of the product and of the product with the unit,
  at most |exp| more in `powi`, and their products.  In the code `Precision` is
  2^53, `MaxPower`, the last power of ten that is finite, 308, and `MaxExp`
  `i32::MAX`.  Infinite powers, the negation of `i32::MIN` (as a release build
  does it) and coefficients that are names, "inf" and "nan", are in the model;
  "inf" also stands for more digits than a float can hold.  Coefficients with
  more than 308 digits behind the point are left out.
* `pay` and `merge` read their depths and send the request in one step.  The
  reads are separate accesses in the code; a depth that another call uses in
  between makes the server refuse the request, as it does in the model when
  that happens after the send.  `recover` reads the four reported depths in one
  step likewise.
* `pay` of nothing, and `validate_input`'s comparison of amounts, are left out:
  the foreign secrets of the model carry the amount the server knows.
* A task that gives up may leave its request behind in `late`; the server
  serves it at any later time, or never.
* In the store modules a closure marks rows and inserts others, never the same
  row, so the order of its statements is immaterial and each is a step.  Reads
  and metadata are left out, and so are I/O errors of `fs::write` and panics
  inside a closure.  When COMMIT fails, the wallet's SQLite store drops its
  transaction, which rolls back (`Rollback`); the storage crate's returns with the
  transaction open (`EndFails`), and from then on refuses every `atomic` and
  commits no single call.  From a file torn by a crash no store opens again, so
  `Crash` is not followed there.
* A page has one thread, so a call of its store is one step of `PageStore`;
  `atomic` there runs its closure and takes nothing back.
* `Backup` knows one seed and takes `import_wallet_data` as one step.  `Seeds`
  has several seeds and the import statement by statement, with a process that
  stops between any two; its money operations work on one chain, are one step
  each, and keep no foreign secret as it is.  `mixed` is an auxiliary variable:
  the seeds that were given a depth another seed had left.
* The browser wallet's page is not in the repository.  It keeps one state, may
  have several flows in progress, and applies them in any order to the state of
  then.  `RecoverApart` says that it does not recover while another flow is in
  progress; without it `OneEntryEach` is false (section 4).
* In `Lifecycle` a connection sees its -wal file over its database, checkpoints
  when it likes, and on closing checkpoints and removes the file, unless the
  database is gone: then SQLite leaves the -wal file behind, and takes it for
  that of the next copy of the same name.  What comes of pages put over a copy
  they do not belong to is either what the -wal file holds, or something that
  may or may not open (`Junk`).  What SQLite does with a file that was rewritten
  under a connection is followed only until the connection closes.  A crash is a
  stopped process, not a power failure: `synchronous=NORMAL` gives up the last
  commits in one.  `is_database_encrypted` looks at the header of a file and
  nothing else (`IsEncrypted`); that SQLite refuses a ciphertext on opening it is
  a guard of its own.  `spoiled` is an auxiliary variable: one of the four events
  that may lose the wallet has happened.
* Definitions marked *Mutant* are plausible bugs in the definition that follows
  them; nothing in a specification uses them.  `PROJECT.json` says which
  property must fail when one takes the place of its original.

## 3. The runs

| run | instance | shows |
|---|---|---|
| `calls` | two tasks insert, pay and merge; depths to 2, supply 4, no faults | `PurseSpec`: racing calls do what a purse does in one step each, no money is made or lost; `TypeOK`; `ChainsContiguous`; `RowsBacked`: rows are backed by the server, amounts and spent marks agree; `BooksAgree`: the two disagree only during the call that changes them; `NextSecretFresh`; `PaymentIsLive`; `DepthsNeverRegress`; `BooksInv`, the inductive invariant behind these |
| `recover` | one task pays, one takes the payments back in or recovers; lost replies, a late request, crashes | `CoverInv`, the inductive invariant; `RowsInv`: rows stay backed by the server, as is what calls in progress remember of them; `Recoverable`: no money is out of reach; `SpentStaysSpent` |
| `live` | one task inserts and merges, one recovers; two foreign secrets, one of the wallet's lineage, and an opening output; no faults, weakly fair | `EveryCallReturns`: every call returns once no new secret becomes known |
| `miner` | a miner beside a `recover`, with faults and a late report; and one caller that makes every call, `mine` included, one at a time, with faults | `MinerInv`: every secret minted, or that may yet be, is below the recorded depth; `RecoverCompletesAlone`: after `recover` every live secret is a spendable row and every chain is at an unused secret |
| `stores` | three rows, four batches; the wallet's SQLite store under two threads; the storage crate's under two that keep single calls out of open transactions, with a COMMIT or ROLLBACK that fails; the JSON and memory stores under one; a page's store with two saves in progress | the refinement `TxSpec` and `IInv`, `AllOrNothing`, `AnsweredOnDisk`, `FlushedAtRest`; `AnsweredSaved`: no row is lost, nor a spent one spendable again, that an answered save reported |
| `backup` | one task inserts, pays and recovers, with lost replies and crashes; one file, of either format, written while it does and restored any number of times while nothing runs | `BackupInv`: no restore burns a depth; `RecoverCompletes` after a restore; `SnapshotCovers`: a snapshot's outputs are below its depths |
| `browser` | two flows of every kind over one state; one lost effect or late request.  And, on behaviours of its own, an amount: texts of up to three digits behind the point, with signs, prefixes, exponents and names, in base 3 with two decimals, integers to 31 and floats good to one part in 256 | `EntriesBacked`: no entry the server does not know; `OneEntryEach`; `BrowserInv`: depths never ahead; `BooksAgree` but for what is in progress or was lost.  Of amounts, `TypeOK`; `RoundTrip`: what is printed is read as what it was, by all readers; `ParsersAgree` on texts without signs; `ExponentExact`: a whole number of wats with an exponent is read exactly while floats are off by less than half a wat; `OutputsBacked`: payment and change are backed by the coins, also where the sum saturates |
| `lifecycle` | sessions one after the other, with and without a passkey; two seeds, two keys, two encryptions one over the other, one transaction; crashes, torn writes, a keyring that may fail | `CloseKeeps`: what a closed wallet held is in the file, under the key stored now; `WalletSurvives`: only four named events can lose a wallet; `CopyRemoved`; for the seed, `RowsFromSeed`: a wallet holds outputs of its own seed only, whatever import stops where, and `SeedReaches`: `recover` from a seed gets to all its money |
| `recover_depth`, `two_miners`, `json_recover`, `password` | | violations, section 4 |

Deadlock is checked everywhere but in `calls`, whose tasks only insert, pay and
merge without faults, where a wallet whose last output has been paid out and
redeemed really has nothing left to do, and in `lifecycle` and `password`, where
a file that opens no more is where the program stops.  In `browser` it is
checked of the page; an amount may stay what it is.

**Bounds.**  `MaxDepth` (1 or 2) limits derivation depths: two or three uses of
a chain are enough for a call to be overtaken twice, for a burned depth to hide
a used one and for the scan to cross a window boundary.  `GapLimit = 1` is the
hardest window: any gap ends the scan.  (The theorems are about every value.)
In `live` no depth bound is ever reached:
two foreign secrets, one output and the merges of what they become use at most
three depths of a chain, so it is the money, and not `MaxDepth`, that ends the new secrets,
which is what `EveryCallReturns` supposes.  `MaxAmount` is at least the supply in every configuration where a request can
gather it, so that change, merging and a choice among inputs occur.  One foreign
secret and the wallet's own payments coming back are the inputs of `insert`.
`OneFile` follows the first export only; the file it leaves is restored at every
later point.  `MaxLost = 1` is one flow of the browser whose coins are lost
track of.  `MaxLate = 1` is one request that outlives its caller.  Two tasks or threads are
what each race found here takes.  `MaxEntries = 2` shows a doubled entry.
In `Lifecycle`, `MaxSeeds = 2` is a wallet that is silently replaced by a new
one, `MaxKeys = 2` a key that is replaced, `MaxLocks = 2` a ciphertext encrypted
again, and `MaxCommits = 1` a transaction that is kept or not.  In `Seeds` one seed is
given and two may be generated, and three depths are enough for a depth of one
seed to leave a gap on another.  `MCBound` keeps the two kinds of miner
behaviours finite: of the caller of everything two depths of each chain are
followed and nothing that outlives it, of the miner beside a `recover` three
depths and no foreign secret.  `MaxSaves = 2` is a save that overtakes another's
answer.  In `Amounts`, 3 is the least base in which half a wat is no whole number,
two decimals leave room for a leading and a trailing zero, and 31 is between
three and four units, so that whole parts, fractions and sums all reach the end
of the integers.  `Precision = 256` leaves most whole numbers of wats to be read
exactly and some not.  With `MaxPower = 3` and `MaxExp = 4`, exponents from -6 to
5 are refused, wrap around, vanish, give a finite power or an infinite one.

**Fairness.**  `FairSpec` asks weak fairness of `Advance(t)`, what task *t* does
next.  The runtime polls every task that is ready, store accesses do not block
for ever, and the server answers or the client's 30 s timeout ends the call
(`src/src/server.rs:117-135`).  Nothing is asked of callers, other people's
wallets or crashes.  The fairness is not enough for a scan to end: a window with
a hit is followed by another, and a task that keeps using the depths of each
window before it is read keeps the scan going.  `EveryCallReturns` is therefore
conditional, on `<>[][NothingNew]_vars`; in `live` every fair behaviour meets the
condition, because the money is finite and no payment comes back.

## 4. Where code and documents disagree

* **`recover_depth`.**  `recover` compares a chain's depth and writes it in two
  accesses (`operations.rs:585,588`); a call that commits in between has its
  depth taken back, and the next call on that chain proposes a secret the server
  knows.
* **`two_miners`.**  `CHANGELOG.md:137` says `derive_next_secret` is atomic; its
  read and its write are two accesses (`operations.rs:615,617`).
* **`json_recover`.**  `operations.rs:546-549` says a second `recover` is
  idempotent; the wallet's JSON store appends every output again
  (`store.rs:839-849`).
* **`password`.**  `encrypt-db --password` prints "Use the same password to
  decrypt the database" (`src/src/bin/cli.rs:648`).  `decrypt-db --password`, of
  which a comment says "no need to open wallet first" (`cli.rs:698`), opens it
  first (`cli.rs:699`), and SQLite refuses the ciphertext; decrypting is a method
  of an open wallet (`encryption.rs:66`).  So from the moment such a wallet is
  closed the library opens it no more, with the password or without.

What else the models reach, without a run of its own:

* `docs/SECURITY.md:34` and `CHANGELOG.md:129-131` say that insert is one
  transaction; the output and the depth are two accesses
  (`operations.rs:195,200`), and between them the store holds an output at a
  depth that is still the next one;
* `encrypt_database()` on an open wallet and then `close()` encrypts the
  ciphertext a second time, which no open undoes;
* close on a full disk: `fs::write` has emptied the file, and the error drops the
  wallet, which removes the plain copy too;
* a session on a decrypted copy that is dropped without close leaves the copy's
  -wal file, and the next session takes it for its own;
* with two threads, a statement joins another's open transaction in the storage
  crate's SQLite store (`Apart = FALSE`) and is rolled back with it after it was
  answered ok, although `crates/storage/src/sqlite.rs:350-351` says the mutex
  keeps concurrent writers out;
* after a COMMIT that failed there (`sqlite.rs:362-363`), with one thread or two,
  every single call is answered ok and never committed;
* with two threads, the wallet's JSON store can write its texts in the other
  order than it changed its state, the storage crate's JSON store can write half
  of a closure, and its memory store can lose another thread's write on rollback;
* a snapshot written while a `pay` commits can hold a coin both as unspent and as
  spent, since the two are read one after the other;
* `amount.rs:284` refuses negative amounts, and "-0.5" is read as 0.5: the whole
  part, -0, carries no sign.  The recovery scan's parser reads it so too, and
  reads "-1" as a negative amount; printing an amount between -1 and 0 loses its
  sign;
* the parsers differ on texts outside what any of them prints: the native one
  refuses ".5" and reads "1E-8", the browser's the other way round; a lone
  "₩" is 0 to both, and "1E30" is the largest amount, because `as i64` saturates
  and the check after it (`amount.rs:80-83`) cannot fail.  An exponent goes
  through floats: "9007199254740993E-8" is read one wat short, "infE0" and
  "1E-2147483648" as the largest amount, "nanE0" and "-1E-400" as nothing;
* the browser's `total += o.amount` wraps around in a release build;
* `save_to_idb` returns when the put has succeeded, not when its transaction has
  committed (`idb.rs:119`); of two pages on one wallet the last save wins; a
  database with an open connection is never deleted;
* a closure that `MemStore` stops at a secret it has already leaves its marks:
  `atomic` there (`store.rs:723-726`, "always consistent") takes nothing back;
* `open_with_seed` looks at the rows only (`mod.rs:162`), not at the depths, and
  `clear_all` keeps the depths: a seed that comes after another starts at its
  depths and leaves a gap, past which a scan from the seed alone does not see
  (`mixed`).  `recover` with another seed does the same, and stores the rows it
  finds beside the wallet's own; `setup --master-secret` looks at nothing.  Both
  are `Careless = TRUE`, under which `RowsFromSeed` is false;
* `weby_wallet_encrypt_seed` (`ffi/wallet_ops.rs:362-382`) encrypts the whole
  database file, and nothing in the C interface decrypts it;
* in the browser, a `recover` applied between the server's answer and the apply
  of a replace leaves its output there twice (`RecoverApart = FALSE`); and after
  a lost apply a chain stays at a secret the server knows, because
  `wallet_apply_recover` advances no depth.

## 5. What is proved

Every invariant and every property without fairness that a passing run checks is
also a theorem, the refinements included, for every value of the constants; what
is left to TLC is in section 6.  The assumptions are the named `ASSUME`s of the modules, which TLC
evaluates in the runs, and where a theorem has a hypothesis of its own it is one
of these:

| hypothesis | says | the code |
|---|---|---|
| `Undisturbed` (`Wallet`) | no reply is lost and no call is a `recover` | both really give up the books, see section 6 |
| `SameLineage = {}` (`Wallet`) | the server replaces any live secret by another | else `insert` keeps the secret as it is after a check, and somebody may spend it between the two |
| `OneTask`, `OneCaller`, `Lone`, `Solitary` | one call at a time, in `OneCaller` restores at rest, in the last two `MaxLate = 0`: no request is served after its caller gave up | the code does not hold callers to it; a `recover` beside other calls does not find what they make behind its back |
| `OneMiner` | one `mine` at a time | as above; with two, `SecretsNotShared` fails (section 4) |
| `RecoverApart` (`BrowserWallet`) | the page does not recover during another flow | a page can keep to it; without it `OneEntryEach` is false (section 4) |
| `Apart` (`CrateSqliteStore`) | threads make no single call while a transaction is open: another thread's, or one left by an `atomic` that could not end it | the crate does not enforce it; without it `TxSpec` is false (section 4) |
| `~Careless` (`Seeds`) | nobody stores or recovers another seed over rows | only `open_with_seed` looks |
| `PowersPositive` | a power of the base is a positive number | arithmetic that the prover's library lacks |

The runs make the same choices (`miner` in its `MCBound`, where one caller makes
every call), so that what a run shows of an instance the theorem says of all.
The arguments, by module:

*Wallet* (`WalletProofs`, and `MoneyProofs` from `BooksAlways` on): for any number
of tasks and foreign secrets, any depth, amount and gap limit, with lost replies, late requests,
crashes and concurrent recovers.

* `CoverAlways`: `CoverInv` is an invariant.  `ChainsContiguous`, which says that
  the server knows a chain's secrets without a gap and the wallet's depth never
  runs ahead of them, is not inductive: a step of a call depends on what the
  call read earlier.  `CoverInv` adds what calls in progress remember: the
  depths they have read, and what a scan has seen, are still covered
  (`CallsCovered`), and so is what a request proposes that outlives its caller
  (`LateCovered`), because the server's knowledge only grows; and what the
  server has replaced is known (`KnownWorth`).  The one step that extends a
  chain is the server's `Replace`, and the secret it adds is at a depth all of
  whose predecessors are known.  Every depth that is written is one more than a
  depth just used.
* `TypeAlways`, `ContiguousAlways`: consequences.
* `RecoverableAlways`: whatever the window, a scan from the seed gets to every
  live secret.  On a chain without gaps the first depth of every window up to a
  used depth is used, so no window before it is empty.
* `SpentAlways`: no step makes a row marked spent spendable again.  Inserting
  asks for a row that is not there, and a transaction that would insert one that
  is fails as a whole.
* `RowsAlways`, `RowsBackedAlways`: every row is a secret the server knows, under
  the amount it was made with, and is marked spent only if it is spent.  That is
  not inductive either: a call writes rows long after it read others.  `RowsInv`
  adds what calls remember: a secret handed in carries the amount printed on it
  or recorded for it, chosen inputs have a row, what the server replaced or a
  scan found has the amount it will be stored under, and the inputs of a
  replaced request are spent (`CallsBacked`).  The server forgets no secret, no
  amount and no spending, so what held when it was read holds when it is written.
* `BooksAlways` and its consequences `BooksAgreeAlways`, `NextSecretFreshAlways`,
  `PaymentIsLiveAlways`, `DepthsAlways`, of an `Undisturbed` wallet.  Calls race
  for depths and inputs that none of them reserves.  `BooksInv` says who owns
  what in between.  A depth at or past the recorded one that the server knows is
  the output of exactly one call, for only one request with it can have been
  accepted (`UsedByOneCall`, `OutputsApart`).  Until that call records it, it
  has no row, is in nobody's hands and the chain's depth is not past it, for
  whoever else wanted to record a later one would have had to use a later one
  first (`CallsSettled`).  Payments never have a row (`PaymentsLeave`).  So a
  depth written after an answer is above what is recorded, the INSERTs of a
  transaction never meet a row, and store and server differ by the calls in
  progress (`BehindByOneCall`).
* `PurseAlways`: under the same hypothesis and `SameLineage = {}`, `Wallet`
  implements `Purse`.  An insert takes its claim in when the server answers
  (`InsertTakesIn`), a pay gives its payment out with its transaction
  (`PayGivesOut`), others redeem, and every other step is a stutter.  `PurseInv`
  adds to `BooksInv` that the inputs of a replaced request are still rows, at
  the amounts the request named, and no other call's (`InputsApart`), that they
  are worth what was made of them, and that no foreign secret is kept
  (`OnlyOwnRows`).  Then the rows a transaction takes are worth what it keeps and
  what it pays (`CommitConserves`).  That rests on five lemmas about
  `SumFunctionOnSet` (`SumEmpty`, `SumTake`, `SumSame`, `SumNat`, `SumUnion`),
  proved for every finite set: of the parts a claim fails for there would be a
  smallest one.

*Snapshots* (`BackupProofs`), with files restored at any moment:

* `BackupAlways`: `BackupInv` is `CoverInv` with the depths in files added.  The
  depths in a file, finished or in progress, are covered by what the server knows
  when they are read, and that only grows; so a restore, however old the file,
  sets depths that are covered, and those a sparse file leaves out are those the
  wallet had or zero.  A `Wallet` step is a step of `CoverInv`'s proof; what it
  adds is that it forgets no secret (`StepKnows`).
* `RestoreRecoverable`: `Recoverable` again, now through restores.
* `RecoverCompletesAlways`, of one caller (`Lone`).  `RecoverInv` says what a
  `recover` has established at each of its steps: no secret known to the server
  is on a chain that is over, or below the window of the one it scans, at or past
  the last used depth seen; every live one there is in hand or a row; and what
  it has written so far is right.  That the scan may end where it does
  (`ScanEnds`) is what the gaps decide: on a contiguous chain a window without a
  used depth has nothing behind it.
* `SnapshotCoversAlways`, of one caller (`OneCaller`).  Depths only rise between
  the reads of an export, because each call writes at least what was recorded
  when it began, and outputs are read first; so an output that was not past the
  depths of its moment is not past those read later.

*Miner* (`MinerProofs`):

* `MineAlways`, `RewardsAlways`: one miner beside any number of recovers, or in
  turn with any number of calls of every kind.  `MineInv` adds to `MinerInv` that calls never propose a secret of
  the MINING chain nor have anything to raise there (`CallsBehave`), and that
  between the miner's read of its depth and its write the depth stays what it
  read (`MinersBehave`).  A reward is reported after its depth is passed.
* `AloneAlways`: one caller that mines too (`Solitary`).  Refused reports burn
  depths, so the MINING chain has gaps and `RecoverCompletesAlways` does not
  apply.  `OneAhead` takes its place: nothing the server knows is past the
  recorded depth, so a window past it without a used depth ends its chain, and
  one before it never does.

*Stores* (`StoresProofs`), for any number of threads, rows and batches:

* `IsolatedAlways`, `SqliteIsTransactional`: the SQLite stores implement
  `TxStore`, the storage crate's under `Apart`.  The invariant says that
  one thread holds the connection and that the table it works on is the committed
  one with its own statements applied; a batch marks and inserts different rows,
  so its statements give the same table in any order, and COMMIT is the instant
  at which the call takes effect.
* `AnsweredSavedAlways`: a page's tables only grow, in rows and in spent marks.
  Memory is at or past every save in progress, a save put later is at or past one
  put before it, and what has been told is in what is stored or about to be.
* `AnsweredOnDiskAlways`, `WholeOrNothingAlways`, `FlushedAtRestAlways`: of one
  thread.  The storage crate's JSON store at each stage of a call holds in
  memory, in its copy and in the file what that stage allows, so an answer finds
  the file written and an error finds memory put back; the wallet's has encoded its state
  after the last change of the call, a failed closure's included, before it is at
  rest.

*Browser wallet* (`BrowserProofs`), for any number of flows:

* `BrowserInvAlways` and its consequences `EntriesBackedAlways`,
  `OneEntryEachAlways`, `BrowserBooksAgreeAlways`, under `RecoverApart`.  What
  decides is what an effect says between the server's answer and its apply: its
  outputs are at the depths recorded now, so no other flow has taken them
  (`Taken`); no two flows have made the same output and none spends what another
  is to keep (`FlowsApart`), not even by a request that outlived its page
  (`LateApart`); a batch of recovered coins is checked while the others are idle,
  so what it finds has no entry on the way.

*Sessions and seeds* (`LifecycleProofs`), for any number of keys, transactions and
encryptions and any seeds, depths and window:

* `CloseKeepsAlways`, `WalletSurvivesAlways`, `CopyIsRemoved`, `PasswordLocksOut`.
  `LifeInv`: the key cached in a session is the stored one (`SessionInv`); from
  open to close what the session has seen is in one place at a time, the
  database, its -wal file, the ciphertext in memory or the file written from it
  (`ClosingInv`); and unless one of the four named events has happened there is a
  whole wallet at path, plain or under the stored key, with all that the last
  close kept, beside whatever copy a session has (`Surviving`).
* `RowsFromSeedAlways`: under callers that bring no other seed (`~Careless`).
  `OwnInv` adds that a file's outputs are of the file's seed, and that an import
  has cleared the rows before it sets the seed and set the seed before it inserts.
* `SeedReachesAlways`: for callers of every kind.  `ReachInv` adds whose depth the
  store and the file hold: on a seed that is not `mixed` the server has seen
  every depth below any it has seen and any on record, so a new secret leaves no
  gap and the first depth of every window below a live one is a hit.

*Amounts* (`AmountProofs`), for any base, number of decimals, width and texts:

* `TypeCorrect`, `RoundTripHolds`, `OutputsAreBacked`: sums and parsers stay within
  their words, since what does not fit is refused or saturates; printing divides
  an amount by the unit, drops the least number of zeros that leaves the digits
  whole, and every reader multiplies the same parts back; while a sum has not
  saturated it is exact, and one that has is below what it stands for.
* `ParsersAgreeAlways`: what has been read is one parser's reading of a text that
  has no fraction without digits (`ReadInv`); without signs all three compute
  `PlainWats` of it, and what `parse_decimal_to_wats` asks for is stronger than
  what the other two ask.
* `ExponentExactAlways`: what a text with an exponent means is a fraction of two
  naturals.  Where it is a whole number and the float is off by less than half a
  wat, half a wat of rounding on top makes less than one, so no other whole
  number can come out (`NoOtherSoNear`); where it is past the end of the
  integers, what comes out is that end.

## 6. What is only model-checked

* Liveness (`EveryCallReturns`, of behaviours in which from some point on no new
  secret becomes known): the prover does not do fairness or `ENABLED`.
* What `Selections` computes: that the rows chosen reach the amount asked for is
  a guard of `PaySend`, and which rows they are no theorem says.

`PurseSpec`, `BooksAgree`, `NextSecretFresh` and `DepthsNeverRegress` are stated without
faults and without `recover`, because the code gives them up with them: a lost
reply leaves spent rows that look spendable and a depth that is one behind, and
`recover` is what repairs the second (`RecoverCompletes`).  The first no
operation repairs: `check` counts such rows and changes nothing, so they are
offered, largest first, on every later `pay`.

`MinerInv` speaks of the wallet that mined.  A wallet rebuilt from the seed alone
has no recorded depth, and its scan ends at `gap_limit` refused reports in a row.

## 7. Not modelled, and the plan

Not modelled on purpose: pointer handling and printing of the C interface and
the command line tools (their functions make one wallet call each, and the calls
are modelled), crypto primitives, error types, macros and conformance vectors (no
protocol state), the RGB and voucher wallets and HTLC types (token formats, no
state of their own), `mark_inputs_spent`, `update_unspent_amount` and
`update_output_amount` (no operation of the library calls them).

Next, in this order:

1. When the browser wallet, a flow at a time, implements `Purse`; `Purse` with
   claims that a lost reply leaves in nobody's hands.
2. Several wallets of one seed at the same time: two devices, each with a store.
3. Reads and metadata in the store modules.

Theorems to come: a `recover` of one caller beside calls that leave its chains
alone; `Purse` with secrets of the same lineage.
