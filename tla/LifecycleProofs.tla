--------------------------- MODULE LifecycleProofs ---------------------------
(***************************************************************************)
(* Proofs about a wallet over sessions.  Of its file: what a close that    *)
(* returned ok leaves, that crashes and failed closes do not lose the      *)
(* wallet, what becomes of the decrypted copy, and that a file left under  *)
(* a password is not opened again; for any number of keys, transactions    *)
(* and encryptions and any set of faults.  Of its seed: that its outputs   *)
(* are of its own, and that recover() from a seed gets to all its money.   *)
(***************************************************************************)
EXTENDS Lifecycle, Seeds, TLAPS

Path == file["path"]
Temp == file["temp"]

LastEnd == [how : {"ended", "crashed", "closed"}, passkey : BOOLEAN,
            seen : Content, kept : Content]

TypeOK ==
    /\ file \in [Place -> File]
    /\ wal \in [Place -> Content]
    /\ keyring \in Key \cup {0}
    /\ wallet \in Wallet
    /\ seeds \in 0 .. MaxSeeds
    /\ last \in LastEnd
    /\ spoiled \in BOOLEAN

\* Only a wallet with a passkey has a copy or is more than open, and the cached
\* key is the stored one.
SessionInv ==
    /\ AtRest => wallet = Shut
    /\ ~AtRest /\ ~wallet.passkey => At = "path" /\ wallet.pc = "open"
    /\ wallet.cached \in {0, keyring}

\* From open to written: what a session whose file is not rewritten under its
\* connection has seen is in one place at a time.
ClosingInv ==
    ~wallet.rewritten =>
        /\ wallet.pc = "open" /\ wal[At] = Absent => file[At].locks = <<>>
        /\ wallet.pc = "closing" =>
              file[At].content = Absent \/ (wal[At] = Absent /\ file[At] = Plain(last.seen))
        /\ wallet.pc \in {"encrypted", "written"} =>
              /\ wal[At] = Absent /\ keyring # 0
              /\ wallet.image = Encrypted(Plain(last.seen), keyring)
        /\ wallet.pc = "written" => Path = wallet.image

\* Before the first session there is nothing.
Unborn ==
    seeds = 0 =>
        /\ AtRest /\ Path = Plain(Absent)
        /\ wal = [p \in Place |-> Absent] /\ last.kept = Fresh

\* The first wallet, with what the last close kept.
Keeps(c) == c.kind = "db" /\ c.seed = 1 /\ c.commits >= last.kept.commits

\* What is left of the database at path, under its keys or not.
PathContent == IF wal["path"] # Absent THEN wal["path"] ELSE Path.content

\* A wallet with a copy is also whole at path, under the stored key; a -wal file
\* beside the copy is the wallet too; and no wallet is open in path itself then.
Surviving ==
    /\ seeds = 1 /\ ~wallet.rewritten
    /\ Path.content # Absent /\ Keeps(PathContent)
    /\ \/ Path.locks = <<>>
       \/ Path.locks = <<keyring>> /\ keyring # 0 /\ wal["path"] = Absent
    /\ wal["temp"] # Absent => Path.locks # <<>> /\ Keeps(wal["temp"])
    /\ ~AtRest /\ At = "path" =>
          wal["temp"] = Absent /\ (wallet.pc # "written" => Path.locks = <<>>)
    /\ ~AtRest /\ At = "temp" =>
          /\ Path.locks # <<>> /\ Temp.locks = <<>>
          /\ Temp.content # Absent /\ Keeps(View("temp"))
    /\ wallet.pc \in {"closing", "encrypted", "written"} =>
          wal[At] = Absent /\ file[At].content = last.seen

SurvivalInv == seeds > 0 /\ ~spoiled => Surviving

LifeInv == TypeOK /\ SessionInv /\ ClosingInv /\ Unborn /\ SurvivalInv /\ CloseKeeps

----------------------------------------------------------------------------
(* The operators *)

LEMMA Contents ==
  /\ Absent \in Content /\ Fresh \in Content /\ Junk \in Content
  /\ Absent # Fresh /\ Absent # Junk /\ Fresh # Junk
  /\ Absent.kind = "absent" /\ Fresh.kind = "fresh" /\ Junk.kind = "junk"
  /\ Fresh.commits = 0
  BY LifecycleAssumption DEF Absent, Fresh, Junk, Of, Content

\* What encrypting, decrypting and opening do to the keys and the content.
LEMMA Files ==
  /\ \A c \in Content : /\ Plain(c) \in File /\ Plain(c).content = c
                        /\ Plain(c).locks = <<>>
  /\ \A f \in File, k \in Key \cup {Password} :
        /\ Encrypted(f, k) \in File /\ Encrypted(f, k).content = f.content
        /\ f.locks = <<>> => Encrypted(f, k).locks = <<k>>
  /\ \A f \in File : f.locks # <<>> =>
        /\ Unlocked(f) \in File /\ Unlocked(f).content = f.content
        /\ \A k : f.locks = <<k>> => Unlocked(f).locks = <<>>
  /\ \A f \in File : f.content \in Content /\ (f.locks = <<>> => f = Plain(f.content))
  /\ \A f \in File : Readable(f) \in Content /\ (f.locks = <<>> => Readable(f) = f.content)
  /\ \A f \in File : \A k : Locked(f, k) => f.locks # <<>>
  /\ \A f \in File : \A k, m : f.locks = <<m>> /\ Locked(f, k) => k = m
  <1>1. \A c \in Content : /\ Plain(c) \in File /\ Plain(c).content = c
                           /\ Plain(c).locks = <<>>
    BY DEF Plain, File
  <1>2. ASSUME NEW f \in File, NEW k \in Key \cup {Password}
        PROVE  /\ Encrypted(f, k) \in File /\ Encrypted(f, k).content = f.content
               /\ f.locks = <<>> => Encrypted(f, k).locks = <<k>>
    <2>1. Append(f.locks, k) \in Seq(Key \cup {Password}) BY DEF File
    <2>2. Append(<<>>, k) = <<k>> OBVIOUS
    <2> QED BY <2>1, <2>2 DEF Encrypted, File
  <1>3. ASSUME NEW f \in File, f.locks # <<>>
        PROVE  /\ Unlocked(f) \in File /\ Unlocked(f).content = f.content
               /\ \A k : f.locks = <<k>> => Unlocked(f).locks = <<>>
    <2>1. Len(f.locks) > 0 BY <1>3 DEF File
    <2>2. Front(f.locks) \in Seq(Key \cup {Password})
      BY <2>1 DEF Front, File
    <2>3. \A k : f.locks = <<k>> => Front(f.locks) = <<>>
      BY DEF Front, File
    <2> QED BY <2>2, <2>3 DEF Unlocked, File
  <1>4. \A f \in File : f.content \in Content /\ (f.locks = <<>> => f = Plain(f.content))
    BY DEF Plain, File
  <1>5. \A f \in File : Readable(f) \in Content /\ (f.locks = <<>> => Readable(f) = f.content)
    BY <1>4, Contents DEF Readable
  <1>6. \A f \in File : \A k : Locked(f, k) => f.locks # <<>>
    BY DEF Locked
  <1>7. \A f \in File : \A k, m : f.locks = <<m>> /\ Locked(f, k) => k = m
    BY DEF Locked, Last
  <1> QED BY <1>1, <1>2, <1>3, <1>4, <1>5, <1>6, <1>7

LEMMA Images ==
  ASSUME NEW c \in Content, NEW key \in Key \cup {0}
  PROVE  /\ Encrypted(Plain(c), key).locks = <<key>>
         /\ Encrypted(Plain(c), key).content = c
  <1>1. Plain(c) \in File /\ key \in Key \cup {Password} BY Files DEF Password
  <1> QED BY <1>1, Files

LEMMA Views ==
  ASSUME TypeOK
  PROVE  /\ \A p \in Place : View(p) \in Content /\ file[p] \in File /\ wal[p] \in Content
         /\ At \in Place /\ Source \in File
         /\ last.seen \in Content /\ last.kept \in Content
  BY Files DEF TypeOK, View, At, Source, Wallet, LastEnd

\* When the connection to p closes, what is in its -wal file moves to the file.
LEMMA Disconnecting ==
  ASSUME TypeOK, NEW f \in [Place -> File], NEW p \in Place, Disconnect(f, p)
  PROVE  /\ file' \in [Place -> File] /\ wal' \in [Place -> Content]
         /\ \A q \in Place \ {p} : file'[q] = f[q] /\ wal'[q] = wal[q]
         /\ f[p].content = Absent => file' = f /\ wal' = wal
         /\ f[p].content # Absent =>
               /\ wal'[p] = Absent
               /\ ~wallet.rewritten =>
                     file'[p] = IF wal[p] = Absent THEN f[p] ELSE Plain(wal[p])
  <1> USE DEF TypeOK
  <1>1. CASE f[p].content = Absent
    BY <1>1 DEF Disconnect
  <1>2. CASE f[p].content # Absent
    <2>1. PICK g \in IF wallet.rewritten /\ wal[p] # Absent
                     THEN {f[p], Plain(Junk), Plain(wal[p])}
                     ELSE {IF wal[p] = Absent THEN f[p] ELSE Plain(wal[p])} :
                file' = [f EXCEPT ![p] = g]
      BY <1>2 DEF Disconnect
    <2>2. wal' = [wal EXCEPT ![p] = Absent] BY <1>2 DEF Disconnect
    <2>3. Plain(Junk) \in File /\ Plain(wal[p]) \in File BY Contents, Files
    <2>4. g \in File BY <2>1, <2>3
    <2>5. file' \in [Place -> File] /\ wal' \in [Place -> Content]
      BY <2>1, <2>2, <2>4, Contents
    <2> QED BY <1>2, <2>1, <2>2, <2>5
  <1> QED BY <1>1, <1>2

\* The key that GetKey answers with is the stored one from then on.
LEMMA Keys ==
  ASSUME TypeOK, SessionInv, NEW key \in Key, GetKey(key)
  PROVE  /\ keyring' = key /\ key # 0 /\ keyring' \in Key \cup {0}
         /\ ~Replaced => keyring = 0 \/ keyring' = keyring
  BY LifecycleAssumption DEF GetKey, Replaced, SessionInv, TypeOK, Key

LEMMA Removing ==
  ASSUME TypeOK, NEW f \in [Place -> File]
  PROVE  /\ RemoveTemp(f) \in [Place -> File]
         /\ RemoveTemp(f)["path"] = f["path"]
         /\ At = "path" => RemoveTemp(f)["temp"] = f["temp"]
         /\ wallet.passkey /\ At = "temp" => RemoveTemp(f)["temp"] = Plain(Absent)
  BY Contents, Files DEF RemoveTemp, Place

LEMMA Rewriting ==
  ASSUME TypeOK, NEW f \in File
  PROVE  /\ Rewritten(f) \in [Place -> File] /\ Rewritten(f)["path"] = f
         /\ Rewritten(f)["temp"] = Temp
  BY DEF Rewritten, TypeOK, Place, Temp

LEMMA Opening ==
  ASSUME TypeOK, NEW passkey \in BOOLEAN, NEW p \in Place, NEW c \in Content,
         Opened(passkey, p, c)
  PROVE  /\ wallet'.pc = "open" /\ wallet'.passkey = passkey /\ wallet'.place = p
         /\ wallet'.cached = 0 /\ ~wallet'.rewritten /\ wallet' \in Wallet
         /\ wal' \in [Place -> Content] /\ seeds' \in 0 .. MaxSeeds
         /\ \A q \in Place \ {p} : wal'[q] = wal[q]
         /\ c \in {Absent, Fresh} =>
               /\ seeds' = seeds + 1
               /\ wal'[p].kind = "db" /\ wal'[p].seed = seeds + 1 /\ wal'[p].commits = 0
         /\ c \notin {Absent, Fresh} =>
               /\ seeds' = seeds
               /\ wal'[p] = IF wal[p] = Absent THEN Absent ELSE c
         /\ spoiled' = (spoiled \/ c = Junk) /\ keyring' = keyring /\ last' = last
  <1> USE DEF TypeOK
  <1>1. wallet' = [pc |-> "open", passkey |-> passkey, place |-> p, cached |-> 0,
                   image |-> Plain(Absent), rewritten |-> FALSE]
    BY DEF Opened, Shut
  <1>2. /\ wallet'.pc = "open" /\ wallet'.passkey = passkey /\ wallet'.place = p
        /\ wallet'.cached = 0 /\ ~wallet'.rewritten /\ wallet' \in Wallet
    BY <1>1, Contents, Files DEF Wallet, PC
  <1>5. spoiled' = (spoiled \/ c = Junk) /\ keyring' = keyring /\ last' = last
    BY DEF Opened
  <1>3. CASE c \in {Absent, Fresh}
    <2> DEFINE new == [kind |-> "db", seed |-> seeds + 1, commits |-> 0]
    <2>1. seeds < MaxSeeds /\ seeds' = seeds + 1 /\ wal' = [wal EXCEPT ![p] = new]
      BY <1>3 DEF Opened
    <2>2. new \in Content BY <2>1, LifecycleAssumption DEF Content
    <2>3. wal'[p] = new /\ wal' \in [Place -> Content] BY <2>1, <2>2
    <2>4. seeds' \in 0 .. MaxSeeds BY <2>1, LifecycleAssumption
    <2> QED BY <1>2, <1>3, <1>5, <2>1, <2>3, <2>4
  <1>4. CASE c \notin {Absent, Fresh}
    <2>1. seeds' = seeds /\ wal' = [wal EXCEPT ![p] = IF wal[p] = Absent THEN Absent ELSE c]
      BY <1>4 DEF Opened
    <2>2. wal' \in [Place -> Content] /\ wal'[p] = IF wal[p] = Absent THEN Absent ELSE c
      BY <2>1, Contents
    <2> QED BY <1>2, <1>4, <1>5, <2>1, <2>2
  <1> QED BY <1>3, <1>4

LEMMA Ending ==
  ASSUME TypeOK, NEW how \in {"closed", "ended", "crashed"}, Ended(how)
  PROVE  /\ wallet' = Shut /\ last' \in LastEnd /\ last'.how = how
         /\ how # "closed" => last'.kept = last.kept
         /\ how = "closed" =>
               /\ last'.passkey = wallet.passkey
               /\ last'.kept = IF wallet.passkey THEN last.seen ELSE View(At)
  <1> DEFINE passkey == how = "closed" /\ wallet.passkey
             kept == IF how # "closed" THEN last.kept
                     ELSE IF wallet.passkey THEN last.seen ELSE View(At)
  <1>1. wallet' = Shut
        /\ last' = [how |-> how, passkey |-> passkey, seen |-> Fresh, kept |-> kept]
    BY DEF Ended
  <1>2. passkey \in BOOLEAN OBVIOUS
  <1>3. kept \in Content BY Views
  <1>4. how # "closed" => kept = last.kept OBVIOUS
  <1>5. how = "closed" => /\ passkey = wallet.passkey
                          /\ kept = IF wallet.passkey THEN last.seen ELSE View(At)
    <2>1. wallet.passkey \in BOOLEAN BY DEF TypeOK, Wallet
    <2> QED BY <2>1
  <1> HIDE DEF passkey, kept
  <1>6. /\ last' \in LastEnd /\ last'.how = how /\ last'.kept = kept
        /\ last'.passkey = passkey
    BY <1>1, <1>2, <1>3, Contents DEF LastEnd
  <1> QED BY <1>1, <1>4, <1>5, <1>6

LEMMA ShutTyped == Shut \in Wallet /\ Shut.pc = "shut" /\ Shut.cached = 0 /\ ~Shut.rewritten
                   /\ Shut.place = "path"
  BY Contents, Files DEF Shut, Wallet, PC, Place

----------------------------------------------------------------------------
(* Types *)

LEMMA TypeInit == Init => TypeOK
  <1> SUFFICES ASSUME Init PROVE TypeOK OBVIOUS
  <1>1. Plain(Absent) \in File /\ Absent \in Content BY Contents, Files
  <1>2. file \in [Place -> File] /\ wal \in [Place -> Content] BY <1>1 DEF Init
  <1>3. last \in LastEnd BY Contents DEF Init, LastEnd
  <1>4. keyring \in Key \cup {0} /\ seeds \in 0 .. MaxSeeds /\ spoiled \in BOOLEAN
    <2>1. keyring = 0 /\ seeds = 0 BY DEF Init
    <2>2. spoiled \in BOOLEAN BY DEF Init
    <2>3. seeds \in 0 .. MaxSeeds BY <2>1, LifecycleAssumption
    <2> QED BY <2>1, <2>2, <2>3
  <1> QED BY <1>2, <1>3, <1>4, ShutTyped DEF Init, TypeOK

LEMMA OpenPathEffect ==
  ASSUME TypeOK, NEW passkey \in BOOLEAN, OpenPath(passkey)
  PROVE  /\ wallet.pc = "shut" /\ Opened(passkey, "path", View("path"))
         /\ Path.locks # <<>> => ~passkey /\ wal["path"] # Absent
         /\ View("path") # Junk
         /\ file' \in [Place -> File] /\ file'["temp"] = Temp
         /\ Path.content = Absent => file'["path"] = Plain(Fresh)
         /\ Path.content # Absent => file'["path"] = Path
  <1>1. ASSUME Path.locks # <<>> PROVE ~passkey /\ wal["path"] # Absent
    <2>1. IsEncrypted(Path) = {TRUE} BY <1>1 DEF IsEncrypted
    <2>2. ~passkey BY <2>1 DEF OpenPath, Path
    <2>3. wal["path"] # Absent BY <1>1 DEF OpenPath, View, Readable, Path
    <2> QED BY <2>2, <2>3
  <1>2. wallet.pc = "shut" /\ Opened(passkey, "path", View("path"))
        /\ View("path") # Junk
    BY DEF OpenPath
  <1>3. /\ file' \in [Place -> File] /\ file'["temp"] = Temp
        /\ Path.content = Absent => file'["path"] = Plain(Fresh)
        /\ Path.content # Absent => file'["path"] = Path
    BY Contents, Files DEF OpenPath, TypeOK, Path, Temp, Place
  <1> QED BY <1>1, <1>2, <1>3

LEMMA CopyEffect ==
  ASSUME TypeOK, OpenTemp \/ OpenTempFails
  PROVE  /\ keyring # 0 /\ Locked(Path, keyring) /\ wallet.pc = "shut"
         /\ Decrypted \in File /\ Decrypted.content = Path.content
         /\ file' \in [Place -> File] /\ file'["path"] = Path
         /\ file'["temp"] = Decrypted
  <1>1. Locked(Path, keyring) /\ file' = [file EXCEPT !["temp"] = Decrypted]
    BY DEF OpenTemp, OpenTempFails, Path
  <1>2. Decrypted \in File /\ Decrypted.content = Path.content
    BY <1>1, Files DEF TypeOK, Place, Decrypted, Path
  <1> QED BY <1>1, <1>2 DEF OpenTemp, OpenTempFails, TypeOK, Place, Path

LEMMA OpenTempEffect ==
  ASSUME TypeOK, OpenTemp
  PROVE  \E c \in Paired(Readable(Decrypted)) :
            c \in Content /\ Opened(TRUE, "temp", c) /\ Readable(Decrypted) # Junk
  <1>1. PICK c \in Paired(Readable(Decrypted)) :
             Opened(TRUE, "temp", c) /\ Readable(Decrypted) # Junk
    BY DEF OpenTemp
  <1>2. c \in Content
    BY <1>1, CopyEffect, Files, Views, Contents DEF Paired, Place
  <1> QED BY <1>1, <1>2

\* What a step does to the wallet that stays open, field by field.
LEMMA Fields ==
  ASSUME TypeOK
  PROVE  /\ \A key \in Key \cup {0} :
              LET w == [wallet EXCEPT !.cached = key, !.rewritten = TRUE]
              IN  /\ w \in Wallet /\ w.pc = wallet.pc /\ w.cached = key
                  /\ w.image = wallet.image
                  /\ w.passkey = wallet.passkey /\ w.place = At /\ w.rewritten
         /\ \A key \in Key \cup {0} :
              LET w == [wallet EXCEPT !.cached = key]
              IN  /\ w \in Wallet /\ w.pc = wallet.pc /\ w.cached = key
                  /\ w.image = wallet.image /\ w.passkey = wallet.passkey /\ w.place = At
                  /\ w.rewritten = wallet.rewritten
         /\ \A pc \in PC :
              LET w == [wallet EXCEPT !.pc = pc]
              IN  /\ w \in Wallet /\ w.pc = pc /\ w.cached = wallet.cached
                  /\ w.image = wallet.image /\ w.passkey = wallet.passkey /\ w.place = At
                  /\ w.rewritten = wallet.rewritten
  BY DEF TypeOK, Wallet, At

LEMMA CloseEncryptsEffect ==
  ASSUME TypeOK, SessionInv, CloseEncrypts
  PROVE  /\ wallet.pc = "closing" /\ Source.content # Absent
         /\ wallet' \in Wallet /\ wallet'.pc = "encrypted"
         /\ wallet'.passkey = wallet.passkey /\ wallet'.place = At
         /\ wallet'.rewritten = wallet.rewritten
         /\ keyring' \in Key /\ keyring' # 0 /\ wallet'.cached = keyring'
         /\ wallet'.image = Encrypted(Source, keyring')
         /\ spoiled' = (spoiled \/ Replaced)
         /\ ~Replaced => keyring = 0 \/ keyring' = keyring
         /\ UNCHANGED <<file, wal, seeds, last>>
  <1>1. PICK key \in Key :
           /\ GetKey(key)
           /\ wallet' = [wallet EXCEPT !.pc = "encrypted", !.cached = key,
                                       !.image = Encrypted(Source, key)]
    BY DEF CloseEncrypts
  <1>2. keyring' = key /\ key # 0 /\ (~Replaced => keyring = 0 \/ keyring' = keyring)
    BY <1>1, Keys
  <1>3. Encrypted(Source, key) \in File BY Views, Files
  <1>4. /\ wallet' \in Wallet /\ wallet'.pc = "encrypted" /\ wallet'.cached = key
        /\ wallet'.image = Encrypted(Source, key)
        /\ wallet'.passkey = wallet.passkey /\ wallet'.place = At
        /\ wallet'.rewritten = wallet.rewritten
    BY <1>1, <1>3 DEF TypeOK, Wallet, At, PC
  <1> QED BY <1>2, <1>4 DEF CloseEncrypts

LEMMA EncryptDatabaseEffect ==
  ASSUME TypeOK, SessionInv, EncryptDatabase
  PROVE  /\ wallet.pc = "open" /\ wallet.passkey /\ spoiled'
         /\ wallet' \in Wallet /\ wallet'.pc = "open" /\ wallet'.passkey
         /\ wallet'.place = At /\ wallet'.rewritten
         /\ keyring' \in Key /\ wallet'.cached = keyring'
         /\ file' \in [Place -> File] /\ file'["path"] = Encrypted(Source, keyring')
         /\ UNCHANGED <<wal, seeds, last>>
  <1>1. PICK key \in Key :
           /\ GetKey(key)
           /\ file' = RemoveTemp(Rewritten(Encrypted(Source, key)))
           /\ wallet' = [wallet EXCEPT !.cached = key, !.rewritten = TRUE]
    BY DEF EncryptDatabase
  <1>2. keyring' = key BY <1>1, Keys
  <1>3. Encrypted(Source, key) \in File BY Views, Files
  <1>4. file' \in [Place -> File] /\ file'["path"] = Encrypted(Source, key)
    BY <1>1, <1>3, Rewriting, Removing
  <1>5. /\ wallet.pc = "open" /\ wallet.passkey /\ spoiled'
        /\ UNCHANGED <<wal, seeds, last>>
    BY DEF EncryptDatabase
  <1>6. /\ wallet' \in Wallet /\ wallet'.pc = "open" /\ wallet'.passkey
        /\ wallet'.place = At /\ wallet'.rewritten /\ wallet'.cached = key
    BY <1>1, <1>5, Fields
  <1> QED BY <1>2, <1>4, <1>5, <1>6

\* The steps that keep the files: a backup, an authentication.
LEMMA KeyEffect ==
  ASSUME TypeOK, SessionInv, ExportBackup \/ Authenticate
  PROVE  /\ wallet.pc = "open"
         /\ wallet' \in Wallet /\ wallet'.pc = "open" /\ wallet'.passkey = wallet.passkey
         /\ wallet'.place = At /\ wallet'.rewritten = wallet.rewritten
         /\ keyring' \in Key \cup {0} /\ wallet'.cached \in {0, keyring'}
         /\ spoiled' \in BOOLEAN
         /\ ~spoiled' => ~spoiled /\ (keyring = 0 \/ keyring' = keyring)
         /\ UNCHANGED <<file, wal, seeds, last>>
  <1>1. CASE ExportBackup
    <2>1. PICK key \in Key :
             /\ GetKey(key)
             /\ wallet' = [wallet EXCEPT !.cached = IF wallet.passkey THEN key ELSE 0]
      BY <1>1 DEF ExportBackup
    <2>2. keyring' = key /\ (~Replaced => keyring = 0 \/ keyring' = keyring)
      BY <2>1, Keys
    <2>3. (IF wallet.passkey THEN key ELSE 0) \in Key \cup {0} OBVIOUS
    <2>4. /\ wallet' \in Wallet /\ wallet'.pc = wallet.pc
          /\ wallet'.cached = IF wallet.passkey THEN key ELSE 0
          /\ wallet'.passkey = wallet.passkey /\ wallet'.place = At
          /\ wallet'.rewritten = wallet.rewritten
      BY <2>1, <2>3, Fields
    <2>5. /\ wallet.pc = "open" /\ spoiled' = (spoiled \/ Replaced)
          /\ UNCHANGED <<file, wal, seeds, last>>
      BY <1>1 DEF ExportBackup
    <2> QED BY <2>2, <2>4, <2>5
  <1>2. CASE Authenticate
    <2>1. PICK key \in {0, keyring} : wallet' = [wallet EXCEPT !.cached = key]
      <3>1. wallet.cached \in {0, keyring} BY DEF SessionInv
      <3>2. \/ wallet' = [wallet EXCEPT !.cached = IF @ # 0 THEN @ ELSE keyring]
            \/ wallet' = [wallet EXCEPT !.cached = 0]
        BY <1>2 DEF Authenticate
      <3> QED BY <3>1, <3>2
    <2>2. key \in Key \cup {0} BY DEF TypeOK
    <2>3. /\ wallet' \in Wallet /\ wallet'.pc = wallet.pc /\ wallet'.cached = key
          /\ wallet'.passkey = wallet.passkey /\ wallet'.place = At
          /\ wallet'.rewritten = wallet.rewritten
      BY <2>1, <2>2, Fields
    <2>4. wallet.pc = "open" /\ UNCHANGED <<file, wal, keyring, seeds, last, spoiled>>
      BY <1>2 DEF Authenticate
    <2> QED BY <2>3, <2>4 DEF TypeOK
  <1> QED BY <1>1, <1>2

LEMMA Dropping ==
  ASSUME TypeOK, DropStore
  PROVE  /\ wallet.pc = "open" /\ wallet.passkey /\ Disconnect(file, At)
         /\ wallet' \in Wallet /\ wallet'.pc = "closing" /\ wallet'.passkey
         /\ wallet'.cached = wallet.cached /\ wallet'.place = At
         /\ wallet'.rewritten = wallet.rewritten
         /\ last' \in LastEnd /\ last'.seen = View(At) /\ last'.kept = last.kept
         /\ last'.how = last.how
         /\ UNCHANGED <<keyring, seeds, spoiled>>
  <1>1. wallet' = [wallet EXCEPT !.pc = "closing"] BY DEF DropStore
  <1>2. "closing" \in PC BY DEF PC
  <1>3. last' = [last EXCEPT !.seen = View(At)] BY DEF DropStore
  <1>4. View(At) \in Content BY Views
  <1>5. /\ last' \in LastEnd /\ last'.seen = View(At) /\ last'.kept = last.kept
        /\ last'.how = last.how
    BY <1>3, <1>4 DEF LastEnd, TypeOK
  <1>6. /\ wallet.pc = "open" /\ wallet.passkey /\ Disconnect(file, At)
        /\ UNCHANGED <<keyring, seeds, spoiled>>
    BY DEF DropStore
  <1>7. /\ wallet' \in Wallet /\ wallet'.pc = "closing"
        /\ wallet'.passkey = wallet.passkey
        /\ wallet'.cached = wallet.cached /\ wallet'.place = At
        /\ wallet'.rewritten = wallet.rewritten
    BY <1>1, <1>2, Fields
  <1> QED BY <1>5, <1>6, <1>7

\* Every variable keeps its type.
LEMMA TypeStep == ASSUME TypeOK, SessionInv, [Next]_vars PROVE TypeOK'
  <1>1. ASSUME NEW passkey \in BOOLEAN, OpenPath(passkey) PROVE TypeOK'
    <2>1. Opened(passkey, "path", View("path")) /\ file' \in [Place -> File]
      BY <1>1, OpenPathEffect
    <2>2. "path" \in Place /\ View("path") \in Content BY Views DEF Place
    <2>3. /\ wallet' \in Wallet /\ wal' \in [Place -> Content] /\ seeds' \in 0 .. MaxSeeds
          /\ spoiled' \in BOOLEAN /\ UNCHANGED <<keyring, last>>
      BY <2>1, <2>2, Opening
    <2> QED BY <2>1, <2>3 DEF TypeOK
  <1>2. CASE OpenTemp
    <2>1. PICK c \in Paired(Readable(Decrypted)) : c \in Content /\ Opened(TRUE, "temp", c)
      BY <1>2, OpenTempEffect
    <2>2. "temp" \in Place /\ TRUE \in BOOLEAN BY DEF Place
    <2>3. /\ wallet' \in Wallet /\ wal' \in [Place -> Content] /\ seeds' \in 0 .. MaxSeeds
          /\ spoiled' \in BOOLEAN /\ UNCHANGED <<keyring, last>>
      BY <2>1, <2>2, Opening
    <2> QED BY <1>2, <2>3, CopyEffect DEF TypeOK
  <1>3. CASE OpenTempFails
    BY <1>3, CopyEffect DEF TypeOK, OpenTempFails
  <1>4. CASE Commit
    <2>1. /\ View(At).commits < MaxCommits /\ UNCHANGED <<file, keyring, wallet, seeds, last, spoiled>>
          /\ wal' = [wal EXCEPT ![At] = [View(At) EXCEPT !.commits = @ + 1]]
      BY <1>4 DEF Commit
    <2>2. [View(At) EXCEPT !.commits = @ + 1] \in Content
      BY <2>1, Views, LifecycleAssumption DEF Content
    <2>3. wal' \in [Place -> Content] BY <2>1, <2>2 DEF TypeOK
    <2> QED BY <2>1, <2>3 DEF TypeOK
  <1>5. CASE Checkpoint
    <2>1. Plain(wal[At]) \in File BY Views, Files
    <2> QED BY <1>5, <2>1 DEF TypeOK, Checkpoint
  <1>6. CASE ExportBackup
    BY <1>6, KeyEffect DEF TypeOK
  <1>7. CASE Authenticate
    BY <1>7, KeyEffect DEF TypeOK
  <1>8. CASE EncryptDatabase
    BY <1>8, EncryptDatabaseEffect DEF TypeOK, EncryptDatabase
  <1>9. CASE EncryptWithPassword
    <2>1. Encrypted(file["path"], Password) \in File BY Views, Files DEF Place
    <2>2. file' \in [Place -> File] BY <1>9, <2>1, Rewriting DEF EncryptWithPassword
    <2>3. wallet' \in Wallet BY <1>9 DEF EncryptWithPassword, TypeOK, Wallet
    <2> QED BY <1>9, <2>2, <2>3 DEF TypeOK, EncryptWithPassword
  <1>10. CASE DecryptWithPassword
    <2>1. Unlocked(file["path"]) \in File BY <1>10, Views, Files DEF Place, DecryptWithPassword
    <2>2. file' \in [Place -> File] BY <1>10, <2>1, Rewriting DEF DecryptWithPassword
    <2> QED BY <1>10, <2>2 DEF TypeOK, DecryptWithPassword
  <1>11. CASE Close
    <2>1. file' \in [Place -> File] /\ wal' \in [Place -> Content]
      BY <1>11, Views, Disconnecting DEF Close, TypeOK
    <2>2. wallet' \in Wallet /\ last' \in LastEnd
      BY <1>11, Ending, ShutTyped DEF Close, Closed
    <2> QED BY <1>11, <2>1, <2>2 DEF TypeOK, Close
  <1>12. CASE DropStore
    <2>1. file' \in [Place -> File] /\ wal' \in [Place -> Content]
      BY <1>12, Views, Disconnecting, Dropping DEF TypeOK
    <2> QED BY <1>12, <2>1, Dropping DEF TypeOK
  <1>13. CASE CloseEncrypts
    BY <1>13, CloseEncryptsEffect DEF TypeOK
  <1>14. CASE CloseWrites
    <2>1. wallet.image \in File BY DEF TypeOK, Wallet
    <2>2. file' \in [Place -> File] BY <1>14, <2>1, Rewriting DEF CloseWrites
    <2>3. wallet' \in Wallet BY <1>14 DEF CloseWrites, TypeOK, Wallet, PC
    <2> QED BY <1>14, <2>2, <2>3 DEF TypeOK, CloseWrites
  <1>15. ASSUME file' \in [Place -> File], wal' \in [Place -> Content],
                NEW how \in {"closed", "ended", "crashed"}, Ended(how),
                spoiled' \in BOOLEAN, UNCHANGED <<keyring, seeds>>
         PROVE  TypeOK'
    BY <1>15, Ending, ShutTyped DEF TypeOK
  <1>16. CASE CloseRemoves
    BY <1>15, <1>16, Removing DEF CloseRemoves, TypeOK, Closed
  <1>17. CASE CloseFails
    BY <1>15, <1>17, Removing DEF CloseFails, TypeOK
  <1>18. CASE Drop
    <2>1. RemoveTemp(file) \in [Place -> File] BY Removing DEF TypeOK
    <2>2. file' \in [Place -> File] /\ wal' \in [Place -> Content]
      BY <1>18, <2>1, Views, Disconnecting DEF Drop
    <2> QED BY <1>15, <1>18, <2>2 DEF Drop, TypeOK
  <1>19. Torn \subseteq [Place -> File]
    BY Contents, Files, Rewriting DEF Torn
  <1>20. CASE CrashInWrite
    BY <1>15, <1>19, <1>20 DEF CrashInWrite, TypeOK
  <1>21. CASE WriteFails
    BY <1>15, <1>19, <1>21, Removing DEF WriteFails, TypeOK
  <1>22. CASE Crash
    BY <1>15, <1>22 DEF Crash, TypeOK
  <1>23. CASE UNCHANGED vars
    BY <1>23 DEF TypeOK, vars
  <1> QED BY <1>1, <1>2, <1>3, <1>4, <1>5, <1>6, <1>7, <1>8, <1>9, <1>10, <1>11, <1>12,
             <1>13, <1>14, <1>16, <1>17, <1>18, <1>20, <1>21, <1>22, <1>23 DEF Next

----------------------------------------------------------------------------
(* Sessions *)

\* Only an open changes anything at rest.
LEMMA AtRestSteps ==
  ASSUME [Next]_vars, AtRest
  PROVE  \/ \E passkey \in BOOLEAN : OpenPath(passkey)
         \/ OpenTemp \/ OpenTempFails \/ UNCHANGED vars
  BY DEF AtRest, Next, Commit, Checkpoint, ExportBackup, Authenticate, EncryptDatabase,
         EncryptWithPassword, DecryptWithPassword, Close, DropStore, CloseEncrypts,
         CloseWrites, CloseRemoves, CloseFails, Drop, CrashInWrite, WriteFails, Crash

LEMMA SessionInit == Init => SessionInv /\ Unborn
  BY ShutTyped DEF Init, SessionInv, AtRest, Unborn, Path, Place

LEMMA SessionStep == ASSUME TypeOK, SessionInv, [Next]_vars PROVE SessionInv'
  <1> USE DEF SessionInv, AtRest, At
  <1>1. ASSUME NEW passkey \in BOOLEAN, OpenPath(passkey) PROVE SessionInv'
    <2>1. Opened(passkey, "path", View("path")) BY <1>1, OpenPathEffect
    <2>2. "path" \in Place /\ View("path") \in Content BY Views DEF Place
    <2> QED BY <2>1, <2>2, Opening
  <1>2. CASE OpenTemp
    <2>1. PICK c \in Paired(Readable(Decrypted)) : c \in Content /\ Opened(TRUE, "temp", c)
      BY <1>2, OpenTempEffect
    <2>2. "temp" \in Place /\ TRUE \in BOOLEAN BY DEF Place
    <2> QED BY <2>1, <2>2, Opening
  <1>3. CASE OpenTempFails BY <1>3 DEF OpenTempFails
  <1>4. CASE Commit BY <1>4 DEF Commit
  <1>5. CASE Checkpoint BY <1>5 DEF Checkpoint
  <1>6. CASE ExportBackup \/ Authenticate BY <1>6, KeyEffect
  <1>7. CASE EncryptDatabase BY <1>7, EncryptDatabaseEffect
  <1>8. CASE EncryptWithPassword
    <2>1. /\ wallet'.pc = wallet.pc /\ wallet'.passkey = wallet.passkey
          /\ wallet'.cached = wallet.cached /\ wallet'.place = At
      BY <1>8 DEF EncryptWithPassword, TypeOK, Wallet
    <2> QED BY <1>8, <2>1 DEF EncryptWithPassword
  <1>9. CASE DecryptWithPassword BY <1>9 DEF DecryptWithPassword
  <1>10. CASE DropStore BY <1>10, Dropping
  <1>11. CASE CloseEncrypts BY <1>11, CloseEncryptsEffect
  <1>12. CASE CloseWrites
    <2>1. /\ wallet'.pc = "written" /\ wallet'.passkey = wallet.passkey
          /\ wallet'.cached = wallet.cached /\ wallet'.place = At
      BY <1>12 DEF CloseWrites, TypeOK, Wallet
    <2> QED BY <1>12, <2>1 DEF CloseWrites
  <1>13. ASSUME NEW how \in {"closed", "ended", "crashed"}, Ended(how) PROVE SessionInv'
    BY <1>13, Ending, ShutTyped
  <1>14. CASE Close \/ CloseRemoves \/ CloseFails \/ Drop \/ CrashInWrite \/ WriteFails \/ Crash
    BY <1>13, <1>14
       DEF Close, CloseRemoves, Closed, CloseFails, Drop, CrashInWrite, WriteFails, Crash
  <1>15. CASE UNCHANGED vars BY <1>15 DEF vars
  <1> QED BY <1>1, <1>2, <1>3, <1>4, <1>5, <1>6, <1>7, <1>8, <1>9, <1>10, <1>11, <1>12,
             <1>14, <1>15 DEF Next

LEMMA UnbornStep == ASSUME TypeOK, Unborn, [Next]_vars PROVE Unborn'
  <1>1. CASE seeds = 0
    <2>1. AtRest /\ Path = Plain(Absent) /\ wal["path"] = Absent
      BY <1>1 DEF Unborn, Place
    <2>2. Path.locks = <<>> BY <2>1, Contents, Files
    <2>3. ~OpenTemp /\ ~OpenTempFails
      <3>1. Path \in File BY DEF TypeOK, Path, Place
      <3> QED BY <2>2, <3>1, CopyEffect, Files
    <2>4. ASSUME NEW passkey \in BOOLEAN, OpenPath(passkey) PROVE Unborn'
      <3>1. View("path") = Absent /\ "path" \in Place
        BY <2>1, Contents, Files DEF View, Path, Place
      <3>2. seeds' = seeds + 1 BY <2>4, <3>1, OpenPathEffect, Opening, Contents
      <3> QED BY <1>1, <3>2 DEF Unborn
    <2>5. CASE UNCHANGED vars BY <2>5 DEF vars, Unborn, AtRest, Path
    <2> QED BY <2>1, <2>3, <2>4, <2>5, AtRestSteps
  <1>2. CASE seeds # 0
    <2>1. seeds' # 0
      <3>1. ASSUME NEW passkey \in BOOLEAN, NEW p \in Place, NEW c \in Content,
                   Opened(passkey, p, c)
            PROVE  seeds' # 0
        BY <1>2, <3>1, Opening DEF TypeOK
      <3>2. ASSUME NEW passkey \in BOOLEAN, OpenPath(passkey) PROVE seeds' # 0
        <4>1. "path" \in Place /\ View("path") \in Content BY Views DEF Place
        <4> QED BY <3>1, <3>2, <4>1, OpenPathEffect
      <3>3. CASE OpenTemp
        <4>1. "temp" \in Place /\ TRUE \in BOOLEAN BY DEF Place
        <4> QED BY <3>1, <3>3, <4>1, OpenTempEffect
      <3>4. CASE UNCHANGED seeds BY <1>2, <3>4
      <3> QED BY <3>2, <3>3, <3>4
              DEF Next, vars, OpenTempFails, Commit, Checkpoint, ExportBackup, Authenticate,
                  EncryptDatabase, EncryptWithPassword, DecryptWithPassword, Close,
                  DropStore, CloseEncrypts, CloseWrites, CloseRemoves, CloseFails, Drop,
                  CrashInWrite, WriteFails, Crash
    <2> QED BY <2>1 DEF Unborn
  <1> QED BY <1>1, <1>2

----------------------------------------------------------------------------
(* Closing *)

\* How the steps that keep the wallet open or closing change it.
LEMMA PasswordEffect ==
  ASSUME TypeOK, EncryptWithPassword \/ DecryptWithPassword
  PROVE  /\ wallet.pc = "open" /\ wallet'.pc = "open" /\ wallet'.passkey = wallet.passkey
         /\ wallet'.cached = wallet.cached /\ wallet'.place = At
         /\ ~wallet'.rewritten => ~wallet.rewritten
         /\ file'["temp"] = Temp
         /\ EncryptWithPassword => spoiled' /\ (At = "path" => wallet'.rewritten)
         /\ DecryptWithPassword =>
               /\ Locked(Path, Password) /\ Path.locks # <<>>
               /\ file'["path"] = Unlocked(Path) /\ spoiled' = spoiled
         /\ UNCHANGED <<wal, keyring, seeds, last>>
  <1>0. "path" \in Place /\ Path \in File BY DEF TypeOK, Path, Place
  <1>1. CASE EncryptWithPassword
    <2>1. Encrypted(Path, Password) \in File BY <1>0, Files
    <2>2. file'["temp"] = Temp
      BY <1>1, <2>1, Rewriting DEF EncryptWithPassword, Path
    <2>3. /\ wallet'.pc = wallet.pc /\ wallet'.passkey = wallet.passkey
          /\ wallet'.cached = wallet.cached /\ wallet'.place = At
          /\ wallet'.rewritten = (wallet.rewritten \/ At = "path")
      BY <1>1 DEF EncryptWithPassword, TypeOK, Wallet, At
    <2>4. ~DecryptWithPassword \/ /\ Locked(Path, Password)
                                  /\ file'["path"] = Unlocked(Path) /\ spoiled' = spoiled
      <3> SUFFICES ASSUME DecryptWithPassword
                   PROVE  Locked(Path, Password) /\ file'["path"] = Unlocked(Path)
                          /\ spoiled' = spoiled
        OBVIOUS
      <3>1. Locked(Path, Password) /\ spoiled' = spoiled BY DEF DecryptWithPassword, Path
      <3>2. Unlocked(Path) \in File BY <1>0, <3>1, Files
      <3> QED BY <3>1, <3>2, Rewriting DEF DecryptWithPassword, Path
    <2>5. wallet.pc = "open" /\ spoiled' /\ UNCHANGED <<wal, keyring, seeds, last>>
      BY <1>1 DEF EncryptWithPassword
    <2> QED BY <1>0, <2>2, <2>3, <2>4, <2>5, Files
  <1>2. CASE ~EncryptWithPassword /\ DecryptWithPassword
    <2>1. /\ wallet.pc = "open" /\ Locked(Path, Password)
          /\ UNCHANGED <<wal, keyring, wallet, seeds, last, spoiled>>
      BY <1>2 DEF DecryptWithPassword, Path
    <2>2. Path.locks # <<>> /\ Unlocked(Path) \in File BY <1>0, <2>1, Files
    <2>3. file'["temp"] = Temp /\ file'["path"] = Unlocked(Path)
      BY <1>2, <2>2, Rewriting DEF DecryptWithPassword, Path
    <2> QED BY <1>2, <2>1, <2>2, <2>3 DEF At
  <1> QED BY <1>1, <1>2

LEMMA WritesEffect ==
  ASSUME TypeOK, CloseWrites
  PROVE  /\ wallet.pc = "encrypted" /\ wallet'.pc = "written"
         /\ wallet'.passkey = wallet.passkey /\ wallet'.place = At
         /\ wallet'.image = wallet.image /\ wallet'.rewritten = wallet.rewritten
         /\ file'["path"] = wallet.image /\ file'["temp"] = Temp
         /\ UNCHANGED <<wal, keyring, seeds, last, spoiled>>
  <1>1. wallet.image \in File BY DEF TypeOK, Wallet
  <1>2. file'["path"] = wallet.image /\ file'["temp"] = Temp
    BY <1>1, Rewriting DEF CloseWrites
  <1>3. /\ wallet'.pc = "written" /\ wallet'.passkey = wallet.passkey /\ wallet'.place = At
        /\ wallet'.image = wallet.image /\ wallet'.rewritten = wallet.rewritten
    BY DEF CloseWrites, TypeOK, Wallet, At
  <1> QED BY <1>2, <1>3 DEF CloseWrites

\* A transaction is in the -wal file.
LEMMA Committing ==
  ASSUME TypeOK, Commit
  PROVE  /\ wallet.pc = "open" /\ ~wallet.rewritten
         /\ wal'[At].kind = View(At).kind /\ wal'[At].seed = View(At).seed
         /\ wal'[At].commits = View(At).commits + 1 /\ wal'[At] # Absent
         /\ \A q \in Place \ {At} : wal'[q] = wal[q]
         /\ UNCHANGED <<file, keyring, wallet, seeds, last, spoiled>>
  <1> DEFINE new == [View(At) EXCEPT !.commits = @ + 1]
  <1>1. View(At) \in Content /\ At \in Place BY Views
  <1>2. wal'[At] = new /\ \A q \in Place \ {At} : wal'[q] = wal[q]
    BY <1>1 DEF Commit, TypeOK
  <1>3. new.kind = View(At).kind /\ new.seed = View(At).seed
        /\ new.commits = View(At).commits + 1
    BY <1>1 DEF Content
  <1>4. Absent.commits = 0 /\ View(At).commits \in Nat
    BY <1>1, LifecycleAssumption DEF Absent, Of, Content
  <1>5. new # Absent
    <2>1. new.commits # Absent.commits BY <1>3, <1>4
    <2> HIDE DEF new
    <2> QED BY <2>1
  <1> QED BY <1>2, <1>3, <1>5 DEF Commit

LEMMA Checkpointing ==
  ASSUME TypeOK, Checkpoint
  PROVE  /\ wallet.pc = "open" /\ ~wallet.rewritten /\ wal[At] # Absent
         /\ file'[At] = Plain(wal[At]) /\ file'[At].locks = <<>>
         /\ file'[At].content = wal[At]
         /\ \A q \in Place \ {At} : file'[q] = file[q]
         /\ UNCHANGED <<wal, keyring, wallet, seeds, last, spoiled>>
  BY Views, Files DEF Checkpoint, TypeOK

LEMMA ClosingInit == Init => ClosingInv
  BY ShutTyped DEF Init, ClosingInv

LEMMA ClosingStep ==
  ASSUME TypeOK, SessionInv, ClosingInv, [Next]_vars
  PROVE  ClosingInv'
  <1> USE DEF At
  <1>1. ASSUME NEW passkey \in BOOLEAN, OpenPath(passkey) PROVE ClosingInv'
    <2>1. "path" \in Place /\ View("path") \in Content BY Views DEF Place
    <2>2. wallet'.pc = "open" /\ wallet'.place = "path"
      BY <1>1, <2>1, OpenPathEffect, Opening
    <2>3. ASSUME wal'["path"] = Absent PROVE file'["path"].locks = <<>>
      <3>1. wal["path"] = Absent
        BY <1>1, <2>1, <2>3, OpenPathEffect, Opening, Contents
      <3>2. Path.locks = <<>> BY <1>1, <3>1, OpenPathEffect
      <3> QED BY <1>1, <3>2, OpenPathEffect, Contents, Files
    <2> QED BY <2>2, <2>3 DEF ClosingInv
  <1>2. CASE OpenTemp
    <2>1. PICK c \in Content : Opened(TRUE, "temp", c) /\ Readable(Decrypted) # Junk
      BY <1>2, OpenTempEffect
    <2>2. "temp" \in Place /\ TRUE \in BOOLEAN BY DEF Place
    <2>3. wallet'.pc = "open" /\ wallet'.place = "temp" BY <2>1, <2>2, Opening
    <2>4. file'["temp"].locks = <<>> BY <1>2, <2>1, CopyEffect DEF Readable
    <2> QED BY <2>3, <2>4 DEF ClosingInv
  <1>3. CASE OpenTempFails
    BY <1>3 DEF OpenTempFails, ClosingInv
  <1>4. CASE Commit
    BY <1>4, Committing DEF ClosingInv
  <1>5. CASE Checkpoint
    BY <1>5, Checkpointing DEF ClosingInv
  <1>6. CASE ExportBackup \/ Authenticate
    BY <1>6, KeyEffect DEF ClosingInv
  <1>7. CASE EncryptDatabase
    BY <1>7, EncryptDatabaseEffect DEF ClosingInv
  <1>8. CASE EncryptWithPassword
    <2> SUFFICES ASSUME ~wallet'.rewritten, wal[At] = Absent PROVE file'[At].locks = <<>>
      BY <1>8, PasswordEffect DEF ClosingInv
    <2>1. At = "temp" /\ ~wallet.rewritten /\ wallet.pc = "open"
      BY <1>8, PasswordEffect, Views DEF Place
    <2> QED BY <1>8, <2>1, PasswordEffect DEF ClosingInv, Temp
  <1>9. CASE DecryptWithPassword
    <2> SUFFICES ASSUME ~wallet'.rewritten, wal[At] = Absent PROVE file'[At].locks = <<>>
      BY <1>9, PasswordEffect DEF ClosingInv
    <2>1. At # "path" BY <1>9, PasswordEffect DEF ClosingInv, Path
    <2>2. At = "temp" BY <2>1, Views DEF Place
    <2> QED BY <1>9, <2>2, PasswordEffect DEF ClosingInv, Temp
  <1>10. CASE DropStore
    <2>1. /\ wallet.pc = "open" /\ wallet'.pc = "closing" /\ wallet'.place = At
          /\ wallet'.rewritten = wallet.rewritten /\ last'.seen = View(At)
          /\ Disconnect(file, At)
      BY <1>10, Dropping
    <2> SUFFICES ASSUME ~wallet.rewritten, file'[At].content # Absent
                 PROVE  wal'[At] = Absent /\ file'[At] = Plain(View(At))
      BY <2>1 DEF ClosingInv
    <2>2. At \in Place /\ file \in [Place -> File] BY Views DEF TypeOK
    <2>3. file[At].content # Absent BY <2>1, <2>2, Disconnecting
    <2>4. /\ wal'[At] = Absent
          /\ file'[At] = IF wal[At] = Absent THEN file[At] ELSE Plain(wal[At])
      BY <2>1, <2>2, <2>3, Disconnecting
    <2>5. CASE wal[At] = Absent
      <3>1. file[At].locks = <<>> /\ file[At] \in File
        BY <2>1, <2>2, <2>5 DEF ClosingInv
      <3>2. View(At) = file[At].content BY <2>5, <3>1, Files DEF View
      <3> QED BY <2>4, <2>5, <3>1, <3>2, Files
    <2>6. CASE wal[At] # Absent BY <2>4, <2>6 DEF View
    <2> QED BY <2>5, <2>6
  <1>11. CASE CloseEncrypts
    BY <1>11, CloseEncryptsEffect DEF ClosingInv, Source
  <1>12. CASE CloseWrites
    BY <1>12, WritesEffect DEF ClosingInv, Path
  <1>13. CASE Close \/ CloseRemoves \/ CloseFails \/ Drop \/ CrashInWrite \/ WriteFails \/ Crash
    <2>1. wallet' = Shut
      BY <1>13 DEF Close, CloseRemoves, Closed, CloseFails, Drop, CrashInWrite,
                   WriteFails, Crash, Ended
    <2> QED BY <2>1, ShutTyped DEF ClosingInv
  <1>14. CASE UNCHANGED vars
    BY <1>14 DEF vars, ClosingInv, Path
  <1> QED BY <1>1, <1>2, <1>3, <1>4, <1>5, <1>6, <1>7, <1>8, <1>9, <1>10, <1>11, <1>12,
             <1>13, <1>14 DEF Next

----------------------------------------------------------------------------
(* What a close keeps *)

LEMMA CloseKeepsStep ==
  ASSUME TypeOK, SessionInv, ClosingInv, CloseKeeps, [Next]_vars
  PROVE  CloseKeeps'
  <1> USE DEF AtRest
  <1>1. ASSUME wallet'.pc # "shut" PROVE CloseKeeps'
    BY <1>1 DEF CloseKeeps
  <1>2. CASE UNCHANGED vars
    BY <1>2 DEF vars, CloseKeeps, View
  <1>3. ASSUME NEW passkey \in BOOLEAN, OpenPath(passkey) PROVE CloseKeeps'
    <2>1. "path" \in Place /\ View("path") \in Content BY Views DEF Place
    <2> QED BY <1>1, <1>3, <2>1, OpenPathEffect, Opening
  <1>4. CASE OpenTemp
    <2>1. "temp" \in Place /\ TRUE \in BOOLEAN BY DEF Place
    <2> QED BY <1>1, <1>4, <2>1, OpenTempEffect, Opening
  <1>5. CASE OpenTempFails
    <2>1. file'["path"] = file["path"] BY <1>5, CopyEffect DEF Path
    <2>2. UNCHANGED <<wal, keyring, wallet, last>> BY <1>5 DEF OpenTempFails
    <2> QED BY <2>1, <2>2 DEF CloseKeeps, View
  <1>6. CASE Close
    <2>1. CASE wallet.rewritten
      BY <1>6, <2>1, Ending DEF Close, Closed, CloseKeeps
    <2>2. CASE ~wallet.rewritten
      <3>1. /\ wallet.pc = "open" /\ ~wallet.passkey /\ Disconnect(file, At)
            /\ Ended("closed") /\ UNCHANGED keyring
        BY <1>6, <2>2 DEF Close, Closed
      <3>2. At = "path" /\ At \in Place /\ file \in [Place -> File]
        BY <3>1, Views DEF SessionInv, TypeOK
      <3>3. last'.how = "closed" /\ ~last'.passkey /\ last'.kept = View("path")
        BY <3>1, <3>2, Ending
      <3>4. CASE file["path"].content = Absent
        <4>1. file' = file /\ wal' = wal BY <3>1, <3>2, <3>4, Disconnecting
        <4> QED BY <3>3, <4>1 DEF CloseKeeps, View
      <3>5. CASE file["path"].content # Absent
        <4>1. /\ wal'["path"] = Absent
              /\ file'["path"] = IF wal["path"] = Absent THEN file["path"]
                                 ELSE Plain(wal["path"])
          BY <2>2, <3>1, <3>2, <3>5, Disconnecting
        <4>2. wal["path"] # Absent => Readable(file'["path"]) = wal["path"]
          <5>1. "path" \in Place /\ wal["path"] \in Content BY Views DEF Place
          <5> QED BY <4>1, <5>1, Files DEF Readable
        <4> QED BY <3>3, <4>1, <4>2 DEF CloseKeeps, View
      <3> QED BY <3>4, <3>5
    <2> QED BY <2>1, <2>2
  <1>7. CASE CloseRemoves
    <2>1. CASE wallet.rewritten
      BY <1>7, <2>1, Ending DEF CloseRemoves, Closed, CloseKeeps
    <2>2. CASE ~wallet.rewritten
      <3>1. /\ wallet.pc = "written" /\ file' = RemoveTemp(file)
            /\ Ended("closed") /\ UNCHANGED keyring
        BY <1>7, <2>2 DEF CloseRemoves, Closed
      <3>2. wallet.passkey BY <3>1 DEF SessionInv
      <3>3. last'.how = "closed" /\ last'.passkey /\ last'.kept = last.seen
        BY <3>1, <3>2, Ending
      <3>4. file'["path"] = file["path"] BY <3>1, Removing DEF TypeOK
      <3>5. file["path"] = Encrypted(Plain(last.seen), keyring)
        BY <2>2, <3>1 DEF ClosingInv, Path
      <3> QED BY <3>1, <3>3, <3>4, <3>5 DEF CloseKeeps
    <2> QED BY <2>1, <2>2
  <1>8. ASSUME NEW how \in {"ended", "crashed"}, Ended(how) PROVE CloseKeeps'
    BY <1>8, Ending DEF CloseKeeps
  <1>9. CASE CloseFails \/ Drop \/ CrashInWrite \/ WriteFails \/ Crash
    BY <1>8, <1>9 DEF CloseFails, Drop, CrashInWrite, WriteFails, Crash
  <1>10. CASE ExportBackup \/ Authenticate BY <1>1, <1>10, KeyEffect
  <1>11. CASE EncryptWithPassword \/ DecryptWithPassword BY <1>1, <1>11, PasswordEffect
  <1>12. CASE Commit \/ Checkpoint BY <1>1, <1>12, Committing, Checkpointing
  <1>13. CASE EncryptDatabase \/ DropStore \/ CloseEncrypts \/ CloseWrites
    BY <1>1, <1>13, EncryptDatabaseEffect, Dropping, CloseEncryptsEffect, WritesEffect
  <1> QED BY <1>2, <1>3, <1>4, <1>5, <1>6, <1>7, <1>9, <1>10, <1>11, <1>12, <1>13 DEF Next

----------------------------------------------------------------------------
(* Survival *)

LEMMA Sound ==
  ASSUME TypeOK, Surviving
  PROVE  /\ PathContent \notin {Absent, Fresh, Junk} /\ PathContent \in Content
         /\ Path \in File /\ Temp \in File
         /\ wal["path"] \in Content /\ wal["temp"] \in Content
  <1>1. PathContent.kind = "db" BY DEF Surviving, Keeps
  <1>2. Path \in File /\ Temp \in File /\ wal["path"] \in Content /\ wal["temp"] \in Content
    BY DEF TypeOK, Path, Temp, Place
  <1>3. PathContent \in Content BY <1>2, Files DEF PathContent
  <1> QED BY <1>1, <1>2, <1>3, Contents

LEMMA SurvivesOpenPath ==
  ASSUME TypeOK, SessionInv, Surviving, NEW passkey \in BOOLEAN, OpenPath(passkey)
  PROVE  Surviving'
  <1>0. "path" \in Place /\ "temp" \in Place \ {"path"} /\ View("path") \in Content
    BY Views DEF Place
  <1>1. Path.locks = <<>>
    BY OpenPathEffect, Files DEF Surviving
  <1>2. View("path") = PathContent
    BY <1>1, Sound, Files DEF View, PathContent, Path
  <1>3. /\ seeds' = seeds /\ wal'["temp"] = wal["temp"] /\ last' = last
        /\ wal'["path"] = IF wal["path"] = Absent THEN Absent ELSE PathContent
        /\ wallet'.pc = "open" /\ wallet'.place = "path" /\ ~wallet'.rewritten
    BY <1>0, <1>2, Sound, OpenPathEffect, Opening
  <1>4. wal'["path"] = wal["path"] BY <1>3 DEF PathContent
  <1>5. file'["path"] = Path /\ file'["temp"] = Temp
    BY OpenPathEffect DEF Surviving
  <1> QED BY <1>1, <1>3, <1>4, <1>5
          DEF Surviving, Keeps, PathContent, Path, Temp, AtRest, At

LEMMA SurvivesOpenTemp ==
  ASSUME TypeOK, SessionInv, Surviving, OpenTemp, ~spoiled'
  PROVE  Surviving'
  <1>1. PICK c \in Paired(Readable(Decrypted)) :
              c \in Content /\ Opened(TRUE, "temp", c) /\ Readable(Decrypted) # Junk
    BY OpenTempEffect
  <1>2. /\ Path.locks # <<>> /\ file'["path"] = Path /\ file'["temp"] = Decrypted
        /\ Decrypted \in File /\ Decrypted.content = Path.content
    BY CopyEffect, Sound, Files
  <1>3. wal["path"] = Absent /\ Keeps(Path.content) /\ Path.locks = <<keyring>> /\ keyring # 0
    BY <1>2 DEF Surviving, PathContent
  <1>4. Decrypted.locks = <<>> /\ Readable(Decrypted) = Path.content
    BY <1>1, <1>2, Files DEF Readable
  <1>5. "temp" \in Place /\ "path" \in Place \ {"temp"} /\ TRUE \in BOOLEAN BY DEF Place
  <1>6. c # Junk BY <1>1, <1>5, Opening
  <1>7. Keeps(c) /\ (wal["temp"] = Absent => c = Path.content)
    BY <1>1, <1>3, <1>4, <1>6 DEF Paired, Surviving
  <1>8. c \notin {Absent, Fresh} BY <1>7, Contents DEF Keeps
  <1>9. /\ seeds' = seeds /\ wal'["path"] = wal["path"] /\ last' = last /\ keyring' = keyring
        /\ wal'["temp"] = IF wal["temp"] = Absent THEN Absent ELSE c
        /\ wallet'.pc = "open" /\ wallet'.place = "temp" /\ ~wallet'.rewritten
    BY <1>1, <1>5, <1>8, Opening
  <1>10. View("temp")' = c
    <2>1. Readable(file'["temp"]) = Path.content BY <1>2, <1>4
    <2> QED BY <1>7, <1>9, <2>1, <1>8 DEF View
  <1>11. Keeps(c)' /\ Keeps(Path.content)'
    BY <1>1, <1>3, <1>7, <1>9, <1>2 DEF Keeps, Path
  <1>12. Temp'.content = Path.content /\ Temp'.locks = <<>> /\ Path' = Path
    BY <1>2, <1>4 DEF Temp, Path
  <1>13. PathContent' = Path.content BY <1>3, <1>9, <1>12 DEF PathContent
  <1>14. /\ Keeps(PathContent)' /\ Keeps(View("temp"))'
         /\ wal'["temp"] # Absent => Keeps(wal["temp"])'
    BY <1>9, <1>10, <1>11, <1>13, <1>3, <1>7 DEF Keeps
  <1> QED BY <1>2, <1>3, <1>9, <1>12, <1>14 DEF Surviving, AtRest, At

LEMMA SurvivesOpenTempFails ==
  ASSUME TypeOK, SessionInv, Surviving, OpenTempFails
  PROVE  Surviving'
  <1>1. file'["path"] = Path /\ wallet.pc = "shut" BY CopyEffect
  <1> QED BY <1>1
          DEF OpenTempFails, Surviving, Keeps, PathContent, Path, AtRest

LEMMA SurvivesUse ==
  ASSUME TypeOK, SessionInv, Surviving, Commit \/ Checkpoint
  PROVE  Surviving'
  <1>0. At \in {"path", "temp"} /\ Path \in File /\ Temp \in File
    BY Views, Sound DEF Place
  <1>1. CASE Commit
    <2>0. wallet.pc = "open" /\ UNCHANGED <<file, keyring, wallet, seeds, last>>
      BY <1>1, Committing
    <2>1. ASSUME NEW c, NEW d, Keeps(c), c \in Content, d.kind = c.kind, d.seed = c.seed,
                 d.commits = c.commits + 1
          PROVE  Keeps(d)
      <3>1. c.commits \in Nat /\ last.kept.commits \in Nat
        BY <2>1, Views, LifecycleAssumption DEF Content
      <3> QED BY <2>1, <3>1 DEF Keeps
    <2>2. View(At) \in Content BY Views
    <2>3. CASE At = "path"
      <3>1. View("path") = PathContent
        BY <2>3, <2>0, <1>0, Files DEF Surviving, View, PathContent, Path, AtRest
      <3>2. Keeps(wal'["path"])
        BY <1>1, <2>1, <2>2, <2>3, <3>1, Committing DEF Surviving
      <3>3. wal'["path"] # Absent /\ wal'["temp"] = wal["temp"]
        BY <1>1, <2>3, Committing DEF Place
      <3> QED BY <2>0, <2>3, <3>2, <3>3
              DEF Surviving, Keeps, PathContent, Path, Temp, AtRest, At
    <2>4. CASE At = "temp"
      <3>1. Keeps(View("temp")) /\ Path.locks # <<>>
        BY <2>4, <2>0 DEF Surviving, AtRest
      <3>2. Keeps(wal'["temp"])
        BY <1>1, <2>1, <2>2, <2>4, <3>1, Committing
      <3>3. wal'["temp"] # Absent /\ wal'["path"] = wal["path"]
        BY <1>1, <2>4, Committing DEF Place
      <3>4. View("temp")' = wal'["temp"] BY <3>3 DEF View
      <3> QED BY <2>0, <2>4, <3>1, <3>2, <3>3, <3>4
              DEF Surviving, Keeps, PathContent, Path, Temp, AtRest, At
    <2> QED BY <1>0, <2>3, <2>4
  <1>2. CASE Checkpoint
    <2>0. /\ wallet.pc = "open" /\ UNCHANGED <<wal, keyring, wallet, seeds, last>>
          /\ wal[At] # Absent
          /\ file'[At].locks = <<>> /\ file'[At].content = wal[At]
      BY <1>2, Checkpointing
    <2>1. CASE At = "path"
      <3>1. file'["temp"] = file["temp"] BY <1>2, <2>1, Checkpointing DEF Place
      <3> QED BY <2>0, <2>1, <3>1
              DEF Surviving, Keeps, PathContent, Path, Temp, AtRest, At, View
    <2>2. CASE At = "temp"
      <3>1. file'["path"] = file["path"] BY <1>2, <2>2, Checkpointing DEF Place
      <3> QED BY <2>0, <2>2, <3>1
              DEF Surviving, Keeps, PathContent, Path, Temp, AtRest, At, View
    <2> QED BY <1>0, <2>1, <2>2
  <1> QED BY <1>1, <1>2

\* The stored key cannot change while a ciphertext is under it.
LEMMA SurvivesKey ==
  ASSUME TypeOK, SessionInv, Surviving, ExportBackup \/ Authenticate, ~spoiled'
  PROVE  Surviving'
  <1>1. /\ wallet.pc = "open" /\ wallet'.pc = "open" /\ wallet'.place = At
        /\ wallet'.rewritten = wallet.rewritten /\ (keyring = 0 \/ keyring' = keyring)
        /\ UNCHANGED <<file, wal, seeds, last>>
    BY KeyEffect
  <1> QED BY <1>1 DEF Surviving, Keeps, PathContent, Path, Temp, AtRest, At, View

\* The connection to path closes: all is in the file.
LEMMA Settling ==
  ASSUME TypeOK, Surviving, wallet.pc = "open", At = "path",
         NEW f \in [Place -> File], f["path"] = Path, Disconnect(f, "path")
  PROVE  /\ file'["path"].locks = <<>> /\ file'["path"].content = PathContent
         /\ View("path") = PathContent
         /\ wal'["path"] = Absent /\ wal'["temp"] = Absent
  <1>1. "path" \in Place /\ "temp" \in Place \ {"path"} BY DEF Place
  <1>2. /\ Path.locks = <<>> /\ Path.content # Absent /\ ~wallet.rewritten
        /\ wal["temp"] = Absent
    BY DEF Surviving, AtRest
  <1>3. /\ wal'["path"] = Absent /\ wal'["temp"] = wal["temp"]
        /\ file'["path"] = IF wal["path"] = Absent THEN Path ELSE Plain(wal["path"])
    BY <1>1, <1>2, Disconnecting
  <1>4. View("path") = PathContent
    BY <1>2, Sound, Files DEF View, PathContent, Path
  <1> QED BY <1>2, <1>3, <1>4, Sound, Files DEF PathContent

LEMMA SurvivesClose ==
  ASSUME TypeOK, SessionInv, Surviving, Close
  PROVE  Surviving'
  <1>1. /\ wallet.pc = "open" /\ ~wallet.passkey /\ Disconnect(file, At) /\ Ended("closed")
        /\ UNCHANGED <<keyring, seeds>>
    BY DEF Close, Closed, Surviving
  <1>2. At = "path" BY <1>1 DEF SessionInv, AtRest
  <1>3. /\ file'["path"].locks = <<>> /\ file'["path"].content = PathContent
        /\ View("path") = PathContent /\ wal'["path"] = Absent /\ wal'["temp"] = Absent
    BY <1>1, <1>2, Settling DEF TypeOK, Path
  <1>4. wallet' = Shut /\ last'.kept = PathContent BY <1>1, <1>2, <1>3, Ending
  <1>5. PathContent.commits \in Nat BY Sound, LifecycleAssumption DEF Content
  <1>6. PathContent' = PathContent BY <1>3 DEF PathContent, Path
  <1>7. PathContent # Absent BY Sound
  <1>8. Keeps(PathContent) BY DEF Surviving
  <1>9. Keeps(PathContent)'
    BY <1>4, <1>5, <1>6, <1>8 DEF Keeps
  <1> QED BY <1>1, <1>3, <1>4, <1>7, <1>9, ShutTyped DEF Surviving, Path, AtRest

LEMMA SurvivesDropStore ==
  ASSUME TypeOK, SessionInv, ClosingInv, Surviving, DropStore
  PROVE  Surviving'
  <1>1. /\ wallet.pc = "open" /\ Disconnect(file, At) /\ wallet'.pc = "closing"
        /\ wallet'.place = At /\ wallet'.rewritten = wallet.rewritten
        /\ last'.seen = View(At) /\ last'.kept = last.kept /\ UNCHANGED <<keyring, seeds>>
    BY Dropping
  <1>2. At \in {"path", "temp"} BY Views DEF Place
  <1>3. CASE At = "path"
    <2>1. /\ file'["path"].locks = <<>> /\ file'["path"].content = PathContent
          /\ View("path") = PathContent /\ wal'["path"] = Absent /\ wal'["temp"] = Absent
      BY <1>1, <1>3, Settling DEF TypeOK, Path
    <2>2. PathContent' = PathContent /\ PathContent # Absent
      BY <2>1, Sound DEF PathContent, Path
    <2>3. Keeps(PathContent)' BY <1>1, <2>2 DEF Surviving, Keeps
    <2> QED BY <1>1, <1>3, <2>1, <2>2, <2>3 DEF Surviving, Path, AtRest, At
  <1>4. CASE At = "temp"
    <2>1. "temp" \in Place /\ "path" \in Place \ {"temp"} /\ file \in [Place -> File]
      BY DEF Place, TypeOK
    <2>2. /\ Path.locks # <<>> /\ Temp.locks = <<>> /\ Temp.content # Absent
          /\ Keeps(View("temp")) /\ ~wallet.rewritten
      BY <1>1, <1>4 DEF Surviving, AtRest
    <2>3. /\ wal'["temp"] = Absent /\ wal'["path"] = wal["path"] /\ file'["path"] = Path
          /\ file'["temp"] = IF wal["temp"] = Absent THEN Temp ELSE Plain(wal["temp"])
      BY <1>1, <1>4, <2>1, <2>2, Disconnecting DEF Path, Temp
    <2>4. View("temp") # Absent BY <2>2, Contents DEF Keeps
    <2>5. file'["temp"].locks = <<>> /\ file'["temp"].content = View("temp")
      BY <2>2, <2>3, Sound, Files DEF View, Temp
    <2>6. View("temp")' = View("temp")
      <3>1. Readable(file'["temp"]) = file'["temp"].content BY <2>5 DEF Readable
      <3> QED BY <2>3, <2>5, <3>1 DEF View
    <2>7. Keeps(View("temp"))' BY <1>1, <2>2, <2>6 DEF Keeps
    <2>8. PathContent' = PathContent BY <2>3 DEF PathContent, Path
    <2>9. Keeps(PathContent)' BY <1>1, <2>8 DEF Surviving, Keeps
    <2>10. Path' = Path BY <2>3 DEF Path
    <2> QED BY <1>1, <1>4, <2>2, <2>3, <2>4, <2>5, <2>7, <2>9, <2>10
            DEF Surviving, Temp, AtRest, At
  <1> QED BY <1>2, <1>3, <1>4

LEMMA SurvivesCloseEncrypts ==
  ASSUME TypeOK, SessionInv, Surviving, CloseEncrypts, ~spoiled'
  PROVE  Surviving'
  <1>1. /\ wallet.pc = "closing" /\ wallet'.pc = "encrypted" /\ wallet'.place = At
        /\ wallet'.rewritten = wallet.rewritten /\ (keyring = 0 \/ keyring' = keyring)
        /\ UNCHANGED <<file, wal, seeds, last>>
    BY CloseEncryptsEffect
  <1> QED BY <1>1 DEF Surviving, Keeps, PathContent, Path, Temp, AtRest, At, View

\* The bytes that a closing wallet writes are the wallet.
LEMMA Seen ==
  ASSUME TypeOK, Surviving, wallet.pc \in {"closing", "encrypted", "written"}
  PROVE  /\ Keeps(last.seen) /\ wal["path"] = Absent /\ wal["temp"] = Absent
         /\ last.seen # Absent
  <1>1. wal[At] = Absent /\ file[At].content = last.seen /\ At \in {"path", "temp"}
    BY Views DEF Surviving, Place
  <1>2. CASE At = "path"
    <2>1. Keeps(last.seen) BY <1>1, <1>2 DEF Surviving, PathContent, Path
    <2> QED BY <1>1, <1>2, <2>1, Contents DEF Surviving, AtRest, Keeps
  <1>3. CASE At = "temp"
    <2>1. Keeps(View("temp")) /\ Temp.locks = <<>> /\ Path.locks # <<>>
      BY <1>3 DEF Surviving, AtRest
    <2>2. View("temp") = last.seen BY <1>1, <1>3, <2>1 DEF View, Readable, Temp
    <2> QED BY <1>1, <1>3, <2>1, <2>2, Contents DEF Surviving, Keeps
  <1> QED BY <1>1, <1>2, <1>3

LEMMA SurvivesCloseWrites ==
  ASSUME TypeOK, SessionInv, ClosingInv, Surviving, CloseWrites
  PROVE  Surviving'
  <1>1. /\ wallet.pc = "encrypted" /\ wallet'.pc = "written" /\ wallet'.place = At
        /\ wallet'.rewritten = wallet.rewritten
        /\ file'["path"] = wallet.image /\ file'["temp"] = Temp
        /\ UNCHANGED <<wal, keyring, seeds, last>>
    BY WritesEffect
  <1>2. wallet.image = Encrypted(Plain(last.seen), keyring) /\ keyring # 0
    BY <1>1 DEF ClosingInv, Surviving
  <1>3. Keeps(last.seen) /\ wal["path"] = Absent /\ wal["temp"] = Absent /\ last.seen # Absent
    BY <1>1, Seen
  <1>4. wallet.image.locks = <<keyring>> /\ wallet.image.content = last.seen
    BY <1>2, Images, Views DEF TypeOK
  <1>5. PathContent' = last.seen BY <1>1, <1>3, <1>4 DEF PathContent, Path
  <1>6. Keeps(PathContent)' BY <1>1, <1>3, <1>5 DEF Keeps
  <1>7. At \in {"path", "temp"} BY Views DEF Place
  <1>8. file'[At].content = last.seen
    BY <1>1, <1>4, <1>7 DEF Surviving, Temp
  <1>9. At = "temp" => Keeps(View("temp"))'
    BY <1>1 DEF Surviving, Keeps, View, AtRest, Temp
  <1>10. At = "temp" => Temp.locks = <<>> /\ Temp.content # Absent
    BY <1>1 DEF Surviving, AtRest
  <1> QED BY <1>1, <1>2, <1>3, <1>4, <1>6, <1>8, <1>9, <1>10
          DEF Surviving, Path, Temp, AtRest, At

LEMMA SurvivesCloseRemoves ==
  ASSUME TypeOK, SessionInv, ClosingInv, Surviving, CloseRemoves
  PROVE  Surviving'
  <1>1. /\ wallet.pc = "written" /\ file' = RemoveTemp(file) /\ Ended("closed")
        /\ UNCHANGED <<wal, keyring, seeds>>
    BY DEF CloseRemoves, Closed, Surviving
  <1>2. file'["path"] = Path BY <1>1, Removing DEF TypeOK, Path
  <1>3. wallet' = Shut /\ last'.kept = last.seen
    BY <1>1, Ending DEF SessionInv, AtRest
  <1>4. Keeps(last.seen) /\ wal["path"] = Absent /\ wal["temp"] = Absent /\ last.seen # Absent
    BY <1>1, Seen
  <1>5. Path = Encrypted(Plain(last.seen), keyring)
    BY <1>1 DEF ClosingInv, Surviving
  <1>6. Path.content = last.seen /\ last.seen.commits \in Nat
    BY <1>5, Images, Views, LifecycleAssumption DEF TypeOK, Content
  <1>7. PathContent' = last.seen BY <1>1, <1>2, <1>4, <1>6 DEF PathContent, Path
  <1>8. Keeps(PathContent)' BY <1>3, <1>4, <1>6, <1>7 DEF Keeps
  <1>9. Path' = Path BY <1>2 DEF Path
  <1> QED BY <1>1, <1>3, <1>4, <1>8, <1>9, ShutTyped DEF Surviving, AtRest

\* Other ends keep the file at path, ...
LEMMA SurvivesEnd ==
  ASSUME TypeOK, SessionInv, Surviving, ~AtRest, NEW how \in {"ended", "crashed"}, Ended(how),
         file'["path"] = Path, UNCHANGED <<wal, keyring, seeds>>
  PROVE  Surviving'
  <1>1. wallet' = Shut /\ last'.kept = last.kept BY Ending
  <1>2. Path' = Path BY DEF Path
  <1>3. PathContent' = PathContent BY <1>2 DEF PathContent
  <1>4. Keeps(PathContent)' BY <1>1, <1>3 DEF Surviving, Keeps
  <1>5. wal["temp"] # Absent => Keeps(wal["temp"])' BY <1>1 DEF Surviving, Keeps
  <1> QED BY <1>1, <1>2, <1>4, <1>5, ShutTyped DEF Surviving, AtRest

\* ... a connection that closes without close has it settle there.
LEMMA SurvivesDrop ==
  ASSUME TypeOK, SessionInv, Surviving, Drop
  PROVE  Surviving'
  <1>1. /\ wallet.pc = "open" /\ Disconnect(RemoveTemp(file), At) /\ Ended("ended")
        /\ UNCHANGED <<keyring, seeds>>
    BY DEF Drop
  <1>2. /\ RemoveTemp(file) \in [Place -> File] /\ RemoveTemp(file)["path"] = Path
        /\ At \in {"path", "temp"}
    BY Removing, Views DEF TypeOK, Path, Place
  <1>3. CASE At = "temp"
    <2>1. wallet.passkey BY <1>1, <1>3 DEF SessionInv, AtRest
    <2>2. RemoveTemp(file)["temp"].content = Absent
      BY <1>3, <2>1, Removing, Contents, Files DEF TypeOK
    <2>3. file' = RemoveTemp(file) /\ wal' = wal
      BY <1>1, <1>2, <1>3, <2>2, Disconnecting DEF Place
    <2> QED BY <1>1, <1>2, <2>3, SurvivesEnd DEF AtRest
  <1>4. CASE At = "path"
    <2>1. /\ file'["path"].locks = <<>> /\ file'["path"].content = PathContent
          /\ wal'["path"] = Absent /\ wal'["temp"] = Absent
      BY <1>1, <1>2, <1>4, Settling
    <2>2. wallet' = Shut /\ last'.kept = last.kept BY <1>1, Ending
    <2>3. PathContent' = PathContent /\ PathContent # Absent
      BY <2>1, Sound DEF PathContent, Path
    <2>4. Keeps(PathContent)' BY <2>2, <2>3 DEF Surviving, Keeps
    <2> QED BY <1>1, <2>1, <2>2, <2>3, <2>4, ShutTyped DEF Surviving, Path, AtRest
  <1> QED BY <1>2, <1>3, <1>4

\* Once what loses a wallet has happened, nothing is said of it any more.
LEMMA SpoiledStays ==
  ASSUME TypeOK, SessionInv, [Next]_vars, ~spoiled'
  PROVE  ~spoiled
  <1>1. ASSUME NEW passkey \in BOOLEAN, NEW p \in Place, NEW c \in Content,
               Opened(passkey, p, c)
        PROVE  ~spoiled
    BY <1>1, Opening
  <1>2. ASSUME NEW passkey \in BOOLEAN, OpenPath(passkey) PROVE ~spoiled
    <2>1. "path" \in Place /\ View("path") \in Content BY Views DEF Place
    <2> QED BY <1>1, <1>2, <2>1, OpenPathEffect
  <1>3. CASE OpenTemp
    <2>1. "temp" \in Place /\ TRUE \in BOOLEAN BY DEF Place
    <2> QED BY <1>1, <1>3, <2>1, OpenTempEffect
  <1>4. CASE ExportBackup \/ Authenticate BY <1>4, KeyEffect
  <1>5. CASE EncryptDatabase BY <1>5, EncryptDatabaseEffect
  <1>6. CASE CloseEncrypts BY <1>6, CloseEncryptsEffect
  <1> QED BY <1>2, <1>3, <1>4, <1>5, <1>6
          DEF Next, vars, OpenTempFails, Commit, Checkpoint, EncryptWithPassword,
              DecryptWithPassword, Close, DropStore, CloseWrites, CloseRemoves, CloseFails,
              Drop, CrashInWrite, WriteFails, Crash

\* The first wallet is made.
LEMMA Born ==
  ASSUME TypeOK, SessionInv, Unborn, [Next]_vars, seeds = 0, seeds' > 0
  PROVE  Surviving'
  <1>1. /\ AtRest /\ Path = Plain(Absent) /\ wal["path"] = Absent /\ wal["temp"] = Absent
        /\ last.kept = Fresh
    BY DEF Unborn, Place
  <1>2. Path.locks = <<>> /\ Path.content = Absent /\ Path \in File
    BY <1>1, Contents, Files
  <1>3. ~OpenTemp /\ ~OpenTempFails BY <1>2, CopyEffect, Files
  <1>4. ~UNCHANGED vars BY DEF vars
  <1>5. PICK passkey \in BOOLEAN : OpenPath(passkey)
    BY <1>1, <1>3, <1>4, AtRestSteps
  <1>6. View("path") = Absent BY <1>1, <1>2, Contents, Files DEF View, Path
  <1>7. "path" \in Place /\ "temp" \in Place \ {"path"} BY DEF Place
  <1>8. Opened(passkey, "path", Absent) BY <1>5, <1>6, OpenPathEffect
  <1>9. /\ seeds' = 1 /\ wal'["path"].kind = "db" /\ wal'["path"].seed = 1
        /\ wal'["path"].commits = 0 /\ wal'["temp"] = Absent /\ last' = last
        /\ wallet'.pc = "open" /\ wallet'.place = "path" /\ ~wallet'.rewritten
    BY <1>1, <1>7, <1>8, Opening, Contents
  <1>10. file'["path"] = Plain(Fresh) BY <1>2, <1>5, OpenPathEffect
  <1>11. file'["path"].locks = <<>> /\ file'["path"].content = Fresh
    BY <1>10, Contents, Files
  <1>12. wal'["path"] # Absent BY <1>9, Contents
  <1>13. Keeps(PathContent)'
    BY <1>1, <1>9, <1>12, Contents DEF Keeps, PathContent
  <1> QED BY <1>9, <1>11, <1>12, <1>13, Contents DEF Surviving, Path, AtRest, At

LEMMA SurvivalStep ==
  ASSUME LifeInv, [Next]_vars
  PROVE  SurvivalInv'
  <1> USE DEF LifeInv
  <1> SUFFICES ASSUME seeds' > 0, ~spoiled' PROVE Surviving'
    BY DEF SurvivalInv
  <1>1. ~spoiled BY SpoiledStays
  <1>2. CASE seeds = 0 BY <1>2, Born
  <1>3. CASE seeds # 0
    <2>1. Surviving BY <1>1, <1>3 DEF TypeOK, SurvivalInv
    <2>2. ASSUME NEW passkey \in BOOLEAN, OpenPath(passkey) PROVE Surviving'
      BY <2>1, <2>2, SurvivesOpenPath
    <2>3. CASE OpenTemp BY <2>1, <2>3, SurvivesOpenTemp
    <2>4. CASE OpenTempFails BY <2>1, <2>4, SurvivesOpenTempFails
    <2>5. CASE Commit \/ Checkpoint BY <2>1, <2>5, SurvivesUse
    <2>6. CASE ExportBackup \/ Authenticate BY <2>1, <2>6, SurvivesKey
    <2>7. CASE EncryptDatabase BY <2>7, EncryptDatabaseEffect
    <2>8. CASE EncryptWithPassword BY <2>8, PasswordEffect
    <2>9. CASE DecryptWithPassword
      <3>1. Locked(Path, Password) /\ Path.locks # <<>> BY <2>9, PasswordEffect
      <3>2. Path.locks = <<keyring>> /\ keyring # 0 BY <2>1, <3>1 DEF Surviving
      <3> QED BY <2>1, <3>1, <3>2, Sound, Files DEF Password
    <2>10. CASE Close BY <2>1, <2>10, SurvivesClose
    <2>11. CASE DropStore BY <2>1, <2>11, SurvivesDropStore
    <2>12. CASE CloseEncrypts BY <2>1, <2>12, SurvivesCloseEncrypts
    <2>13. CASE CloseWrites BY <2>1, <2>13, SurvivesCloseWrites
    <2>14. CASE CloseRemoves BY <2>1, <2>14, SurvivesCloseRemoves
    <2>15. CASE CloseFails
      <3>1. file'["path"] = Path BY <2>15, Removing DEF CloseFails, TypeOK, Path
      <3> QED BY <2>1, <2>15, <3>1, SurvivesEnd DEF CloseFails, AtRest
    <2>16. CASE Drop BY <2>1, <2>16, SurvivesDrop
    <2>17. CASE CrashInWrite \/ WriteFails BY <2>17 DEF CrashInWrite, WriteFails
    <2>18. CASE Crash BY <2>1, <2>18, SurvivesEnd DEF Crash, AtRest, Path
    <2>19. CASE UNCHANGED vars
      BY <2>1, <2>19 DEF vars, Surviving, Keeps, PathContent, Path, Temp, AtRest, At, View
    <2> QED BY <2>2, <2>3, <2>4, <2>5, <2>6, <2>7, <2>8, <2>9, <2>10, <2>11, <2>12, <2>13,
               <2>14, <2>15, <2>16, <2>17, <2>18, <2>19 DEF Next
  <1> QED BY <1>2, <1>3

----------------------------------------------------------------------------
(* Theorems *)

LEMMA LifeInvAlways == Spec => []LifeInv
  <1>1. ASSUME Init PROVE LifeInv
    <2>1. CloseKeeps BY <1>1 DEF Init, CloseKeeps
    <2>2. SurvivalInv BY <1>1 DEF Init, SurvivalInv
    <2> QED BY <1>1, <2>1, <2>2, TypeInit, SessionInit, ClosingInit DEF LifeInv
  <1>2. ASSUME LifeInv, [Next]_vars PROVE LifeInv'
    BY <1>2, TypeStep, SessionStep, ClosingStep, UnbornStep, SurvivalStep, CloseKeepsStep
       DEF LifeInv
  <1> QED BY <1>1, <1>2, PTL DEF Spec

\* After a close that returned ok the file holds what the session had seen, under
\* the key that is stored then, whatever the keyring answered and whatever had
\* crashed before: close drops the store, so that the -wal file is in the database,
\* before encrypt_database reads it, and it encrypts with the key it has stored.
THEOREM CloseKeepsAlways == Spec => []CloseKeeps
  BY LifeInvAlways, PTL DEF LifeInv

\* Crashes between any two steps, closes that fail and sessions that are dropped
\* lose neither the seed nor a transaction that a close has kept, for any number of
\* them: every step leaves one whole copy of the wallet at path, in the clear or
\* under the stored key.
THEOREM WalletSurvivesAlways == Spec => []WalletSurvives
  <1>1. ASSUME LifeInv PROVE WalletSurvives
    <2> SUFFICES ASSUME AtRest, seeds > 0, ~spoiled
                 PROVE  /\ seeds = 1
                        /\ Path.locks \in {<<>>, <<keyring>>}
                        /\ Keeps(PathContent)
      BY DEF WalletSurvives, Keeps, PathContent, Path
    <2> QED BY <1>1 DEF LifeInv, SurvivalInv, Surviving
  <1> QED BY <1>1, LifeInvAlways, PTL

\* A session on a decrypted copy that ends otherwise than by a crash removes the
\* copy, also when close fails or its write does; a close that returned ok has
\* removed its -wal file too.
THEOREM CopyIsRemoved == Spec => CopyRemoved
  <1> DEFINE Removed ==
        wallet.place = "temp" /\ wallet'.pc = "shut" /\ last'.how # "crashed"
        => /\ file'["temp"] = Plain(Absent)
           /\ last'.how = "closed" => wal'["temp"] = Absent
  <1>1. ASSUME LifeInv, [Next]_vars, wallet.place = "temp", wallet'.pc = "shut",
               last'.how # "crashed"
        PROVE  /\ file'["temp"] = Plain(Absent)
               /\ last'.how = "closed" => wal'["temp"] = Absent
    <2> USE <1>1 DEF LifeInv
    <2>1. ~AtRest BY ShutTyped DEF SessionInv
    <2>2. wallet.passkey BY <2>1 DEF SessionInv, At
    <2>3. RemoveTemp(file)["temp"] = Plain(Absent) /\ RemoveTemp(file) \in [Place -> File]
      BY <2>2, Removing DEF TypeOK, At
    <2>4. ~OpenTemp /\ ~OpenTempFails /\ ~(\E passkey \in BOOLEAN : OpenPath(passkey))
      BY <2>1 DEF OpenTemp, OpenTempFails, OpenPath, AtRest
    <2>5. CASE CloseRemoves
      <3>1. file' = RemoveTemp(file) /\ wallet.pc = "written" /\ wal' = wal
        BY <2>5 DEF CloseRemoves
      <3>2. last'.how = "closed" => ~wallet.rewritten
        BY <2>5, Ending DEF CloseRemoves, Closed
      <3> QED BY <2>3, <3>1, <3>2 DEF ClosingInv, At
    <2>6. CASE CloseFails
      BY <2>3, <2>6, Ending DEF CloseFails
    <2>7. CASE Drop
      <3>1. Disconnect(RemoveTemp(file), "temp") /\ last'.how = "ended"
        BY <2>7, Ending DEF Drop, At
      <3>2. RemoveTemp(file)["temp"].content = Absent /\ "temp" \in Place
        BY <2>3, Contents, Files DEF Place
      <3> QED BY <2>3, <3>1, <3>2, Disconnecting
    <2>8. CASE WriteFails
      <3>1. PICK f \in Torn : file' = RemoveTemp(f) BY <2>8 DEF WriteFails
      <3>2. f \in [Place -> File] BY Contents, Files, Rewriting DEF Torn
      <3> QED BY <2>2, <2>8, <3>1, <3>2, Removing, Ending DEF WriteFails, At
    <2>9. ~Close /\ ~CrashInWrite /\ ~Crash
      BY <2>2, Ending DEF Close, CrashInWrite, Crash
    <2>10. ~Commit /\ ~Checkpoint /\ ~ExportBackup /\ ~Authenticate
      BY Committing, Checkpointing, KeyEffect
    <2>11. /\ ~EncryptDatabase /\ ~EncryptWithPassword /\ ~DecryptWithPassword
           /\ ~DropStore /\ ~CloseEncrypts /\ ~CloseWrites
      BY EncryptDatabaseEffect, PasswordEffect, Dropping, CloseEncryptsEffect, WritesEffect
    <2>12. ~UNCHANGED vars BY <2>1 DEF vars, AtRest
    <2> QED BY <2>4, <2>5, <2>6, <2>7, <2>8, <2>9, <2>10, <2>11, <2>12 DEF Next
  <1>2. LifeInv /\ [Next]_vars => [Removed]_vars BY <1>1
  <1> QED BY <1>2, LifeInvAlways, PTL DEF Spec, CopyRemoved

\* Why SamePasswordDecrypts fails, whatever the bounds: no call opens or changes a
\* file that was left under a password.  It is not a key's, and SQLite takes it
\* for a database only if a crash has left a -wal file beside it.
THEOREM PasswordLocksOut ==
  Spec => [][ AtRest /\ Locked(file["path"], Password) /\ wal["path"] = Absent
              => wallet' = wallet /\ file' = file ]_vars
  <1>1. ASSUME LifeInv, [Next]_vars, AtRest, Locked(Path, Password), wal["path"] = Absent
        PROVE  wallet' = wallet /\ file' = file
    <2> USE <1>1 DEF LifeInv
    <2>1. Path \in File BY DEF TypeOK, Path, Place
    <2>2. ~OpenTemp /\ ~OpenTempFails
      BY CopyEffect DEF Locked, Password
    <2>3. ~(\E passkey \in BOOLEAN : OpenPath(passkey))
      BY <2>1, OpenPathEffect, Files DEF Locked
    <2> QED BY <2>2, <2>3, AtRestSteps DEF vars
  <1>2. LifeInv /\ [Next]_vars
        => [AtRest /\ Locked(file["path"], Password) /\ wal["path"] = Absent
            => wallet' = wallet /\ file' = file]_vars
    BY <1>1 DEF Path
  <1> QED BY <1>2, LifeInvAlways, PTL DEF Spec

----------------------------------------------------------------------------
(* Seeds                                                                   *)
(*                                                                         *)
(* A wallet holds outputs of its own seed only, and a recover() from a     *)
(* seed gets to all the money on it unless the seed was given the depth of *)
(* another: for any number of seeds, depths and windows, and files         *)
(* restored or cut short at any point.                                     *)

SeedStep == [SeedNext]_seedVars

----------------------------------------------------------------------------
(* Types *)

LEMMA GeneratedSeed == ASSUME SeedTypeOK PROVE Generated \subseteq Seed
  BY DEF SeedTypeOK, Generated, Singleton

LEMMA SetSeedTyped ==
  ASSUME SeedTypeOK, NEW s \in Seed, SetSeed(s)
  PROVE  Singleton(seed') /\ owner' \subseteq Seed /\ mixed' \subseteq Seed
  BY DEF SeedTypeOK, SetSeed, Singleton

\* Every variable keeps its type.
LEMMA SeedTypeStep == ASSUME SeedTypeOK, SeedStep PROVE SeedTypeOK'
  <1> USE SeedsAssumption
  <1>1. CASE Open
    <2> PICK s \in Generated : SetSeed(s) BY <1>1 DEF Open
    <2> QED BY <1>1, GeneratedSeed, SetSeedTyped
            DEF Open, SeedTypeOK, server, Singleton, Session
  <1>2. ASSUME NEW s \in Given, OpenWithSeed(s) PROVE SeedTypeOK'
    <2>1. PICK x \in Seed : SetSeed(x) /\ session' \in {"open", "shut"}
      BY <1>2, GeneratedSeed DEF OpenWithSeed
    <2> QED BY <1>2, <2>1, SetSeedTyped
            DEF OpenWithSeed, SeedTypeOK, server, Singleton, Session
  <1>3. ASSUME NEW s \in Given, StoreMasterSecret(s) PROVE SeedTypeOK'
    BY <1>3, SetSeedTyped DEF StoreMasterSecret, SeedTypeOK, server, Singleton
  <1>4. ASSUME NEW I, I \subseteq live, Replace(I) PROVE SeedTypeOK'
    <2> PICK s \in seed :
          /\ depth <= MaxDepth
          /\ known' = known \cup {<<s, depth>>}
          /\ live' = (live \ I) \cup {<<s, depth>>}
          /\ \/ rows' = rows \cup {<<s, depth>>} /\ depth' = depth + 1
             \/ UNCHANGED <<rows, depth>>
          /\ UNCHANGED <<seed, session, backup, aux>>
      BY <1>4 DEF Replace
    <2>1. <<s, depth>> \in Secret
      BY DEF SeedTypeOK, Secret, Singleton
    <2> QED BY <2>1 DEF SeedTypeOK, aux, Singleton
  <1>5. ASSUME NEW s \in Seed, Recover(s) PROVE SeedTypeOK'
    <2>1. rows' \subseteq Secret /\ depth' \in Nat
      BY <1>5 DEF Recover, SeedTypeOK
    <2>2. mixed' \subseteq Seed
      BY <1>5 DEF Recover, SeedTypeOK, Singleton
    <2> QED BY <1>5, <2>1, <2>2 DEF Recover, SeedTypeOK, server, Singleton
  <1>6. ASSUME NEW format \in {"snapshot", "data"}, Export(format) PROVE SeedTypeOK'
    <2>1. backup' \in BackupFile
      BY <1>6 DEF Export, SeedTypeOK, BackupFile, Format, Singleton
    <2> QED BY <1>6, <2>1 DEF Export, SeedTypeOK, server, store, aux, Singleton
  <1>7. CASE ImportSnapshot
    BY <1>7 DEF ImportSnapshot, DepthOf, SeedTypeOK, server, Singleton, BackupFile
  <1>8. CASE ClearAll
    BY <1>8 DEF ClearAll, SeedTypeOK, server, aux, Session, Singleton
  <1>9. CASE SetMeta
    <2> PICK s \in backup.seed : SetSeed(s) BY <1>9 DEF SetMeta
    <2> QED BY <1>9, SetSeedTyped
            DEF SetMeta, SeedTypeOK, server, Session, Singleton
  <1>10. CASE InsertOutput
    BY <1>10 DEF InsertOutput, SeedTypeOK, server, aux, BackupFile, Singleton
  <1>11. CASE ImportEnds
    BY <1>11 DEF ImportEnds, SeedTypeOK, server, store, aux, Session, Singleton
  <1>12. CASE Stop
    BY <1>12 DEF Stop, SeedTypeOK, server, store, aux, Session, Singleton
  <1>13. CASE UNCHANGED seedVars
    BY <1>13 DEF seedVars, server, store, aux, SeedTypeOK, Singleton
  <1> QED
    BY <1>1, <1>2, <1>3, <1>4, <1>5, <1>6, <1>7, <1>8, <1>9, <1>10, <1>11, <1>12, <1>13
    DEF SeedStep, SeedNext, Insert, Pay

\* Open wallets and files have a seed.
LEMMA SeededStep == ASSUME SeedTypeOK, Seeded, SeedStep PROVE Seeded'
  <1> USE SeedsAssumption DEF Seeded
  <1>1. CASE Open
    BY <1>1, GeneratedSeed DEF Open, SetSeed, Singleton
  <1>2. ASSUME NEW s \in Given, OpenWithSeed(s) PROVE Seeded'
    <2>1. PICK x \in Seed : SetSeed(x) /\ session' \in {"open", "shut"}
      BY <1>2, GeneratedSeed DEF OpenWithSeed
    <2> QED BY <1>2, <2>1 DEF OpenWithSeed, SetSeed, Singleton
  <1>3. ASSUME NEW s \in Given, StoreMasterSecret(s) PROVE Seeded'
    BY <1>3 DEF StoreMasterSecret, SetSeed, Singleton
  <1>4. ASSUME NEW I, Replace(I) PROVE Seeded'
    BY <1>4 DEF Replace, Singleton
  <1>5. ASSUME NEW s \in Seed, Recover(s) PROVE Seeded'
    BY <1>5 DEF Recover, Singleton
  <1>6. ASSUME NEW format \in {"snapshot", "data"}, Export(format) PROVE Seeded'
    BY <1>6 DEF Export, store, Singleton
  <1>7. CASE ImportSnapshot
    BY <1>7 DEF ImportSnapshot, Singleton
  <1>8. CASE ClearAll
    BY <1>8 DEF ClearAll, Singleton
  <1>9. CASE SetMeta
    BY <1>9 DEF SetMeta, SetSeed, Singleton
  <1>10. CASE InsertOutput
    BY <1>10 DEF InsertOutput, Singleton
  <1>11. CASE ImportEnds
    BY <1>11 DEF ImportEnds, store, Singleton
  <1>12. CASE Stop
    BY <1>12 DEF Stop, store, Singleton
  <1>13. CASE UNCHANGED seedVars
    BY <1>13 DEF seedVars, store, Singleton
  <1> QED
    BY <1>1, <1>2, <1>3, <1>4, <1>5, <1>6, <1>7, <1>8, <1>9, <1>10, <1>11, <1>12, <1>13
    DEF SeedStep, SeedNext, Insert, Pay

LEMMA SeedTypeInit == ASSUME SeedInit PROVE SeedTypeOK /\ Seeded
  BY SeedsAssumption DEF SeedInit, SeedTypeOK, Seeded, NoFile, BackupFile, Format, Session

----------------------------------------------------------------------------
(* Outputs of the wallet's own seed *)

\* A wallet holds outputs of its own seed only, if callers bring no other.
THEOREM RowsFromSeedAlways == ASSUME ~Careless PROVE SeedSpec => []RowsFromSeed
  <1>1. SeedInit => OwnInv
    BY SeedTypeInit DEF SeedInit, OwnInv, RowsFromSeed, FilesFromSeed, NoFile
  <1>2. OwnInv /\ [SeedNext]_seedVars => OwnInv'
    <2> SUFFICES ASSUME OwnInv, SeedStep PROVE (RowsFromSeed /\ FilesFromSeed)'
      BY SeedTypeStep, SeededStep DEF OwnInv, SeedStep
    <2> USE DEF OwnInv, Seeded, RowsFromSeed, FilesFromSeed, Singleton
    <2>1. CASE Open
      <3> PICK s \in Generated : SetSeed(s) BY <2>1 DEF Open
      <3>1. s \in Seed
        BY GeneratedSeed
      <3>2. seed # {} => s \in seed
        BY DEF Generated
      <3> QED BY <2>1, <3>1, <3>2 DEF Open, SetSeed
    <2>2. ASSUME NEW s \in Given, OpenWithSeed(s)
          PROVE  (RowsFromSeed /\ FilesFromSeed)'
      <3> PICK e \in Generated :
            /\ SetSeed(IF Takes(s, e) THEN s ELSE e)
            /\ session' = IF (IF Takes(s, e) THEN s ELSE e) = s THEN "open" ELSE "shut"
        BY <2>2 DEF OpenWithSeed
      <3>1. s \in Seed /\ e \in Seed
        BY GeneratedSeed, SeedsAssumption
      <3>2. seed # {} => e \in seed
        BY DEF Generated
      <3>3. \A r \in rows : seed' = {r[1]}
        BY <3>1, <3>2 DEF Takes, SetSeed
      <3> QED BY <2>2, <3>1, <3>3 DEF OpenWithSeed, SetSeed
    <2>3. ASSUME NEW s \in Given, StoreMasterSecret(s)
          PROVE  (RowsFromSeed /\ FilesFromSeed)'
      BY <2>3, SeedsAssumption DEF StoreMasterSecret, SetSeed
    <2>4. ASSUME NEW I, session = "open", Replace(I)
          PROVE  (RowsFromSeed /\ FilesFromSeed)'
      BY <2>4 DEF Replace, aux
    <2>5. ASSUME NEW s \in Seed, Recover(s) PROVE (RowsFromSeed /\ FilesFromSeed)'
      <3>1. s \in seed
        BY <2>5 DEF Recover
      <3>2. \A r \in Found(s) : r[1] = s
        BY DEF Found
      <3> QED BY <2>5, <3>1, <3>2 DEF Recover
    <2>6. ASSUME NEW format \in {"snapshot", "data"}, Export(format)
          PROVE  (RowsFromSeed /\ FilesFromSeed)'
      BY <2>6 DEF Export, store
    <2>7. CASE ImportSnapshot
      BY <2>7 DEF ImportSnapshot
    <2>8. CASE ClearAll
      BY <2>8 DEF ClearAll
    <2>9. CASE SetMeta
      BY <2>9 DEF SetMeta, SetSeed
    <2>10. CASE InsertOutput
      BY <2>10 DEF InsertOutput
    <2>11. CASE ImportEnds
      BY <2>11 DEF ImportEnds, store
    <2>12. CASE Stop
      BY <2>12 DEF Stop, store
    <2>13. CASE UNCHANGED seedVars
      BY <2>13 DEF seedVars, store
    <2> QED
      BY <2>1, <2>2, <2>3, <2>4, <2>5, <2>6, <2>7, <2>8, <2>9, <2>10, <2>11, <2>12, <2>13
      DEF SeedStep, SeedNext, Insert, Pay
  <1>3. OwnInv => RowsFromSeed
    BY DEF OwnInv
  <1> QED BY <1>1, <1>2, <1>3, PTL DEF SeedSpec

----------------------------------------------------------------------------
(* Depths *)

\* What the server has seen only grows, and so do the seeds that are mixed.
LEMMA Grows == ASSUME SeedStep PROVE known \subseteq known' /\ mixed \subseteq mixed'
  BY DEF SeedStep, SeedNext, seedVars, server, store, aux, Open, OpenWithSeed, SetSeed,
         StoreMasterSecret, Insert, Pay, Replace, Recover, Export,
         ImportSnapshot, ClearAll, SetMeta, InsertOutput, ImportEnds, Stop

\* Setting a seed: a depth that is not its own is noted.
LEMMA SetSeedBacked ==
  ASSUME SeedTypeOK, DepthsBacked, NEW s \in Seed, SetSeed(s), SeedStep,
         depth' = depth, known' = known, backup' = backup
  PROVE  DepthsBacked'
  <1>1. known \subseteq known' /\ mixed \subseteq mixed'
    BY Grows
  <1>2. ASSUME NEW x \in owner' \ mixed' PROVE Below(x, depth)
    <2>1. x = s /\ (depth = 0 \/ owner = {s})
      BY <1>2 DEF SetSeed
    <2>2. CASE depth = 0
      BY <2>2, SeedsAssumption DEF Below
    <2>3. CASE owner = {s}
      BY <1>1, <1>2, <2>1, <2>3 DEF DepthsBacked
    <2> QED BY <2>1, <2>2, <2>3
  <1> QED BY <1>1, <1>2 DEF DepthsBacked, Below, SetSeed

LEMMA Predecessor ==
  ASSUME NEW n \in Int, NEW e \in Int, e < n
  PROVE  e < n - 1 \/ e = n - 1
  OBVIOUS

\* The invariant behind SeedReaches, whatever callers do.
LEMMA DepthsStep == ASSUME ReachInv, SeedStep PROVE DepthsBacked'
  <1> USE DEF ReachInv
  <1> USE SeedsAssumption
  <1>0. known \subseteq known' /\ mixed \subseteq mixed' /\ SeedTypeOK'
    BY Grows, SeedTypeStep
  <1>1. CASE Open
    <2> PICK s \in Generated : SetSeed(s) BY <1>1 DEF Open
    <2> QED BY <1>1, GeneratedSeed, SetSeedBacked DEF Open, server
  <1>2. ASSUME NEW s \in Given, OpenWithSeed(s) PROVE DepthsBacked'
    <2>1. PICK x \in Seed : SetSeed(x)
      BY <1>2, GeneratedSeed DEF OpenWithSeed
    <2> QED BY <1>2, <2>1, SetSeedBacked DEF OpenWithSeed, server
  <1>3. ASSUME NEW s \in Given, StoreMasterSecret(s) PROVE DepthsBacked'
    BY <1>3, SetSeedBacked DEF StoreMasterSecret, server
  <1>4. ASSUME NEW I, Replace(I) PROVE DepthsBacked'
    <2> PICK s \in seed :
          /\ depth <= MaxDepth
          /\ known' = known \cup {<<s, depth>>}
          /\ depth' \in {depth, depth + 1}
          /\ UNCHANGED <<seed, session, backup, aux>>
      BY <1>4 DEF Replace
    <2>1. owner = {s} /\ owner' = owner /\ mixed' = mixed /\ backup' = backup
      BY DEF DepthsBacked, SeedTypeOK, Singleton, aux
    <2>2. ASSUME s \notin mixed PROVE Below(s, depth)
      BY <2>1, <2>2 DEF DepthsBacked
    <2>3. ASSUME NEW e \in 0 .. MaxDepth, e < depth + 1, s \notin mixed
          PROVE  <<s, e>> \in known'
      <3>1. e < depth \/ e = depth
        BY <2>3 DEF SeedTypeOK
      <3> QED BY <2>2, <2>3, <3>1 DEF Below
    <2>4. ASSUME NEW e \in 0 .. MaxDepth, e < depth', s \notin mixed
          PROVE  <<s, e>> \in known'
      BY <2>2, <2>3, <2>4 DEF Below
    <2>5. ASSUME NEW c \in known', c[1] \notin mixed PROVE Below(c[1], c[2])'
      <3>1. CASE c \in known
        BY <2>5, <3>1 DEF DepthsBacked, Below
      <3>2. CASE c = <<s, depth>>
        BY <2>2, <2>5, <3>2 DEF Below
      <3> QED BY <3>1, <3>2
    <2>6. ASSUME NEW x \in backup.seed \ mixed PROVE Below(x, backup.depth)'
      BY <2>6 DEF DepthsBacked, Below
    <2>7. ASSUME NEW x \in owner' \ mixed' PROVE Below(x, depth)'
      BY <2>1, <2>4, <2>7 DEF Below
    <2> QED BY <2>1, <2>5, <2>6, <2>7 DEF DepthsBacked
  <1>5. ASSUME NEW s \in Seed, Recover(s) PROVE DepthsBacked'
    <2>1. known' = known /\ seed' = seed /\ owner' = owner /\ backup' = backup
      BY <1>5 DEF Recover, server
    <2>2. ASSUME NEW x \in owner \ mixed' PROVE Below(x, depth')
      <3>1. Below(x, depth) /\ x \notin mixed
        BY <1>0, <2>2 DEF DepthsBacked
      <3>2. CASE depth' = depth
        BY <3>1, <3>2
      <3>3. CASE depth' # depth
        <4>1. depth' \in 0 .. MaxDepth + 1 /\ <<s, depth' - 1>> \in Found(s)
          BY <1>5, <3>3 DEF Recover
        <4>2. seed = {x}
          BY <1>5, <2>2 DEF Recover, DepthsBacked, Seeded, Singleton
        <4>3. x = s
          BY <1>5, <2>2, <3>3, <4>2 DEF Recover
        <4>4. <<x, depth' - 1>> \in known
          BY <4>1, <4>3 DEF Found
        <4>5. Below(x, depth' - 1)
          BY <3>1, <4>4 DEF DepthsBacked
        <4>6. ASSUME NEW e \in 0 .. MaxDepth, e < depth'
              PROVE  e < depth' - 1 \/ e = depth' - 1
          <5>1. depth' \in Int /\ e \in Int
            BY <1>0 DEF SeedTypeOK
          <5> QED BY <4>6, <5>1, Predecessor
        <4> QED BY <4>4, <4>5, <4>6 DEF Below
      <3> QED BY <3>2, <3>3
    <2> QED BY <1>0, <2>1, <2>2 DEF DepthsBacked, Below
  <1>6. ASSUME NEW format \in {"snapshot", "data"}, Export(format) PROVE DepthsBacked'
    <2>1. known' = known /\ seed' = seed /\ owner' = owner /\ mixed' = mixed
          /\ depth' = depth
      BY <1>6 DEF Export, server, store, aux
    <2>2. backup'.seed = seed /\ backup'.depth \in {depth, 0}
      BY <1>6 DEF Export
    <2>3. ASSUME NEW x \in seed \ mixed PROVE Below(x, backup'.depth)
      BY <2>2, <2>3 DEF DepthsBacked, Below
    <2> QED BY <2>1, <2>2, <2>3 DEF DepthsBacked, Below
  <1>7. CASE ImportSnapshot
    BY <1>7 DEF ImportSnapshot, DepthOf, DepthsBacked, Below, server
  <1>8. CASE ClearAll
    BY <1>8 DEF ClearAll, DepthsBacked, Below, server, aux
  <1>9. CASE SetMeta
    <2> PICK s \in backup.seed : SetSeed(s) BY <1>9 DEF SetMeta
    <2>1. s \in Seed
      BY DEF SeedTypeOK, Singleton
    <2> QED BY <1>9, <2>1, SetSeedBacked DEF SetMeta, server
  <1>10. CASE InsertOutput
    BY <1>10 DEF InsertOutput, DepthsBacked, Below, server, aux
  <1>11. CASE ImportEnds
    BY <1>11 DEF ImportEnds, DepthsBacked, Below, server, store, aux
  <1>12. CASE Stop
    BY <1>12 DEF Stop, DepthsBacked, Below, server, store, aux
  <1>13. CASE UNCHANGED seedVars
    BY <1>13 DEF seedVars, DepthsBacked, Below, server, store, aux
  <1> QED
    BY <1>1, <1>2, <1>3, <1>4, <1>5, <1>6, <1>7, <1>8, <1>9, <1>10, <1>11, <1>12, <1>13
    DEF SeedStep, SeedNext, Insert, Pay

\* A window below the one that holds d begins below d.
LEMMA WindowBegins ==
  ASSUME NEW d \in Nat, NEW g \in Nat \ {0}, NEW w \in 0 .. (d \div g) - 1
  PROVE  w * g \in Nat /\ w * g < d /\ w * g <= (w + 1) * g - 1
  <1>1. d \div g \in Nat /\ g * (d \div g) <= d
    BY SMT
  <1>2. w \in Nat /\ w + 1 <= d \div g
    BY <1>1
  <1>3. (w + 1) * g <= g * (d \div g)
    BY <1>1, <1>2, SMT
  <1>4. w * g \in Nat
    BY <1>2
  <1>5. (w + 1) * g = w * g + g
    BY <1>2
  <1> QED BY <1>1, <1>3, <1>4, <1>5

\* A recover() from a seed gets to all the money on it, whatever was restored,
\* lost or stopped, unless that seed was given the depth of another.
THEOREM SeedReachesAlways == SeedSpec => []SeedReaches
  <1>1. SeedInit => ReachInv
    BY SeedTypeInit, SeedsAssumption DEF SeedInit, ReachInv, DepthsBacked, NoFile
  <1>2. ReachInv /\ [SeedNext]_seedVars => ReachInv'
    BY SeedTypeStep, SeededStep, DepthsStep DEF ReachInv, SeedStep
  <1>3. ReachInv => SeedReaches
    <2> SUFFICES ASSUME ReachInv, NEW c \in live, c[1] \notin mixed,
                        NEW w \in 0 .. (c[2] \div GapLimit) - 1
                 PROVE  Window(c[1], w)
      BY DEF SeedReaches, Scanned
    <2>1. c \in known /\ c[2] \in 0 .. MaxDepth
      BY DEF ReachInv, SeedTypeOK, Secret
    <2>2. Below(c[1], c[2])
      BY <2>1 DEF ReachInv, DepthsBacked
    <2>3. w * GapLimit \in Nat /\ w * GapLimit < c[2]
          /\ w * GapLimit <= (w + 1) * GapLimit - 1
      BY <2>1, SeedsAssumption, WindowBegins
    <2>4. w * GapLimit \in 0 .. MaxDepth
      BY <2>1, <2>3, SeedsAssumption
    <2>5. <<c[1], w * GapLimit>> \in known
      BY <2>2, <2>3, <2>4 DEF Below
    <2>6. (w + 1) * GapLimit - 1 \in Int
      BY SeedsAssumption, <2>1
    <2> QED BY <2>3, <2>5, <2>6 DEF Window
  <1> QED BY <1>1, <1>2, <1>3, PTL DEF SeedSpec
=============================================================================
