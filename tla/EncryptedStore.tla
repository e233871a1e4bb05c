--------------------------- MODULE EncryptedStore ---------------------------
(***************************************************************************)
(* The encrypted vault (internal/store/encrypted.go): one object guarding  *)
(* two files.  The metadata file holds the salt and the verification blob, *)
(* the vault file the encrypted secrets.                                   *)
(*                                                                         *)
(* Every operation that changes the vault runs under EncryptedStore.mu, so *)
(* operations do not interleave with one another; what interrupts one is a *)
(* failing file write or the death of the process.  An operation is        *)
(* therefore one action for what it does in memory up to its first file    *)
(* write, then one action per write; pc says which write comes next.       *)
(* autoSave is true in every store the program makes, so Set and Delete    *)
(* always go on to save.  An operation the code refuses leaves every       *)
(* variable alone and is not an action, except the two refusals of Unlock  *)
(* that change memory.  A definition named as a variation of the next one  *)
(* (SaveDataWithoutWriting, SaveData) is a mistake the code could have     *)
(* made, kept to show that a property would notice it; no action uses it.  *)
(***************************************************************************)
EXTENDS VaultCrypto

CONSTANTS Paths,      \* names of secrets
          Absent,     \* a file that does not exist
          Torn,       \* a file whose content does not parse
          TornWrites, \* whether an interrupted write may tear the file
          MaxSalts,   \* bound: vaults created plus passwords changed
          MaxFaults   \* bound: writes failed, reads failed and crashes

VARIABLES
  metaFile, dataFile,         \* the two files
  meta, data, crypto, dirty,  \* the fields of EncryptedStore
  pc,                         \* the file write the running call does next
  arg,                        \* path and value of the running Set or Delete
  nextSalt, faults,           \* the random source; faults so far
  acked, tried,               \* per path: the last value whose write was
                              \* acknowledged; values written since without
                              \* an acknowledgement
  ackedPw, triedPw,           \* the same for the master password
  cut                         \* an update of both files was left half done

disk    == <<metaFile, dataFile>>
memory  == <<meta, data, crypto, dirty>>
history == <<acked, tried, ackedPw, triedPw>>
vars == <<disk, memory, pc, arg, nextSalt, faults, history, cut>>

Metas == [salt : Salts, verification : Blobs]
SecretMaps == [Paths -> Ciphertexts \cup {Nil}]
NoSecrets == [p \in Paths |-> Nil]

MetaWrites == {"initMeta", "passwdMeta"}
DataWrites == {"initData", "passwdData", "setData", "lockData"}
TwoFileWrites == {"initMeta", "initData", "passwdMeta", "passwdData"}

ASSUME StoreConstants ==
  /\ Nil \notin Metas
  /\ Nil \notin SecretMaps
  /\ Nil \notin [path : Paths, value : Values \cup {Nil}]
  /\ \A s \in {Absent, Torn} : s \notin Metas /\ s \notin SecretMaps
  /\ Absent # Torn
  /\ {"vault is locked", "failed to decrypt secret"} \cap Values = {}
  /\ TornWrites \in BOOLEAN
  /\ MaxSalts \in Nat
  /\ MaxFaults \in Nat
-----------------------------------------------------------------------------
(* Reading *)

VaultExists == metaFile # Absent
MetaReadable == metaFile \notin {Absent, Torn}

\* What loadData makes of the vault file; a missing one is an empty vault.
LoadedData == IF dataFile = Absent THEN NoSecrets ELSE dataFile

IsLocked == crypto = Nil

\* What a lookup of path p in the map d answers to the holder of key.
Reading(d, key, p) ==
  CASE d[p] = Nil -> Nil
    [] d[p] # Nil /\ Decryptable(key, d[p]) -> Decrypt(d[p])
    [] OTHER -> "failed to decrypt secret"

\* Every entry of the map d opens with key.
OpensWith(d, key) == \A p \in Paths : d[p] # Nil => Decryptable(key, d[p])

Get(p) == IF IsLocked THEN "vault is locked" ELSE Reading(data, crypto, p)

\* The key that Unlock would derive from the metadata file on disk.
DiskKey == metaFile.verification.key
-----------------------------------------------------------------------------
(* Creating a vault *)

\* The salt of a new Crypto.
FreshSaltZeroed == 0
FreshSalt == nextSalt

\* The metadata that goes with a key: its salt and its verification blob.
MetaForKeepsBlob(key) ==
  [salt |-> key.salt,
   verification |-> IF meta = Nil THEN CreateVerificationBlob(key)
                                  ELSE meta.verification]
MetaFor(key) ==
  [salt |-> key.salt, verification |-> CreateVerificationBlob(key)]

\* The two files are written whole; saving the data makes the store clean.
SaveMeta == metaFile' = meta

SaveDataWithoutWriting == dirty' = FALSE /\ UNCHANGED dataFile
SaveData == dirty' = FALSE /\ dataFile' = data

Initialize(password) ==
  /\ pc = "idle"
  /\ ~VaultExists
  /\ nextSalt < MaxSalts
  /\ crypto' = DeriveKey(password, FreshSalt)
  /\ meta' = MetaFor(crypto')
  /\ data' = NoSecrets
  /\ pc' = "initMeta"
  /\ nextSalt' = nextSalt + 1
  /\ acked' = NoSecrets
  /\ tried' = [p \in Paths |-> {}]
  /\ ackedPw' = Nil
  /\ triedPw' = {password}
  /\ UNCHANGED <<disk, dirty, arg, faults, cut>>

InitializeSavesMeta ==
  /\ pc = "initMeta"
  /\ SaveMeta
  /\ pc' = "initData"
  /\ UNCHANGED <<dataFile, memory, arg, nextSalt, faults, history, cut>>

InitializeSavesData ==
  /\ pc = "initData"
  /\ SaveData
  /\ pc' = "idle"
  /\ ackedPw' = crypto.password
  /\ triedPw' = {}
  /\ cut' = FALSE
  /\ UNCHANGED <<metaFile, meta, data, crypto, arg, nextSalt, faults,
                 acked, tried>>
-----------------------------------------------------------------------------
(* Unlocking and locking *)

\* A wrong password is refused after loadMeta has replaced s.meta.
UnlockRefused(password) ==
  /\ pc = "idle"
  /\ MetaReadable
  /\ ~VerifyPassword(metaFile.salt, password, metaFile.verification)
  /\ meta' = metaFile
  /\ UNCHANGED <<disk, data, crypto, dirty, pc, arg, nextSalt, faults,
                 history, cut>>

\* loadData fails: the key is dropped; s.data and s.dirty stay as they were.
UnlockLoadFails(password) ==
  /\ pc = "idle"
  /\ MetaReadable
  /\ VerifyPassword(metaFile.salt, password, metaFile.verification)
  /\ \/ dataFile = Torn /\ UNCHANGED faults
     \/ /\ dataFile # Absent
        /\ faults < MaxFaults
        /\ faults' = faults + 1
  /\ meta' = metaFile
  /\ crypto' = Nil
  /\ UNCHANGED <<disk, data, dirty, pc, arg, nextSalt, history, cut>>

\* Nothing asks whether the vault is already unlocked: the files replace
\* whatever was in memory.
UnlockOpens(password) ==
  /\ pc = "idle"
  /\ MetaReadable
  /\ VerifyPassword(metaFile.salt, password, metaFile.verification)
  /\ dataFile # Torn
  /\ meta' = metaFile
  /\ crypto' = DeriveKey(password, metaFile.salt)
  /\ data' = LoadedData
  /\ UNCHANGED <<disk, dirty, pc, arg, nextSalt, faults, history, cut>>

\* What Lock clears once nothing is left to save.
ForgetKeyAndData ==
  /\ crypto' = Nil
  /\ data' = Nil
  /\ dirty' = FALSE

LockDropsKeyFirst ==
  /\ pc = "idle"
  /\ \/ IsLocked /\ UNCHANGED <<memory, pc>>
     \/ /\ ~IsLocked /\ dirty
        /\ crypto' = Nil
        /\ pc' = "lockData"
        /\ UNCHANGED <<meta, data, dirty>>
     \/ ~IsLocked /\ ~dirty /\ ForgetKeyAndData /\ UNCHANGED <<meta, pc>>
  /\ UNCHANGED <<disk, arg, nextSalt, faults, history, cut>>
Lock ==
  /\ pc = "idle"
  /\ \/ IsLocked /\ UNCHANGED <<memory, pc>>
     \/ ~IsLocked /\ dirty /\ pc' = "lockData" /\ UNCHANGED memory
     \/ ~IsLocked /\ ~dirty /\ ForgetKeyAndData /\ UNCHANGED <<meta, pc>>
  /\ UNCHANGED <<disk, arg, nextSalt, faults, history, cut>>

\* Saving the vault file makes the two files agree again if the key in use
\* is the one of the metadata file and everything saved opens with it.
HealedByDataWrite ==
  cut' = (cut /\ ~(/\ MetaReadable
                   /\ DiskKey = crypto
                   /\ OpensWith(data, crypto)))

LockSaves ==
  /\ pc = "lockData"
  /\ SaveData
  /\ ForgetKeyAndData
  /\ pc' = "idle"
  /\ HealedByDataWrite
  /\ UNCHANGED <<metaFile, meta, arg, nextSalt, faults, history>>
-----------------------------------------------------------------------------
(* Writing secrets *)

\* The memory half of Set (value is a secret) and of Delete (value is Nil).
Change(path, cipher, value) ==
  /\ pc = "idle"
  /\ ~IsLocked
  /\ data' = [data EXCEPT ![path] = cipher]
  /\ dirty' = TRUE
  /\ pc' = "setData"
  /\ arg' = [path |-> path, value |-> value]
  /\ tried' = [tried EXCEPT ![path] = @ \cup {value}]
  /\ UNCHANGED <<disk, meta, crypto, nextSalt, faults, acked, ackedPw,
                 triedPw, cut>>

Set(path, value) == Change(path, Encrypt(crypto, value), value)
Delete(path) == Change(path, Nil, Nil)

\* saveData succeeds and the caller is told so.
ChangeSaved ==
  /\ pc = "setData"
  /\ SaveData
  /\ pc' = "idle"
  /\ arg' = Nil
  /\ acked' = [acked EXCEPT ![arg.path] = arg.value]
  /\ tried' = [tried EXCEPT ![arg.path] = {}]
  /\ HealedByDataWrite
  /\ UNCHANGED <<metaFile, meta, data, crypto, nextSalt, faults, ackedPw,
                 triedPw>>
-----------------------------------------------------------------------------
(* Changing the master password *)

ReencryptedNot(d, newKey) == d
Reencrypted(d, newKey) ==
  [p \in Paths |-> IF d[p] = Nil THEN Nil ELSE Encrypt(newKey, Decrypt(d[p]))]

\* One entry that does not decrypt refuses the whole change.
ChangePassword(oldPassword, newPassword) ==
  /\ pc = "idle"
  /\ ~IsLocked
  /\ VerifyPassword(crypto.salt, oldPassword, meta.verification)
  /\ nextSalt < MaxSalts
  /\ OpensWith(data, crypto)
  /\ crypto' = DeriveKey(newPassword, FreshSalt)
  /\ meta' = MetaFor(crypto')
  /\ data' = Reencrypted(data, crypto')
  /\ pc' = "passwdMeta"
  /\ nextSalt' = nextSalt + 1
  /\ triedPw' = triedPw \cup {newPassword}
  /\ UNCHANGED <<disk, dirty, arg, faults, acked, tried, ackedPw, cut>>

ChangePasswordSavesMeta ==
  /\ pc = "passwdMeta"
  /\ SaveMeta
  /\ pc' = "passwdData"
  /\ UNCHANGED <<dataFile, memory, arg, nextSalt, faults, history, cut>>

ChangePasswordSavesData ==
  /\ pc = "passwdData"
  /\ SaveData
  /\ pc' = "idle"
  /\ ackedPw' = crypto.password
  /\ triedPw' = {}
  /\ cut' = FALSE
  /\ UNCHANGED <<metaFile, meta, data, crypto, arg, nextSalt, faults,
                 acked, tried>>
-----------------------------------------------------------------------------
(* Faults *)

\* What an interrupted write leaves behind: the old file, the new one, or,
\* if writes are not atomic, neither.
InterruptedWrite ==
  \/ UNCHANGED disk
  \/ /\ pc \in MetaWrites
     /\ metaFile' \in {meta} \cup (IF TornWrites THEN {Torn} ELSE {})
     /\ UNCHANGED dataFile
  \/ /\ pc \in DataWrites
     /\ dataFile' \in {data} \cup (IF TornWrites THEN {Torn} ELSE {})
     /\ UNCHANGED metaFile

\* saveMeta or saveData returns an error, and so does the call: what it
\* changed in memory stays changed.
WriteFails ==
  /\ pc # "idle"
  /\ faults < MaxFaults
  /\ faults' = faults + 1
  /\ InterruptedWrite
  /\ pc' = "idle"
  /\ arg' = Nil
  /\ cut' = (cut \/ pc \in TwoFileWrites)
  /\ UNCHANGED <<memory, nextSalt, history>>

\* The process dies and a new one starts with a new EncryptedStore.
Crash ==
  /\ faults < MaxFaults
  /\ faults' = faults + 1
  /\ InterruptedWrite
  /\ meta' = Nil
  /\ ForgetKeyAndData
  /\ pc' = "idle"
  /\ arg' = Nil
  /\ cut' = (cut \/ pc \in TwoFileWrites)
  /\ UNCHANGED <<nextSalt, history>>
-----------------------------------------------------------------------------
Init ==
  /\ metaFile = Absent /\ dataFile = Absent
  /\ meta = Nil /\ data = Nil /\ crypto = Nil /\ dirty = FALSE
  /\ pc = "idle" /\ arg = Nil
  /\ nextSalt = 0 /\ faults = 0
  /\ acked = NoSecrets /\ tried = [p \in Paths |-> {}]
  /\ ackedPw = Nil /\ triedPw = {}
  /\ cut = FALSE

Next ==
  \/ \E pw \in Passwords :
       \/ Initialize(pw)
       \/ UnlockRefused(pw)
       \/ UnlockLoadFails(pw)
       \/ UnlockOpens(pw)
  \/ \E old, new \in Passwords : ChangePassword(old, new)
  \/ \E p \in Paths, v \in Values : Set(p, v)
  \/ \E p \in Paths : Delete(p)
  \/ InitializeSavesMeta
  \/ InitializeSavesData
  \/ Lock
  \/ LockSaves
  \/ ChangeSaved
  \/ ChangePasswordSavesMeta
  \/ ChangePasswordSavesData
  \/ WriteFails
  \/ Crash

Spec == Init /\ [][Next]_vars
-----------------------------------------------------------------------------
(* Properties *)

\* Every variable has its type; an unlocked store holds metadata and a map
\* (Set writes into s.data.Secrets and ChangePassword reads s.meta without
\* asking), and a call between its writes is unlocked.
TypeOK ==
  /\ metaFile \in Metas \cup {Absent, Torn}
  /\ dataFile \in SecretMaps \cup {Absent, Torn}
  /\ meta \in Metas \cup {Nil}
  /\ data \in SecretMaps \cup {Nil}
  /\ crypto \in Keys \cup {Nil}
  /\ dirty \in BOOLEAN
  /\ pc \in {"idle"} \cup MetaWrites \cup DataWrites
  /\ arg \in [path : Paths, value : Values \cup {Nil}] \cup {Nil}
  /\ pc = "setData" => arg # Nil
  /\ nextSalt \in Nat /\ faults \in Nat
  /\ acked \in [Paths -> Values \cup {Nil}]
  /\ tried \in [Paths -> SUBSET (Values \cup {Nil})]
  /\ ackedPw \in Passwords \cup {Nil}
  /\ triedPw \in SUBSET Passwords
  /\ cut \in BOOLEAN
  /\ ~IsLocked => meta # Nil /\ data # Nil
  /\ pc # "idle" => ~IsLocked

\* A value is expected at a path if it is the acknowledged one or one that
\* was written since and reported as failed (or not reported at all).
Expected(p) == {acked[p]} \cup tried[p]

\* Whatever decrypts is right: no sequence of operations, failed writes and
\* crashes makes Get, now or after unlocking what is on disk, return a value
\* that was overwritten, deleted, or belonged to an earlier vault.
ReadsAreRight ==
  \A p \in Paths :
    /\ Get(p) \in Values => Get(p) \in Expected(p)
    /\ MetaReadable /\ dataFile # Torn =>
         LET read == Reading(LoadedData, DiskKey, p)
         IN  read \in Values => read \in Expected(p)

\* The vault can always be opened: a readable metadata file verifies the
\* password last acknowledged, or one whose change did not finish, and no
\* other password.  ChangePassword replaces salt and blob together.
PasswordRight ==
  MetaReadable =>
    LET Opens(pw) == VerifyPassword(metaFile.salt, pw, metaFile.verification)
    IN  /\ \E pw \in Passwords : Opens(pw)
        /\ \A pw \in Passwords : Opens(pw) => pw \in {ackedPw} \cup triedPw

\* No acknowledged write is lost: unless an update of both files was cut
\* short (or is under way) or a file is torn, every path reads as expected,
\* from memory while unlocked and from disk by whoever unlocks next.
NothingLost ==
  ~cut /\ pc \notin TwoFileWrites =>
    \A p \in Paths :
      /\ ~IsLocked => Get(p) \in Expected(p)
      /\ MetaReadable /\ dataFile # Torn =>
           Reading(LoadedData, DiskKey, p) \in Expected(p)

\* Lock saves only what is dirty, so what is clean must be on disk: outside
\* an update of both files that was cut short, an unlocked store that is not
\* dirty holds exactly what the vault file holds.
CleanMeansSaved ==
  ~IsLocked /\ pc = "idle" /\ ~dirty /\ ~cut => data = LoadedData

\* The inductive invariant behind ReadsAreRight and PasswordRight.  A salt is
\* live if the metadata file or the key in memory has it.  Entries of earlier
\* vaults and passwords may linger in a map or a file, but under dead salts,
\* and since salts are drawn fresh a dead salt never comes back.
LiveSalts ==
  (IF MetaReadable THEN {metaFile.salt} ELSE {})
    \cup (IF IsLocked THEN {} ELSE {crypto.salt})

RightWhereLive(d) ==
  \A p \in Paths :
    d[p] # Nil /\ d[p].key.salt \in LiveSalts => d[p].text \in Expected(p)

SaltsSpent(d) == \A p \in Paths : d[p] # Nil => d[p].key.salt < nextSalt

SaltsFresh ==
  /\ MetaReadable => metaFile.salt < nextSalt
  /\ ~IsLocked => crypto.salt < nextSalt /\ SaltsSpent(data)
  /\ dataFile \notin {Absent, Torn} => SaltsSpent(dataFile)

MetaMatchesKey ==
  /\ MetaReadable => metaFile = MetaFor(DiskKey)
  /\ pc \in TwoFileWrites => meta = MetaFor(crypto)
  /\ pc \in {"initData", "passwdData"} => metaFile = meta

PasswordKnown ==
  /\ MetaReadable => DiskKey.password \in {ackedPw} \cup triedPw
  /\ pc \in MetaWrites => crypto.password \in triedPw

EntriesRight ==
  /\ ~IsLocked => RightWhereLive(data)
  /\ dataFile \notin {Absent, Torn} => RightWhereLive(dataFile)

ChangeInMemory ==
  pc = "setData" =>
    data[arg.path] =
      IF arg.value = Nil THEN Nil ELSE Encrypt(crypto, arg.value)

\* The six together, preserved by every step.
IndInv ==
  /\ TypeOK
  /\ SaltsFresh
  /\ MetaMatchesKey
  /\ PasswordKnown
  /\ EntriesRight
  /\ ChangeInMemory

\* What NothingLost and CleanMeansSaved need besides: a path
\* without an entry is one that may be missing; unless an update of both
\* files was cut short, what is in memory opens with the key in memory, what
\* is on disk with the key on disk, and the two keys are one.
NilRight(d) == \A p \in Paths : d[p] = Nil => Nil \in Expected(p)

MissingRight ==
  /\ ~IsLocked => NilRight(data)
  /\ dataFile # Torn => NilRight(LoadedData)

MemoryOpens ==
  ~IsLocked /\ (cut => pc \in TwoFileWrites) => OpensWith(data, crypto)

DiskOpens ==
  ~cut /\ pc \notin TwoFileWrites /\ MetaReadable =>
    /\ ~IsLocked => crypto = DiskKey
    /\ dataFile # Torn => OpensWith(LoadedData, DiskKey)

SavedIfClean ==
  /\ pc \in {"setData", "lockData"} => dirty
  /\ ~IsLocked /\ pc \notin TwoFileWrites /\ ~dirty /\ ~cut =>
       data = LoadedData

\* The four together, preserved by every step from a state of IndInv.
SavedInv ==
  /\ MissingRight
  /\ MemoryOpens
  /\ DiskOpens
  /\ SavedIfClean

\* After a password change the secrets are readable with the vault's
\* password whatever happened on the way ("Re-encrypts all secrets with the
\* new password"): a vault at rest with both files whole opens every
\* acknowledged secret.
SecretsFollowPassword ==
  pc = "idle" /\ MetaReadable /\ dataFile # Torn =>
    \A p \in Paths : Reading(LoadedData, DiskKey, p) \in Expected(p)
=============================================================================
