------------------------ MODULE EncryptedStore_proofs ------------------------
(***************************************************************************)
(* Proofs about EncryptedStore for every set of paths, values and          *)
(* passwords, every bound, and with or without torn writes; at the end,    *)
(* that its calls implement VaultCalls (StoreCalls).                       *)
(***************************************************************************)
EXTENDS StoreCalls, TLAPS

-----------------------------------------------------------------------------
(* The operators the actions are built from *)

\* A key derived from a password and a salt is a key.
LEMMA DeriveKeyType ==
  ASSUME NEW pw \in Passwords, NEW salt \in Salts
  PROVE  DeriveKey(pw, salt) \in Keys
BY DEF DeriveKey, Keys

\* Encrypting a secret yields a ciphertext, which is never Nil.
LEMMA EncryptType ==
  ASSUME NEW key \in Keys, NEW v \in Values
  PROVE  Encrypt(key, v) \in Ciphertexts
BY DEF Encrypt, Ciphertexts

\* The metadata of a key is metadata, and is never Nil, Absent or Torn.
LEMMA MetaForType ==
  ASSUME NEW key \in Keys
  PROVE  /\ MetaFor(key) \in Metas
         /\ MetaFor(key) \notin {Nil, Absent, Torn}
<1>1. MetaFor(key) \in Metas
  BY DEF MetaFor, Metas, CreateVerificationBlob, Encrypt, Blobs, Keys
<1>. QED  BY <1>1, StoreConstants

\* Re-encrypting a map of secrets yields a map of secrets.
LEMMA ReencryptedType ==
  ASSUME NEW d \in SecretMaps, NEW key \in Keys
  PROVE  Reencrypted(d, key) \in SecretMaps
<1>. SUFFICES ASSUME NEW p \in Paths
              PROVE  (IF d[p] = Nil THEN Nil ELSE Encrypt(key, Decrypt(d[p])))
                       \in Ciphertexts \cup {Nil}
  BY DEF Reencrypted, SecretMaps
<1>1. d[p] \in Ciphertexts \cup {Nil}
  BY DEF SecretMaps
<1>2. CASE d[p] = Nil
  BY <1>2
<1>3. CASE d[p] # Nil
  <2>1. Decrypt(d[p]) \in Values
    BY <1>1, <1>3 DEF Ciphertexts, Decrypt
  <2>. QED  BY <2>1, <1>3, EncryptType
<1>. QED  BY <1>2, <1>3

\* Keys, metadata, maps of secrets and arguments are never Nil.
LEMMA NotNil ==
  /\ \A a \in [path : Paths, value : Values \cup {Nil}] : a # Nil
  /\ \A k \in Keys : k # Nil
  /\ \A m \in Metas : m # Nil
  /\ \A d \in SecretMaps : d # Nil
BY StoreConstants, CryptoConstants

\* The vault file of a readable vault is a map of secrets.
LEMMA LoadedDataType ==
  ASSUME TypeOK, dataFile # Torn
  PROVE  LoadedData \in SecretMaps
BY DEF TypeOK, LoadedData, NoSecrets, SecretMaps

-----------------------------------------------------------------------------
(* Type correctness *)

LEMMA TypeInit == Init => TypeOK
<1>. SUFFICES ASSUME Init
              PROVE  TypeOK
  OBVIOUS
<1>1. /\ acked \in [Paths -> Values \cup {Nil}]
      /\ tried \in [Paths -> SUBSET (Values \cup {Nil})]
  BY DEF Init, NoSecrets
<1>. QED
  BY <1>1 DEF Init, TypeOK, IsLocked

LEMMA TypeNext == TypeOK /\ [Next]_vars => TypeOK'
<1>. SUFFICES ASSUME TypeOK, [Next]_vars
              PROVE  TypeOK'
  OBVIOUS
<1>1. ASSUME NEW pw \in Passwords, Initialize(pw)
      PROVE  TypeOK'
  <2>1. crypto' \in Keys /\ crypto' # Nil
    BY <1>1, DeriveKeyType, NotNil DEF Initialize, TypeOK, Salts, FreshSalt
  <2>2. meta' \in Metas /\ meta' # Nil
    BY <1>1, <2>1, MetaForType DEF Initialize, FreshSalt
  <2>3. data' \in SecretMaps /\ data' # Nil
    <3>1. data' \in SecretMaps
      BY <1>1 DEF Initialize, NoSecrets, SecretMaps, FreshSalt
    <3>. QED  BY <3>1, NotNil
  <2>4. /\ acked' \in [Paths -> Values \cup {Nil}]
        /\ tried' \in [Paths -> SUBSET (Values \cup {Nil})]
    BY <1>1 DEF Initialize, NoSecrets, FreshSalt
  <2>5. nextSalt' \in Nat
    BY <1>1 DEF Initialize, TypeOK, FreshSalt
  <2>. QED
    BY <1>1, <2>1, <2>2, <2>3, <2>4, <2>5
       DEF Initialize, TypeOK, IsLocked, disk, MetaWrites, DataWrites,
           FreshSalt
<1>2. ASSUME NEW pw \in Passwords, UnlockRefused(pw)
      PROVE  TypeOK'
  BY <1>2, NotNil
     DEF UnlockRefused, TypeOK, IsLocked, MetaReadable, disk, history
<1>3. ASSUME NEW pw \in Passwords, UnlockLoadFails(pw)
      PROVE  TypeOK'
  <2>1. faults' \in Nat
    BY <1>3 DEF UnlockLoadFails, TypeOK
  <2>. QED
    BY <1>3, <2>1
       DEF UnlockLoadFails, TypeOK, IsLocked, MetaReadable, disk, history
<1>4. ASSUME NEW pw \in Passwords, UnlockOpens(pw)
      PROVE  TypeOK'
  <2>1. metaFile \in Metas /\ metaFile # Nil
    BY <1>4, NotNil DEF UnlockOpens, TypeOK, MetaReadable
  <2>2. crypto' \in Keys
    BY <1>4, <2>1, DeriveKeyType DEF UnlockOpens, Metas
  <2>3. data' \in SecretMaps /\ data' # Nil
    BY <1>4, LoadedDataType, NotNil DEF UnlockOpens
  <2>. QED
    BY <1>4, <2>1, <2>2, <2>3 DEF UnlockOpens, TypeOK, IsLocked, disk, history
<1>5. ASSUME NEW old \in Passwords, NEW new \in Passwords,
             ChangePassword(old, new)
      PROVE  TypeOK'
  <2>1. crypto' \in Keys /\ crypto' # Nil
    BY <1>5, DeriveKeyType, NotNil DEF ChangePassword, TypeOK, Salts,
                                       FreshSalt
  <2>2. meta' \in Metas /\ meta' # Nil
    BY <1>5, <2>1, MetaForType DEF ChangePassword, FreshSalt
  <2>3. data' \in SecretMaps /\ data' # Nil
    BY <1>5, <2>1, ReencryptedType, NotNil
       DEF ChangePassword, TypeOK, IsLocked, FreshSalt
  <2>4. nextSalt' \in Nat /\ triedPw' \in SUBSET Passwords
    BY <1>5 DEF ChangePassword, TypeOK, FreshSalt
  <2>. QED
    BY <1>5, <2>1, <2>2, <2>3, <2>4
       DEF ChangePassword, TypeOK, IsLocked, disk, MetaWrites, FreshSalt
<1>6. ASSUME NEW p \in Paths, NEW c \in Ciphertexts \cup {Nil},
             NEW v \in Values \cup {Nil}, Change(p, c, v)
      PROVE  TypeOK'
  <2>1. data' \in SecretMaps /\ data' # Nil
    <3>1. data \in SecretMaps
      BY <1>6 DEF Change, TypeOK, IsLocked
    <3>2. data' \in SecretMaps
      BY <1>6, <3>1 DEF Change, SecretMaps
    <3>. QED  BY <3>2, NotNil
  <2>2. tried' \in [Paths -> SUBSET (Values \cup {Nil})]
    BY <1>6 DEF Change, TypeOK
  <2>3. /\ arg' \in [path : Paths, value : Values \cup {Nil}]
        /\ arg' # Nil
    <3>1. arg' = [path |-> p, value |-> v]
      BY <1>6 DEF Change
    <3>2. arg' \in [path : Paths, value : Values \cup {Nil}]
      BY <3>1
    <3>. QED  BY <3>2, NotNil
  <2>. QED
    BY <1>6, <2>1, <2>2, <2>3 DEF Change, TypeOK, IsLocked, disk, DataWrites
<1>7. ASSUME NEW p \in Paths, NEW v \in Values, Set(p, v)
      PROVE  TypeOK'
  <2>1. Encrypt(crypto, v) \in Ciphertexts
    BY <1>7, EncryptType DEF Set, Change, TypeOK, IsLocked
  <2>. QED  BY <1>6, <1>7, <2>1 DEF Set
<1>8. ASSUME NEW p \in Paths, Delete(p)
      PROVE  TypeOK'
  BY <1>6, <1>8 DEF Delete
<1>9. CASE InitializeSavesMeta
  BY <1>9 DEF InitializeSavesMeta, TypeOK, IsLocked, memory, history,
              DataWrites, SaveMeta
<1>10. CASE InitializeSavesData
  BY <1>10 DEF InitializeSavesData, TypeOK, IsLocked, Keys, SaveData
<1>11. CASE Lock
  BY <1>11 DEF Lock, ForgetKeyAndData, TypeOK, IsLocked, disk, memory, history,
               DataWrites
<1>12. CASE LockSaves
  BY <1>12 DEF LockSaves, HealedByDataWrite, ForgetKeyAndData, TypeOK,
               IsLocked, history, SaveData
<1>13. CASE ChangeSaved
  <2>1. /\ acked' \in [Paths -> Values \cup {Nil}]
        /\ tried' \in [Paths -> SUBSET (Values \cup {Nil})]
    BY <1>13 DEF ChangeSaved, TypeOK, SaveData
  <2>. QED
    BY <1>13, <2>1 DEF ChangeSaved, HealedByDataWrite, TypeOK, IsLocked,
                       SaveData
<1>14. CASE ChangePasswordSavesMeta
  BY <1>14 DEF ChangePasswordSavesMeta, TypeOK, IsLocked, memory, history,
               DataWrites, SaveMeta
<1>15. CASE ChangePasswordSavesData
  BY <1>15 DEF ChangePasswordSavesData, TypeOK, IsLocked, Keys, SaveData
<1>16. ASSUME pc # "idle", InterruptedWrite
       PROVE  /\ metaFile' \in Metas \cup {Absent, Torn}
              /\ dataFile' \in SecretMaps \cup {Absent, Torn}
  BY <1>16 DEF InterruptedWrite, TypeOK, IsLocked, disk
<1>17. CASE WriteFails
  <2>1. cut' \in BOOLEAN
    BY <1>17 DEF WriteFails, TypeOK
  <2>. QED
    BY <1>16, <1>17, <2>1 DEF WriteFails, TypeOK, IsLocked, memory, history
<1>18. CASE Crash
  <2>1. /\ metaFile' \in Metas \cup {Absent, Torn}
        /\ dataFile' \in SecretMaps \cup {Absent, Torn}
    <3>1. CASE pc = "idle"
      BY <1>18, <3>1 DEF Crash, InterruptedWrite, TypeOK, disk, MetaWrites,
                         DataWrites
    <3>. QED  BY <1>16, <1>18, <3>1 DEF Crash
  <2>2. cut' \in BOOLEAN /\ faults' \in Nat
    BY <1>18 DEF Crash, TypeOK
  <2>. QED
    BY <1>18, <2>1, <2>2
       DEF Crash, ForgetKeyAndData, TypeOK, IsLocked, history
<1>19. CASE UNCHANGED vars
  BY <1>19 DEF vars, TypeOK, IsLocked, disk, memory, history
<1>. QED
  BY <1>1, <1>2, <1>3, <1>4, <1>5, <1>7, <1>8, <1>9, <1>10, <1>11, <1>12,
     <1>13, <1>14, <1>15, <1>17, <1>18, <1>19 DEF Next

\* Every variable has its type in every reachable state; in particular an
\* unlocked store always holds metadata and a map, so Set never writes into
\* a missing map and ChangePassword never reads missing metadata.
THEOREM TypeCorrect == Spec => []TypeOK
BY TypeInit, TypeNext, PTL DEF Spec

-----------------------------------------------------------------------------
(* The inductive invariant *)

\* An entry of a map of secrets is a ciphertext with a key and a salt.
LEMMA EntryType ==
  ASSUME NEW d \in SecretMaps, NEW p \in Paths, d[p] # Nil
  PROVE  /\ d[p] \in Ciphertexts
         /\ d[p].key \in Keys
         /\ d[p].key.salt \in Nat
         /\ d[p].text \in Values
BY DEF SecretMaps, Ciphertexts, Keys, Salts

\* The metadata made for a key names that key.
LEMMA MetaForKey ==
  ASSUME NEW key
  PROVE  /\ MetaFor(key).verification.key = key
         /\ MetaFor(key).salt = key.salt
BY DEF MetaFor, CreateVerificationBlob, Encrypt

\* The steps that draw no salt and write no secret: they make no salt live
\* and move maps around between memory and disk.
Moves ==
  /\ LiveSalts' \subseteq LiveSalts
  /\ nextSalt' = nextSalt
  /\ \A p \in Paths : Expected(p)' = Expected(p)
  /\ ~IsLocked' => \/ ~IsLocked /\ data' = data
                   \/ dataFile # Torn /\ data' = LoadedData
  /\ dataFile' # Torn =>
       \/ dataFile' = dataFile
       \/ ~IsLocked /\ dataFile' = data

\* Such a step keeps the salts fresh and the entries right.
LEMMA MovesKeep ==
  ASSUME SaltsFresh, EntriesRight, Moves,
         MetaReadable' => metaFile'.salt \in LiveSalts
  PROVE  SaltsFresh' /\ EntriesRight'
<1>1. \A s \in LiveSalts : s < nextSalt
  BY DEF SaltsFresh, LiveSalts
<1>2. ~IsLocked' => crypto'.salt \in LiveSalts
  BY DEF Moves, LiveSalts
<1>3. SaltsSpent(NoSecrets) /\ RightWhereLive(NoSecrets)
  BY DEF SaltsSpent, RightWhereLive, NoSecrets
<1>4. ASSUME NEW d, SaltsSpent(d)
      PROVE  \A p \in Paths : d[p] # Nil => d[p].key.salt < nextSalt'
  BY <1>4 DEF SaltsSpent, Moves
<1>5. ASSUME NEW d, RightWhereLive(d)
      PROVE  \A p \in Paths :
               d[p] # Nil /\ d[p].key.salt \in LiveSalts' =>
                 d[p].text \in Expected(p)'
  BY <1>5 DEF RightWhereLive, Moves
<1>6. SaltsFresh'
  <2>1. ~IsLocked' => SaltsSpent(data)'
    BY <1>3, <1>4 DEF Moves, SaltsFresh, SaltsSpent, LoadedData
  <2>2. dataFile' \notin {Absent, Torn} => SaltsSpent(dataFile)'
    BY <1>4 DEF Moves, SaltsFresh, SaltsSpent
  <2>. QED  BY <1>1, <1>2, <2>1, <2>2 DEF SaltsFresh, Moves
<1>7. EntriesRight'
  <2>1. ~IsLocked' => RightWhereLive(data)'
    BY <1>3, <1>5 DEF Moves, EntriesRight, RightWhereLive, LoadedData
  <2>2. dataFile' \notin {Absent, Torn} => RightWhereLive(dataFile)'
    BY <1>5 DEF Moves, EntriesRight, RightWhereLive
  <2>. QED  BY <2>1, <2>2 DEF EntriesRight
<1>. QED  BY <1>6, <1>7

\* Which steps those are.
MovingStep ==
  \/ \E pw \in Passwords :
       UnlockRefused(pw) \/ UnlockLoadFails(pw) \/ UnlockOpens(pw)
  \/ InitializeSavesMeta \/ InitializeSavesData
  \/ Lock \/ LockSaves
  \/ ChangePasswordSavesMeta \/ ChangePasswordSavesData
  \/ WriteFails \/ Crash
  \/ UNCHANGED vars

LEMMA MovingSteps ==
  ASSUME IndInv, MovingStep
  PROVE  Moves /\ (MetaReadable' => metaFile'.salt \in LiveSalts)
<1>1. pc \in TwoFileWrites => ~IsLocked /\ meta.salt = crypto.salt
  BY MetaForKey DEF IndInv, MetaMatchesKey, TypeOK, TwoFileWrites
<1>. DEFINE Goal == Moves /\ (MetaReadable' => metaFile'.salt \in LiveSalts)
<1>2. ASSUME NEW pw \in Passwords, UnlockRefused(pw)
      PROVE  Goal
  BY <1>2 DEF UnlockRefused, Moves, LiveSalts, MetaReadable, IsLocked, Expected,
              disk, history
<1>3. ASSUME NEW pw \in Passwords, UnlockLoadFails(pw)
      PROVE  Goal
  BY <1>3 DEF UnlockLoadFails, Moves, LiveSalts, MetaReadable, IsLocked,
              Expected, disk, history
<1>4. ASSUME NEW pw \in Passwords, UnlockOpens(pw)
      PROVE  Goal
  <2>1. crypto'.salt = metaFile.salt
    BY <1>4 DEF UnlockOpens, DeriveKey
  <2>2. LiveSalts' \subseteq LiveSalts
    BY <1>4, <2>1 DEF UnlockOpens, LiveSalts, MetaReadable, IsLocked, disk
  <2>. QED
    BY <1>4, <2>2 DEF UnlockOpens, Moves, LiveSalts, MetaReadable, LoadedData,
                      Expected, disk, history
<1>5. ASSUME InitializeSavesMeta \/ ChangePasswordSavesMeta
      PROVE  Goal
  <2>1. ~IsLocked /\ meta.salt = crypto.salt
    BY <1>1, <1>5 DEF InitializeSavesMeta, ChangePasswordSavesMeta,
                      TwoFileWrites, SaveMeta
  <2>2. metaFile'.salt \in LiveSalts /\ LiveSalts' \subseteq LiveSalts
    BY <1>5, <2>1 DEF InitializeSavesMeta, ChangePasswordSavesMeta, LiveSalts,
                      MetaReadable, IsLocked, memory, SaveMeta
  <2>. QED
    BY <1>5, <2>2 DEF InitializeSavesMeta, ChangePasswordSavesMeta, Moves,
                      Expected, IsLocked, memory, history, SaveMeta
<1>6. ASSUME InitializeSavesData \/ ChangePasswordSavesData
      PROVE  Goal
  <2>1. ~IsLocked
    BY <1>1, <1>6 DEF InitializeSavesData, ChangePasswordSavesData,
                      TwoFileWrites, SaveData
  <2>. QED
    BY <1>6, <2>1 DEF InitializeSavesData, ChangePasswordSavesData, Moves,
                      LiveSalts, MetaReadable, Expected, IsLocked, SaveData
<1>7. CASE Lock
  BY <1>7 DEF Lock, ForgetKeyAndData, Moves, LiveSalts, MetaReadable, Expected,
              IsLocked, disk, memory, history
<1>8. CASE LockSaves
  <2>1. ~IsLocked
    BY <1>8 DEF IndInv, TypeOK, LockSaves, SaveData
  <2>. QED
    BY <1>8, <2>1 DEF LockSaves, ForgetKeyAndData, Moves, LiveSalts,
                      MetaReadable, Expected, IsLocked, history, SaveData
<1>9. ASSUME InterruptedWrite, crypto' = crypto \/ crypto' = Nil
      PROVE  /\ LiveSalts' \subseteq LiveSalts
             /\ MetaReadable' => metaFile'.salt \in LiveSalts
             /\ dataFile' # Torn =>
                  \/ dataFile' = dataFile
                  \/ ~IsLocked /\ dataFile' = data
  <2>1. MetaReadable' => metaFile'.salt \in LiveSalts
    <3>1. CASE metaFile' = metaFile
      BY <3>1 DEF MetaReadable, LiveSalts
    <3>2. CASE pc \in MetaWrites /\ metaFile' = meta
      BY <1>1, <3>2 DEF MetaWrites, TwoFileWrites, LiveSalts
    <3>3. CASE metaFile' = Torn
      BY <3>3 DEF MetaReadable
    <3>. QED  BY <1>9, <3>1, <3>2, <3>3 DEF InterruptedWrite, disk
  <2>2. LiveSalts' \subseteq LiveSalts
    BY <1>9, <2>1 DEF LiveSalts, IsLocked
  <2>3. pc # "idle" => ~IsLocked
    BY DEF IndInv, TypeOK
  <2>. QED
    BY <1>9, <2>1, <2>2, <2>3 DEF InterruptedWrite, disk, DataWrites
<1>10. CASE WriteFails
  BY <1>9, <1>10 DEF WriteFails, Moves, Expected, IsLocked, memory, history
<1>11. CASE Crash
  BY <1>9, <1>11 DEF Crash, ForgetKeyAndData, Moves, Expected, IsLocked, history
<1>12. CASE UNCHANGED vars
  BY <1>12 DEF vars, Moves, LiveSalts, MetaReadable, IsLocked, Expected, disk,
               memory, history
<1>. QED
  BY <1>2, <1>3, <1>4, <1>5, <1>6, <1>7, <1>8, <1>10, <1>11, <1>12
     DEF MovingStep

\* The four kinds of step that do draw a salt or write a secret keep the
\* salts fresh and the entries right too.
LEMMA InitializeKeeps ==
  ASSUME IndInv, NEW pw \in Passwords, Initialize(pw)
  PROVE  SaltsFresh' /\ EntriesRight'
<1>1. /\ ~MetaReadable' /\ dataFile' = dataFile /\ data' = NoSecrets
      /\ crypto'.salt = nextSalt /\ nextSalt' = nextSalt + 1
      /\ nextSalt \in Nat
  BY DEF Initialize, MetaReadable, VaultExists, DeriveKey, disk, IndInv,
         TypeOK, FreshSalt
<1>2. LiveSalts' \subseteq {nextSalt}
  BY <1>1 DEF LiveSalts
<1>3. ASSUME NEW p \in Paths, dataFile \notin {Absent, Torn},
             dataFile[p] # Nil
      PROVE  dataFile[p].key.salt \in Nat /\ dataFile[p].key.salt < nextSalt
  BY <1>3, EntryType DEF IndInv, TypeOK, SaltsFresh, SaltsSpent
<1>4. SaltsFresh'
  BY <1>1, <1>3 DEF SaltsFresh, SaltsSpent, NoSecrets
<1>5. EntriesRight'
  BY <1>1, <1>2, <1>3 DEF EntriesRight, RightWhereLive, NoSecrets
<1>. QED  BY <1>4, <1>5

LEMMA ChangeKeeps ==
  ASSUME IndInv, NEW p \in Paths, NEW c, NEW v, Change(p, c, v),
         c = IF v = Nil THEN Nil ELSE Encrypt(crypto, v)
  PROVE  SaltsFresh' /\ EntriesRight' /\ ChangeInMemory'
<1>1. /\ ~IsLocked /\ ~IsLocked' /\ crypto' = crypto
      /\ metaFile' = metaFile /\ dataFile' = dataFile
      /\ nextSalt' = nextSalt /\ data \in SecretMaps
      /\ data' = [data EXCEPT ![p] = c]
      /\ arg' = [path |-> p, value |-> v]
  BY DEF Change, IsLocked, disk, IndInv, TypeOK
<1>2. LiveSalts' = LiveSalts
  BY <1>1 DEF LiveSalts, MetaReadable
<1>3. /\ \A q \in Paths : Expected(q) \subseteq Expected(q)'
      /\ v \in Expected(p)'
  BY DEF Change, Expected, IndInv, TypeOK
<1>4. c # Nil => c.key = crypto /\ c.text = v
  BY DEF Encrypt
<1>5. \A q \in Paths : data'[q] = IF q = p THEN c ELSE data[q]
  BY <1>1 DEF SecretMaps
<1>6. SaltsFresh'
  BY <1>1, <1>4, <1>5 DEF SaltsFresh, SaltsSpent, MetaReadable, IndInv
<1>7. EntriesRight'
  <2>1. RightWhereLive(data)'
    BY <1>1, <1>2, <1>3, <1>4, <1>5 DEF EntriesRight, RightWhereLive, IndInv
  <2>2. dataFile' \notin {Absent, Torn} => RightWhereLive(dataFile)'
    BY <1>1, <1>2, <1>3 DEF EntriesRight, RightWhereLive, IndInv
  <2>. QED  BY <2>1, <2>2 DEF EntriesRight
<1>8. ChangeInMemory'
  BY <1>1, <1>5 DEF ChangeInMemory
<1>. QED  BY <1>6, <1>7, <1>8

LEMMA ChangeSavedKeeps ==
  ASSUME IndInv, ChangeSaved
  PROVE  SaltsFresh' /\ EntriesRight'
<1>. PICK a : a = arg
  OBVIOUS
<1>1. /\ ~IsLocked /\ crypto' = crypto /\ metaFile' = metaFile
      /\ nextSalt' = nextSalt /\ data' = data /\ dataFile' = data
      /\ a.path \in Paths /\ data \in SecretMaps
  BY DEF ChangeSaved, IsLocked, IndInv, TypeOK, SaveData
<1>2. LiveSalts' = LiveSalts
  BY <1>1 DEF LiveSalts, MetaReadable, IsLocked
<1>3. \A p \in Paths \ {a.path} : Expected(p)' = Expected(p)
  BY DEF ChangeSaved, Expected, IndInv, TypeOK, SaveData
<1>4. a.value \in Expected(a.path)'
  BY <1>1 DEF ChangeSaved, Expected, IndInv, TypeOK, SaveData
<1>5. data[a.path] # Nil => data[a.path].text = a.value
  BY DEF ChangeSaved, IndInv, ChangeInMemory, Encrypt, SaveData
<1>6. RightWhereLive(data)'
  BY <1>1, <1>2, <1>3, <1>4, <1>5 DEF RightWhereLive, EntriesRight, IndInv
<1>7. EntriesRight'
  BY <1>1, <1>6 DEF EntriesRight, RightWhereLive
<1>8. SaltsFresh'
  BY <1>1 DEF SaltsFresh, SaltsSpent, MetaReadable, IsLocked, IndInv
<1>. QED  BY <1>7, <1>8

LEMMA ChangePasswordKeeps ==
  ASSUME IndInv, NEW old \in Passwords, NEW new \in Passwords,
         ChangePassword(old, new)
  PROVE  SaltsFresh' /\ EntriesRight'
<1>1. /\ ~IsLocked /\ crypto'.salt = nextSalt /\ metaFile' = metaFile
      /\ nextSalt' = nextSalt + 1 /\ nextSalt \in Nat
      /\ dataFile' = dataFile /\ data \in SecretMaps
      /\ data' = Reencrypted(data, crypto')
  BY DEF ChangePassword, DeriveKey, disk, IsLocked, IndInv, TypeOK, FreshSalt
<1>2. MetaReadable => metaFile.salt \in Nat /\ metaFile.salt < nextSalt
  BY DEF IndInv, TypeOK, SaltsFresh, MetaReadable, Metas, Salts
<1>3. \A p \in Paths : Expected(p)' = Expected(p)
  BY DEF ChangePassword, Expected, FreshSalt
<1>4. ASSUME NEW p \in Paths, data'[p] # Nil
      PROVE  /\ data'[p].key.salt = nextSalt
             /\ data'[p].text \in Expected(p)'
  <2>1. data[p] # Nil /\ data'[p] = Encrypt(crypto', Decrypt(data[p]))
    BY <1>1, <1>4 DEF Reencrypted
  <2>2. data[p].key.salt \in LiveSalts
    BY <1>1, <2>1 DEF ChangePassword, OpensWith, Decryptable, LiveSalts,
                      FreshSalt
  <2>3. data[p].text \in Expected(p)
    BY <1>1, <2>1, <2>2 DEF IndInv, EntriesRight, RightWhereLive
  <2>. QED  BY <1>1, <1>3, <2>1, <2>3 DEF Encrypt, Decrypt
<1>5. ASSUME NEW p \in Paths, dataFile \notin {Absent, Torn},
             dataFile[p] # Nil
      PROVE  dataFile[p].key.salt \in Nat /\ dataFile[p].key.salt < nextSalt
  BY <1>5, EntryType DEF IndInv, TypeOK, SaltsFresh, SaltsSpent
<1>6. SaltsFresh'
  BY <1>1, <1>2, <1>4, <1>5 DEF SaltsFresh, SaltsSpent, MetaReadable
<1>7. EntriesRight'
  <2>1. RightWhereLive(data)'
    BY <1>4 DEF RightWhereLive
  <2>2. LiveSalts' \subseteq LiveSalts \cup {nextSalt}
    BY <1>1 DEF LiveSalts, MetaReadable
  <2>3. dataFile' \notin {Absent, Torn} => RightWhereLive(dataFile)'
    BY <1>1, <1>3, <1>5, <2>2 DEF RightWhereLive, EntriesRight, IndInv
  <2>. QED  BY <2>1, <2>3 DEF EntriesRight
<1>. QED  BY <1>6, <1>7

\* Which steps leave the metadata file, the control point and the key such
\* that the metadata and the passwords stay matched.
LEMMA MatchesAndKnownNext ==
  ASSUME IndInv, [Next]_vars
  PROVE  MetaMatchesKey' /\ PasswordKnown'
<1>. DEFINE Goal == MetaMatchesKey' /\ PasswordKnown'
<1>. USE DEF MetaMatchesKey, PasswordKnown, MetaReadable, TwoFileWrites,
             MetaWrites, DiskKey
<1>1. ASSUME NEW pw \in Passwords, Initialize(pw)
      PROVE  Goal
  BY <1>1 DEF Initialize, VaultExists, DeriveKey, disk, FreshSalt
<1>2. ASSUME NEW pw \in Passwords,
             UnlockRefused(pw) \/ UnlockLoadFails(pw) \/ UnlockOpens(pw)
      PROVE  Goal
  BY <1>2 DEF IndInv, UnlockRefused, UnlockLoadFails, UnlockOpens, disk, history
<1>3. ASSUME NEW old \in Passwords, NEW new \in Passwords,
             ChangePassword(old, new)
      PROVE  Goal
  BY <1>3 DEF IndInv, ChangePassword, DeriveKey, disk, FreshSalt
<1>4. ASSUME NEW p, NEW c, NEW v, Change(p, c, v)
      PROVE  Goal
  BY <1>4 DEF IndInv, Change, disk
<1>5. CASE InitializeSavesMeta \/ ChangePasswordSavesMeta
  BY <1>5, MetaForKey
     DEF IndInv, InitializeSavesMeta, ChangePasswordSavesMeta, memory,
         history, SaveMeta
<1>6. CASE InitializeSavesData \/ ChangePasswordSavesData
  BY <1>6, MetaForKey DEF IndInv, InitializeSavesData,
                          ChangePasswordSavesData, SaveData
<1>7. CASE Lock \/ LockSaves
  BY <1>7 DEF IndInv, Lock, LockSaves, disk, memory, history, SaveData
<1>8. CASE ChangeSaved
  BY <1>8 DEF IndInv, ChangeSaved, SaveData
<1>9. ASSUME InterruptedWrite, pc' = "idle", UNCHANGED history
      PROVE  Goal
  <2>1. CASE metaFile' = metaFile
    BY <1>9, <2>1 DEF IndInv, history
  <2>2. CASE pc \in MetaWrites /\ metaFile' = meta
    BY <1>9, <2>2, MetaForKey DEF IndInv, history
  <2>3. CASE metaFile' = Torn
    BY <1>9, <2>3
  <2>. QED  BY <1>9, <2>1, <2>2, <2>3 DEF InterruptedWrite, disk
<1>10. CASE WriteFails \/ Crash
  BY <1>9, <1>10 DEF WriteFails, Crash, history
<1>11. CASE UNCHANGED vars
  BY <1>11 DEF IndInv, vars, disk, memory, history
<1>. QED
  BY <1>1, <1>2, <1>3, <1>4, <1>5, <1>6, <1>7, <1>8, <1>10, <1>11
     DEF Next, Set, Delete

LEMMA IndInvInit == Init => IndInv
<1>. SUFFICES ASSUME Init
              PROVE  IndInv
  OBVIOUS
<1>1. TypeOK
  BY TypeInit
<1>2. SaltsFresh /\ EntriesRight
  BY DEF Init, SaltsFresh, EntriesRight, MetaReadable, IsLocked
<1>3. MetaMatchesKey /\ PasswordKnown /\ ChangeInMemory
  BY DEF Init, MetaMatchesKey, PasswordKnown, ChangeInMemory, MetaReadable,
         TwoFileWrites, MetaWrites
<1>. QED  BY <1>1, <1>2, <1>3 DEF IndInv

LEMMA IndInvNext == IndInv /\ [Next]_vars => IndInv'
<1>. SUFFICES ASSUME IndInv, [Next]_vars
              PROVE  IndInv'
  OBVIOUS
<1>1. TypeOK'
  BY TypeNext DEF IndInv
<1>2. MetaMatchesKey' /\ PasswordKnown'
  BY MatchesAndKnownNext
<1>. DEFINE Goal == SaltsFresh' /\ EntriesRight' /\ ChangeInMemory'
<1>3. ASSUME pc' # "setData"
      PROVE  ChangeInMemory'
  BY <1>3 DEF ChangeInMemory
<1>4. ASSUME NEW pw \in Passwords, Initialize(pw)
      PROVE  Goal
  BY <1>3, <1>4, InitializeKeeps DEF Initialize, FreshSalt
<1>5. ASSUME NEW old \in Passwords, NEW new \in Passwords,
             ChangePassword(old, new)
      PROVE  Goal
  BY <1>3, <1>5, ChangePasswordKeeps DEF ChangePassword, FreshSalt
<1>6. ASSUME NEW p \in Paths, NEW v \in Values, Set(p, v)
      PROVE  Goal
  BY <1>6, ChangeKeeps, CryptoConstants DEF Set
<1>7. ASSUME NEW p \in Paths, Delete(p)
      PROVE  Goal
  BY <1>7, ChangeKeeps DEF Delete
<1>8. ASSUME ChangeSaved
      PROVE  Goal
  BY <1>3, <1>8, ChangeSavedKeeps DEF ChangeSaved, SaveData
<1>9. ASSUME MovingStep
      PROVE  Goal
  <2>1. SaltsFresh' /\ EntriesRight'
    BY <1>9, MovingSteps, MovesKeep DEF IndInv
  <2>2. ChangeInMemory'
    <3>1. CASE UNCHANGED vars
      BY <3>1 DEF IndInv, ChangeInMemory, vars, memory
    <3>2. CASE ~UNCHANGED vars
      BY <1>3, <1>9, <3>2
         DEF MovingStep, UnlockRefused, UnlockLoadFails, UnlockOpens,
             InitializeSavesMeta, InitializeSavesData, Lock, LockSaves,
             ChangePasswordSavesMeta, ChangePasswordSavesData, WriteFails,
             Crash, SaveMeta, SaveData
    <3>. QED  BY <3>1, <3>2
  <2>. QED  BY <2>1, <2>2
<1>10. Goal
  BY <1>4, <1>5, <1>6, <1>7, <1>8, <1>9 DEF Next, MovingStep
<1>. QED  BY <1>1, <1>2, <1>10 DEF IndInv

\* The inductive invariant holds in every reachable state.
THEOREM Inductive == Spec => []IndInv
BY IndInvInit, IndInvNext, PTL DEF Spec

-----------------------------------------------------------------------------
(* Nothing is lost: SavedInv is preserved besides *)

\* The three kinds of write that complete leave the map in memory on disk.
LEMMA SaveDataLoads ==
  ASSUME TypeOK, pc \in DataWrites, SaveData
  PROVE  /\ LoadedData' = data
         /\ dataFile' # Torn
         /\ dirty' = FALSE
         /\ ~IsLocked
<1>1. ~IsLocked /\ data \in SecretMaps
  BY DEF TypeOK, IsLocked, DataWrites
<1>. QED  BY <1>1, StoreConstants DEF SaveData, LoadedData

\* A path that reads as missing may be missing, whatever the step.
LEMMA MissingNext ==
  ASSUME IndInv, MissingRight, [Next]_vars
  PROVE  MissingRight'
<1>1. ASSUME NEW pw \in Passwords, Initialize(pw)
      PROVE  MissingRight'
  <2>1. \A p \in Paths : Nil \in Expected(p)'
    BY <1>1 DEF Initialize, Expected, NoSecrets, FreshSalt
  <2>. QED  BY <2>1 DEF MissingRight, NilRight
<1>2. ASSUME NEW old \in Passwords, NEW new \in Passwords,
             ChangePassword(old, new)
      PROVE  MissingRight'
  <2>1. crypto' \in Keys
    BY <1>2, DeriveKeyType DEF ChangePassword, IndInv, TypeOK, Salts, FreshSalt
  <2>2. ~IsLocked /\ data \in SecretMaps
    BY <1>2 DEF ChangePassword, IndInv, TypeOK, IsLocked
  <2>3. \A p \in Paths : Expected(p)' = Expected(p)
    BY <1>2 DEF ChangePassword, Expected, FreshSalt
  <2>4. ASSUME NEW p \in Paths, data'[p] = Nil
        PROVE  data[p] = Nil
    <3>. SUFFICES ASSUME data[p] # Nil
                  PROVE  FALSE
      OBVIOUS
    <3>1. Decrypt(data[p]) \in Values
      BY <2>2, EntryType DEF Decrypt
    <3>2. data'[p] = Encrypt(crypto', Decrypt(data[p]))
      BY <1>2 DEF ChangePassword, Reencrypted, FreshSalt
    <3>. QED  BY <2>1, <2>4, <3>1, <3>2, EncryptType, CryptoConstants
  <2>5. dataFile' = dataFile /\ LoadedData' = LoadedData
    BY <1>2 DEF ChangePassword, disk, LoadedData, FreshSalt
  <2>. QED
    BY <2>2, <2>3, <2>4, <2>5 DEF MissingRight, NilRight
<1>3. ASSUME NEW p \in Paths, NEW c, NEW v, Change(p, c, v),
             c = Nil => v = Nil
      PROVE  MissingRight'
  <2>1. ~IsLocked /\ data \in SecretMaps
    BY <1>3 DEF Change, IndInv, TypeOK, IsLocked
  <2>2. /\ \A q \in Paths : Expected(q) \subseteq Expected(q)'
        /\ v \in Expected(p)'
    BY <1>3 DEF Change, Expected, IndInv, TypeOK
  <2>3. \A q \in Paths : data'[q] = IF q = p THEN c ELSE data[q]
    BY <1>3, <2>1 DEF Change, SecretMaps
  <2>4. dataFile' = dataFile /\ LoadedData' = LoadedData
    BY <1>3 DEF Change, disk, LoadedData
  <2>. QED
    BY <1>3, <2>1, <2>2, <2>3, <2>4 DEF MissingRight, NilRight
<1>4. ASSUME NEW p \in Paths, NEW v \in Values, Set(p, v)
      PROVE  MissingRight'
  <2>1. Encrypt(crypto, v) # Nil
    BY <1>4, EncryptType, CryptoConstants
       DEF Set, Change, IndInv, TypeOK, IsLocked
  <2>. QED  BY <1>3, <1>4, <2>1 DEF Set
<1>5. ASSUME NEW p \in Paths, Delete(p)
      PROVE  MissingRight'
  BY <1>3, <1>5 DEF Delete
<1>6. ASSUME ChangeSaved
      PROVE  MissingRight'
  <2>. PICK a : a = arg
    OBVIOUS
  <2>1. /\ ~IsLocked /\ a.path \in Paths /\ a.value \in Values \cup {Nil}
        /\ crypto \in Keys /\ data' = data
    BY <1>6 DEF ChangeSaved, IsLocked, IndInv, TypeOK, SaveData
  <2>2. LoadedData' = data
    BY <1>6, SaveDataLoads DEF ChangeSaved, IndInv, DataWrites
  <2>3. \A p \in Paths \ {a.path} : Expected(p)' = Expected(p)
    BY <1>6 DEF ChangeSaved, Expected, IndInv, TypeOK, SaveData
  <2>4. a.value \in Expected(a.path)'
    BY <1>6, <2>1 DEF ChangeSaved, Expected, IndInv, TypeOK, SaveData
  <2>5. data[a.path] = Nil => a.value = Nil
    BY <1>6, <2>1, EncryptType, CryptoConstants
       DEF ChangeSaved, IndInv, ChangeInMemory
  <2>. QED
    BY <2>1, <2>2, <2>3, <2>4, <2>5 DEF MissingRight, NilRight
<1>7. ASSUME MovingStep
      PROVE  MissingRight'
  <2>1. Moves
    BY <1>7, MovingSteps
  <2>2. ASSUME NEW d, NilRight(d)
        PROVE  \A p \in Paths : d[p] = Nil => Nil \in Expected(p)'
    BY <2>1, <2>2 DEF NilRight, Moves
  <2>3. ~IsLocked' => NilRight(data)'
    BY <2>1, <2>2 DEF Moves, MissingRight, NilRight
  <2>4. ~IsLocked => data # Absent
    BY StoreConstants DEF IndInv, TypeOK
  <2>5. ASSUME dataFile' # Torn
        PROVE  \/ dataFile # Torn /\ LoadedData' = LoadedData
               \/ ~IsLocked /\ LoadedData' = data
    BY <2>1, <2>4, <2>5 DEF Moves, LoadedData
  <2>6. dataFile' # Torn => NilRight(LoadedData)'
    BY <2>2, <2>5 DEF MissingRight, NilRight
  <2>. QED  BY <2>3, <2>6 DEF MissingRight
<1>. QED
  BY <1>1, <1>2, <1>4, <1>5, <1>6, <1>7 DEF Next, MovingStep

\* The key that a password which verifies derives is the key on disk.
LEMMA VerifiedKey ==
  ASSUME NEW pw,
         VerifyPassword(metaFile.salt, pw, metaFile.verification)
  PROVE  DeriveKey(pw, metaFile.salt) = DiskKey
BY DEF VerifyPassword, Decryptable, DiskKey

\* What is in memory opens with the key in memory, whatever the step.
LEMMA MemoryOpensNext ==
  ASSUME IndInv, MemoryOpens, DiskOpens, [Next]_vars
  PROVE  MemoryOpens'
<1>1. ASSUME NEW d, NEW key, OpensWith(d, key), data' = d, crypto' = key
      PROVE  MemoryOpens'
  BY <1>1 DEF MemoryOpens, OpensWith
<1>2. ASSUME NEW pw \in Passwords, Initialize(pw)
      PROVE  MemoryOpens'
  BY <1>2 DEF Initialize, MemoryOpens, OpensWith, NoSecrets, FreshSalt
<1>3. ASSUME UNCHANGED <<data, crypto, cut>>,
             pc' \in TwoFileWrites <=> pc \in TwoFileWrites
      PROVE  MemoryOpens'
  BY <1>3 DEF MemoryOpens, OpensWith, IsLocked
<1>4. ASSUME NEW pw \in Passwords, UnlockRefused(pw)
      PROVE  MemoryOpens'
  BY <1>3, <1>4 DEF UnlockRefused
<1>5. ASSUME crypto' = Nil
      PROVE  MemoryOpens'
  BY <1>5 DEF MemoryOpens, IsLocked
<1>6. ASSUME NEW pw \in Passwords, UnlockOpens(pw)
      PROVE  MemoryOpens'
  <2>1. /\ pc \notin TwoFileWrites /\ pc' = pc /\ cut' = cut
        /\ MetaReadable /\ dataFile # Torn
        /\ data' = LoadedData /\ crypto' = DiskKey
    BY <1>6, VerifiedKey DEF UnlockOpens, TwoFileWrites
  <2>2. ~cut => OpensWith(LoadedData, DiskKey)
    BY <2>1 DEF DiskOpens
  <2>. QED  BY <1>1, <2>1, <2>2 DEF MemoryOpens
<1>7. ASSUME NEW old \in Passwords, NEW new \in Passwords,
             ChangePassword(old, new)
      PROVE  MemoryOpens'
  <2>1. \A p \in Paths : data'[p] # Nil => data'[p].key = crypto'
    BY <1>7 DEF ChangePassword, Reencrypted, Encrypt, FreshSalt
  <2>. QED  BY <2>1 DEF MemoryOpens, OpensWith, Decryptable
<1>8. ASSUME NEW p \in Paths, NEW c, NEW v, Change(p, c, v),
             c # Nil => c.key = crypto
      PROVE  MemoryOpens'
  <2>1. /\ ~IsLocked /\ data \in SecretMaps /\ crypto' = crypto /\ cut' = cut
        /\ pc \notin TwoFileWrites /\ pc' \notin TwoFileWrites
    BY <1>8 DEF Change, IndInv, TypeOK, IsLocked, TwoFileWrites
  <2>2. \A q \in Paths : data'[q] = IF q = p THEN c ELSE data[q]
    BY <1>8, <2>1 DEF Change, SecretMaps
  <2>. QED
    BY <1>8, <2>1, <2>2 DEF MemoryOpens, OpensWith, Decryptable
<1>9. ASSUME NEW p \in Paths, NEW v \in Values, Set(p, v)
      PROVE  MemoryOpens'
  BY <1>8, <1>9 DEF Set, Encrypt
<1>10. ASSUME NEW p \in Paths, Delete(p)
       PROVE  MemoryOpens'
  BY <1>8, <1>10 DEF Delete
<1>11. CASE InitializeSavesMeta \/ ChangePasswordSavesMeta
  BY <1>3, <1>11 DEF InitializeSavesMeta, ChangePasswordSavesMeta, memory,
                     TwoFileWrites
<1>12. CASE InitializeSavesData \/ ChangePasswordSavesData
  <2>1. OpensWith(data, crypto)
    BY <1>12 DEF InitializeSavesData, ChangePasswordSavesData, MemoryOpens,
                 IndInv, TypeOK, TwoFileWrites
  <2>. QED
    BY <1>1, <1>12, <2>1 DEF InitializeSavesData, ChangePasswordSavesData
<1>13. CASE Lock
  <2>1. CASE crypto' = Nil
    BY <1>5, <2>1
  <2>2. CASE UNCHANGED <<memory, cut>> /\ pc' \notin TwoFileWrites
    BY <1>3, <1>13, <2>2 DEF Lock, memory, TwoFileWrites
  <2>. QED
    BY <1>13, <2>1, <2>2 DEF Lock, ForgetKeyAndData, TwoFileWrites
<1>14. CASE LockSaves
  BY <1>5, <1>14 DEF LockSaves, ForgetKeyAndData
<1>15. CASE ChangeSaved
  <2>1. cut' \/ OpensWith(data, crypto)
    BY <1>15 DEF ChangeSaved, HealedByDataWrite, MemoryOpens, IndInv, TypeOK
  <2>2. data' = data /\ crypto' = crypto /\ pc' \notin TwoFileWrites
    BY <1>15 DEF ChangeSaved, TwoFileWrites
  <2>. QED  BY <1>1, <2>1, <2>2 DEF MemoryOpens
<1>16. CASE WriteFails
  <2>1. /\ data' = data /\ crypto' = crypto
        /\ ~cut' => ~cut
    BY <1>16 DEF WriteFails, memory
  <2>2. pc' \notin TwoFileWrites
    BY <1>16 DEF WriteFails, TwoFileWrites
  <2>. QED  BY <2>1, <2>2 DEF MemoryOpens, OpensWith, IsLocked
<1>17. CASE Crash
  BY <1>5, <1>17 DEF Crash, ForgetKeyAndData
<1>18. CASE UNCHANGED vars
  BY <1>3, <1>18 DEF vars, memory
<1>19. ASSUME NEW pw \in Passwords, UnlockLoadFails(pw)
       PROVE  MemoryOpens'
  BY <1>5, <1>19 DEF UnlockLoadFails
<1>. QED
  BY <1>2, <1>4, <1>6, <1>7, <1>9, <1>10, <1>11, <1>12, <1>13, <1>14, <1>15,
     <1>16, <1>17, <1>18, <1>19 DEF Next

\* What is on disk opens with the key on disk, which is the key in memory,
\* whatever the step.
LEMMA DiskOpensNext ==
  ASSUME IndInv, MemoryOpens, DiskOpens, [Next]_vars
  PROVE  DiskOpens'
<1>1. ASSUME pc' \in TwoFileWrites
      PROVE  DiskOpens'
  BY <1>1 DEF DiskOpens
<1>2. ASSUME UNCHANGED <<disk, cut>>, pc \notin TwoFileWrites,
             crypto' \in {crypto, Nil} \/ crypto' = DiskKey
      PROVE  DiskOpens'
  BY <1>2 DEF DiskOpens, OpensWith, MetaReadable, IsLocked, DiskKey, LoadedData,
              disk
<1>3. ASSUME SaveData, pc \in DataWrites, crypto' \in {crypto, Nil},
             DiskKey' = crypto, ~cut' => OpensWith(data, crypto)
      PROVE  DiskOpens'
  <2>1. LoadedData' = data
    BY <1>3, SaveDataLoads DEF IndInv
  <2>. QED  BY <1>3, <2>1 DEF DiskOpens, OpensWith, IsLocked
<1>4. ASSUME NEW pw \in Passwords, Initialize(pw)
      PROVE  DiskOpens'
  BY <1>1, <1>4 DEF Initialize, TwoFileWrites, FreshSalt
<1>5. ASSUME NEW old \in Passwords, NEW new \in Passwords,
             ChangePassword(old, new)
      PROVE  DiskOpens'
  BY <1>1, <1>5 DEF ChangePassword, TwoFileWrites, FreshSalt
<1>6. CASE InitializeSavesMeta \/ ChangePasswordSavesMeta
  BY <1>1, <1>6 DEF InitializeSavesMeta, ChangePasswordSavesMeta, TwoFileWrites
<1>7. ASSUME NEW pw \in Passwords,
             UnlockRefused(pw) \/ UnlockLoadFails(pw) \/ UnlockOpens(pw)
      PROVE  DiskOpens'
  BY <1>2, <1>7, VerifiedKey
     DEF UnlockRefused, UnlockLoadFails, UnlockOpens, TwoFileWrites
<1>8. ASSUME NEW p, NEW c, NEW v, Change(p, c, v)
      PROVE  DiskOpens'
  BY <1>2, <1>8 DEF Change, TwoFileWrites
<1>9. CASE Lock
  BY <1>2, <1>9 DEF Lock, ForgetKeyAndData, memory, TwoFileWrites
<1>10. CASE InitializeSavesData \/ ChangePasswordSavesData
  <2>1. /\ pc \in DataWrites /\ pc \in TwoFileWrites /\ SaveData
        /\ metaFile' = metaFile /\ crypto' = crypto
    BY <1>10 DEF InitializeSavesData, ChangePasswordSavesData, DataWrites,
                 TwoFileWrites
  <2>2. metaFile = MetaFor(crypto)
    BY <1>10 DEF InitializeSavesData, ChangePasswordSavesData, IndInv,
                 MetaMatchesKey, TwoFileWrites
  <2>3. DiskKey' = crypto
    BY <2>1, <2>2, MetaForKey DEF DiskKey
  <2>4. OpensWith(data, crypto)
    BY <2>1, SaveDataLoads DEF MemoryOpens, IndInv
  <2>. QED  BY <1>3, <2>1, <2>3, <2>4
<1>11. CASE LockSaves \/ ChangeSaved
  <2>1. /\ pc \in DataWrites /\ pc \notin TwoFileWrites /\ SaveData
        /\ metaFile' = metaFile /\ crypto' \in {crypto, Nil}
    BY <1>11 DEF LockSaves, ChangeSaved, ForgetKeyAndData, DataWrites,
                 TwoFileWrites
  <2>2. ~IsLocked
    BY <2>1, SaveDataLoads DEF IndInv
  <2>3. CASE MetaReadable /\ ~cut'
    <3>1. cut => DiskKey = crypto /\ OpensWith(data, crypto)
      BY <1>11, <2>3 DEF LockSaves, ChangeSaved, HealedByDataWrite, IndInv,
                         TypeOK
    <3>2. ~cut => DiskKey = crypto /\ OpensWith(data, crypto)
      BY <2>1, <2>2, <2>3 DEF MemoryOpens, DiskOpens
    <3>3. DiskKey' = DiskKey
      BY <2>1 DEF DiskKey
    <3>. QED  BY <1>3, <2>1, <3>1, <3>2, <3>3
  <2>4. CASE ~MetaReadable \/ cut'
    BY <2>1, <2>4 DEF DiskOpens, MetaReadable
  <2>. QED  BY <2>3, <2>4
<1>12. ASSUME InterruptedWrite, crypto' \in {crypto, Nil}, pc # "idle",
              ~cut' => ~cut /\ pc \notin TwoFileWrites
       PROVE  DiskOpens'
  <2>. SUFFICES ASSUME ~cut', MetaReadable'
                PROVE  /\ ~IsLocked' => crypto' = DiskKey'
                       /\ dataFile' # Torn => OpensWith(LoadedData, DiskKey)'
    BY DEF DiskOpens
  <2>1. /\ ~cut /\ pc \notin TwoFileWrites
        /\ ~IsLocked /\ data # Absent
    BY <1>12, StoreConstants DEF IndInv, TypeOK
  <2>2. metaFile' = metaFile
    BY <1>12, <2>1 DEF InterruptedWrite, disk, MetaWrites, TwoFileWrites
  <2>3. DiskKey' = DiskKey /\ MetaReadable
    BY <2>2 DEF DiskKey, MetaReadable
  <2>4. /\ crypto = DiskKey
        /\ dataFile # Torn => OpensWith(LoadedData, DiskKey)
        /\ OpensWith(data, DiskKey)
    BY <2>1, <2>3 DEF DiskOpens, MemoryOpens
  <2>5. dataFile' # Torn =>
          \/ LoadedData' = data
          \/ dataFile # Torn /\ LoadedData' = LoadedData
    BY <1>12, <2>1 DEF InterruptedWrite, disk, LoadedData
  <2>6. dataFile' # Torn => OpensWith(LoadedData, DiskKey)'
    BY <2>3, <2>4, <2>5 DEF OpensWith
  <2>. QED  BY <1>12, <2>3, <2>4, <2>6 DEF IsLocked
<1>13. CASE WriteFails
  BY <1>12, <1>13 DEF WriteFails, memory
<1>14. CASE Crash
  <2>1. CASE pc = "idle"
    <3>1. UNCHANGED disk /\ cut' = cut
      BY <1>14, <2>1 DEF Crash, InterruptedWrite, MetaWrites, DataWrites,
                         TwoFileWrites, IndInv, TypeOK
    <3>. QED
      BY <1>2, <1>14, <2>1, <3>1 DEF Crash, ForgetKeyAndData, TwoFileWrites
  <2>2. CASE pc # "idle"
    BY <1>12, <1>14, <2>2 DEF Crash, ForgetKeyAndData
  <2>. QED  BY <2>1, <2>2
<1>15. CASE UNCHANGED vars
  <2>1. CASE pc \in TwoFileWrites
    BY <1>1, <1>15, <2>1 DEF vars
  <2>2. CASE pc \notin TwoFileWrites
    BY <1>2, <1>15, <2>2 DEF vars, memory
  <2>. QED  BY <2>1, <2>2
<1>. QED
  BY <1>4, <1>5, <1>6, <1>7, <1>8, <1>9, <1>10, <1>11, <1>13, <1>14, <1>15
     DEF Next, Set, Delete

\* What is clean in memory is on disk, whatever the step.
LEMMA SavedIfCleanNext ==
  ASSUME IndInv, SavedIfClean, [Next]_vars
  PROVE  SavedIfClean'
<1>1. ASSUME pc' \in TwoFileWrites
      PROVE  SavedIfClean'
  BY <1>1 DEF SavedIfClean, TwoFileWrites
<1>2. ASSUME crypto' = Nil, pc' = "idle"
      PROVE  SavedIfClean'
  BY <1>2 DEF SavedIfClean, IsLocked
<1>3. ASSUME data' = LoadedData', pc' = "idle"
      PROVE  SavedIfClean'
  BY <1>3 DEF SavedIfClean
<1>4. ASSUME UNCHANGED <<dataFile, data, crypto, dirty, cut>>,
             \/ pc' = pc
             \/ pc \notin TwoFileWrites /\ dirty
      PROVE  SavedIfClean'
  <2>1. CASE pc' = pc
    BY <1>4, <2>1 DEF SavedIfClean, IsLocked, LoadedData
  <2>2. CASE pc \notin TwoFileWrites /\ dirty
    BY <1>4, <2>2 DEF SavedIfClean
  <2>. QED  BY <1>4, <2>1, <2>2
<1>5. ASSUME NEW pw \in Passwords, Initialize(pw)
      PROVE  SavedIfClean'
  BY <1>1, <1>5 DEF Initialize, TwoFileWrites, FreshSalt
<1>6. ASSUME NEW old \in Passwords, NEW new \in Passwords,
             ChangePassword(old, new)
      PROVE  SavedIfClean'
  BY <1>1, <1>6 DEF ChangePassword, TwoFileWrites, FreshSalt
<1>7. CASE InitializeSavesMeta \/ ChangePasswordSavesMeta
  BY <1>1, <1>7 DEF InitializeSavesMeta, ChangePasswordSavesMeta, TwoFileWrites
<1>8. ASSUME NEW pw \in Passwords, UnlockRefused(pw)
      PROVE  SavedIfClean'
  BY <1>4, <1>8 DEF UnlockRefused, disk
<1>9. ASSUME NEW pw \in Passwords, UnlockLoadFails(pw)
      PROVE  SavedIfClean'
  BY <1>2, <1>9 DEF UnlockLoadFails
<1>10. ASSUME NEW pw \in Passwords, UnlockOpens(pw)
       PROVE  SavedIfClean'
  BY <1>3, <1>10 DEF UnlockOpens, LoadedData, disk
<1>11. ASSUME NEW p, NEW c, NEW v, Change(p, c, v)
       PROVE  SavedIfClean'
  BY <1>11 DEF Change, SavedIfClean
<1>12. CASE InitializeSavesData \/ ChangePasswordSavesData \/ ChangeSaved
  <2>1. LoadedData' = data
    BY <1>12, SaveDataLoads DEF InitializeSavesData, ChangePasswordSavesData,
                                ChangeSaved, IndInv, DataWrites
  <2>. QED
    BY <1>3, <1>12, <2>1 DEF InitializeSavesData, ChangePasswordSavesData,
                             ChangeSaved
<1>13. CASE Lock
  <2>1. CASE ~IsLocked /\ ~dirty
    BY <1>2, <1>13, <2>1 DEF Lock, ForgetKeyAndData
  <2>2. CASE IsLocked \/ dirty
    BY <1>4, <1>13, <2>2 DEF Lock, memory, disk, TwoFileWrites
  <2>. QED  BY <2>1, <2>2
<1>14. CASE LockSaves
  BY <1>2, <1>14 DEF LockSaves, ForgetKeyAndData
<1>15. CASE WriteFails
  <2>1. CASE pc \in TwoFileWrites
    BY <1>15, <2>1 DEF WriteFails, SavedIfClean
  <2>2. CASE pc \notin TwoFileWrites
    <3>1. dirty
      BY <1>15, <2>2 DEF WriteFails, SavedIfClean, IndInv, TypeOK,
                         TwoFileWrites, MetaWrites, DataWrites
    <3>2. dirty' = dirty /\ pc' = "idle"
      BY <1>15 DEF WriteFails, memory
    <3>. QED  BY <3>1, <3>2 DEF SavedIfClean
  <2>. QED  BY <2>1, <2>2
<1>16. CASE Crash
  BY <1>2, <1>16 DEF Crash, ForgetKeyAndData
<1>17. CASE UNCHANGED vars
  BY <1>4, <1>17 DEF vars, disk, memory
<1>. QED
  BY <1>5, <1>6, <1>7, <1>8, <1>9, <1>10, <1>11, <1>12, <1>13, <1>14, <1>15,
     <1>16, <1>17 DEF Next, Set, Delete

\* SavedInv holds in every reachable state.
THEOREM SavedInductive == Spec => []SavedInv
<1>1. Init => SavedInv
  <2>. SUFFICES ASSUME Init
                PROVE  SavedInv
    OBVIOUS
  <2>1. MissingRight
    BY DEF Init, MissingRight, NilRight, Expected, NoSecrets, IsLocked
  <2>2. MemoryOpens /\ DiskOpens /\ SavedIfClean
    BY DEF Init, MemoryOpens, DiskOpens, SavedIfClean, IsLocked, MetaReadable
  <2>. QED  BY <2>1, <2>2 DEF SavedInv
<1>2. IndInv /\ SavedInv /\ [Next]_vars => SavedInv'
  BY MissingNext, MemoryOpensNext, DiskOpensNext, SavedIfCleanNext DEF SavedInv
<1>. QED  BY <1>1, <1>2, Inductive, PTL DEF Spec

-----------------------------------------------------------------------------
(* Safety *)

\* Every value that Get returns, or would return after unlocking what is on
\* disk, is the one last acknowledged at its path or one written since.
THEOREM ReadsCorrect == Spec => []ReadsAreRight
<1>1. IndInv => ReadsAreRight
  <2>. SUFFICES ASSUME IndInv, NEW p \in Paths
                PROVE  /\ Get(p) \in Values => Get(p) \in Expected(p)
                       /\ MetaReadable /\ dataFile # Torn =>
                            LET read == Reading(LoadedData, DiskKey, p)
                            IN  read \in Values => read \in Expected(p)
    BY DEF ReadsAreRight
  <2>1. ASSUME NEW d, NEW key, Reading(d, key, p) \in Values
        PROVE  /\ d[p] # Nil /\ d[p].key = key
               /\ Reading(d, key, p) = d[p].text
    BY <2>1, CryptoConstants, StoreConstants DEF Reading, Decryptable, Decrypt
  <2>2. Get(p) \in Values => Get(p) \in Expected(p)
    <3>1. CASE IsLocked
      BY <3>1, StoreConstants DEF Get
    <3>2. CASE ~IsLocked
      BY <2>1, <3>2 DEF Get, IndInv, EntriesRight, RightWhereLive, LiveSalts
    <3>. QED  BY <3>1, <3>2
  <2>3. ASSUME MetaReadable, dataFile # Torn,
               Reading(LoadedData, DiskKey, p) \in Values
        PROVE  Reading(LoadedData, DiskKey, p) \in Expected(p)
    <3>1. DiskKey.salt \in LiveSalts
      BY <2>3, MetaForKey DEF IndInv, MetaMatchesKey, LiveSalts
    <3>2. dataFile \notin {Absent, Torn} /\ LoadedData = dataFile
      BY <2>1, <2>3 DEF LoadedData, NoSecrets
    <3>. QED
      BY <2>1, <2>3, <3>1, <3>2 DEF IndInv, EntriesRight, RightWhereLive
  <2>. QED  BY <2>2, <2>3
<1>. QED  BY <1>1, Inductive, PTL

\* A readable metadata file opens with the password last acknowledged, or
\* with one whose change did not finish, and with nothing else.
THEOREM PasswordCorrect == Spec => []PasswordRight
<1>1. IndInv => PasswordRight
  <2>. SUFFICES ASSUME IndInv, MetaReadable
                PROVE  PasswordRight
    BY DEF PasswordRight
  <2>1. metaFile = MetaFor(DiskKey) /\ DiskKey \in Keys
    BY DEF IndInv, MetaMatchesKey, TypeOK, MetaReadable, DiskKey, Metas, Blobs
  <2>2. \A pw \in Passwords :
          VerifyPassword(metaFile.salt, pw, metaFile.verification)
            <=> pw = DiskKey.password
    BY <2>1 DEF VerifyPassword, Decryptable, Decrypt, DeriveKey, MetaFor,
                CreateVerificationBlob, Encrypt, Keys
  <2>3. DiskKey.password \in Passwords
    BY <2>1 DEF Keys
  <2>. QED  BY <2>2, <2>3 DEF PasswordRight, IndInv, PasswordKnown
<1>. QED  BY <1>1, Inductive, PTL

\* No acknowledged write is lost: unless an update of both files was cut
\* short or is under way, every path reads as expected, in memory and on
\* disk.
THEOREM NothingLostCorrect == Spec => []NothingLost
<1>1. IndInv /\ SavedInv => NothingLost
  <2>. SUFFICES ASSUME IndInv, SavedInv, ~cut, pc \notin TwoFileWrites,
                       NEW p \in Paths
                PROVE  /\ ~IsLocked => Get(p) \in Expected(p)
                       /\ MetaReadable /\ dataFile # Torn =>
                            Reading(LoadedData, DiskKey, p) \in Expected(p)
    BY DEF NothingLost
  <2>1. ASSUME NEW d, NEW key, NilRight(d), OpensWith(d, key),
               d[p] # Nil => d[p].text \in Expected(p)
        PROVE  Reading(d, key, p) \in Expected(p)
    <3>1. CASE d[p] = Nil
      BY <2>1, <3>1 DEF Reading, NilRight
    <3>2. CASE d[p] # Nil
      BY <2>1, <3>2 DEF Reading, OpensWith, Decrypt
    <3>. QED  BY <3>1, <3>2
  <2>2. ASSUME NEW d, NEW key, OpensWith(d, key), key.salt \in LiveSalts,
               RightWhereLive(d), d[p] # Nil
        PROVE  d[p].text \in Expected(p)
    BY <2>2 DEF OpensWith, Decryptable, RightWhereLive
  <2>3. ASSUME ~IsLocked
        PROVE  Get(p) \in Expected(p)
    <3>1. crypto.salt \in LiveSalts /\ OpensWith(data, crypto)
      BY <2>3 DEF LiveSalts, SavedInv, MemoryOpens
    <3>. QED
      BY <2>1, <2>2, <2>3, <3>1
         DEF Get, SavedInv, MissingRight, IndInv, EntriesRight
  <2>4. ASSUME MetaReadable, dataFile # Torn
        PROVE  Reading(LoadedData, DiskKey, p) \in Expected(p)
    <3>1. DiskKey.salt \in LiveSalts /\ OpensWith(LoadedData, DiskKey)
      BY <2>4, MetaForKey DEF IndInv, MetaMatchesKey, LiveSalts, SavedInv,
                              DiskOpens
    <3>2. LoadedData[p] # Nil => RightWhereLive(LoadedData)
      BY <2>4 DEF LoadedData, NoSecrets, IndInv, EntriesRight
    <3>. QED
      BY <2>1, <2>2, <2>4, <3>1, <3>2 DEF SavedInv, MissingRight
  <2>. QED  BY <2>3, <2>4
<1>. QED  BY <1>1, Inductive, SavedInductive, PTL

\* Outside a cut update of both files, a clean store is a saved one, so a
\* Lock that skips its save drops nothing.
THEOREM CleanCorrect == Spec => []CleanMeansSaved
<1>1. SavedInv => CleanMeansSaved
  BY DEF SavedInv, SavedIfClean, CleanMeansSaved, TwoFileWrites
<1>. QED  BY <1>1, SavedInductive, PTL

-----------------------------------------------------------------------------
(* Calls into the store implement VaultCalls *)

\* What is left of the store as it was when the running call began: between
\* two writes its flags say what has already been changed.
SeenType == seen \in [exists : BOOLEAN, unlocked : BOOLEAN, dirty : BOOLEAN]

CallInv ==
  /\ SeenType
  /\ pc \in {"idle", "lockData"} => seen = Status
  /\ pc = "lockData" => dirty
  /\ pc \in {"initMeta", "initData"} => ~seen.exists /\ seen.dirty = dirty
  /\ pc = "setData" => seen.exists = VaultExists /\ seen.unlocked /\ dirty
  /\ pc = "passwdMeta" => seen.exists = VaultExists
  /\ pc \in {"initData", "passwdData"} => VaultExists
  /\ pc \in {"passwdMeta", "passwdData"} => seen.unlocked /\ seen.dirty = dirty

\* The history variables watch and do not interfere, so all that is proved
\* of Spec holds of CallSpec.
LEMMA CallsWatch == CallSpec => Spec
<1>1. CallInit => Init
  BY DEF CallInit
<1>2. [CallNext]_<<vars, seen, answer>> => [Next]_vars
  BY DEF CallNext, Next
<1>. QED  BY <1>1, <1>2, PTL DEF CallSpec, Spec

\* A save writes metadata or a map, and an interrupted one may leave a torn
\* file, but none removes a file.
LEMMA WritesKeepVault ==
  ASSUME TypeOK, pc # "idle"
  PROVE  /\ SaveMeta => VaultExists'
         /\ InterruptedWrite => /\ VaultExists => VaultExists'
                                /\ pc \in DataWrites => VaultExists' = VaultExists
<1>1. meta \in Metas
  BY DEF TypeOK
<1>2. meta # Absent /\ Torn # Absent
  BY <1>1, StoreConstants
<1>3. SaveMeta => VaultExists'
  BY <1>2 DEF SaveMeta, VaultExists
<1>4. ASSUME InterruptedWrite
      PROVE  /\ VaultExists => VaultExists'
             /\ pc \in DataWrites => VaultExists' = VaultExists
  BY <1>2, <1>4 DEF InterruptedWrite, VaultExists, disk, MetaWrites, DataWrites
<1>. QED  BY <1>3, <1>4

\* Whatever a step of the store does is, seen from outside the calls, what
\* VaultCalls ties to the call's answer, or nothing.
LEMMA CallStep ==
  ASSUME TypeOK, TypeOK', CallInv, [CallNext]_<<vars, seen, answer>>
  PROVE  CallInv' /\ [Calls!AnswerNext]_<<Calls!vars, answer>>
<1>. USE DEF Status, SeenType
<1>. DEFINE Abstract == CallInv' /\ [Calls!AnswerNext]_<<Calls!vars, answer>>
<1>1. CASE UNCHANGED <<vars, seen, answer>>
  BY <1>1 DEF vars, disk, memory, CallInv, VaultExists, IsLocked, Calls!vars
<1>. SUFFICES ASSUME CallNext
              PROVE  Abstract
  BY <1>1
<1>2. Status' \in [exists : BOOLEAN, unlocked : BOOLEAN, dirty : BOOLEAN]
  BY DEF TypeOK, VaultExists
<1>3. ASSUME Continues
      PROVE  Calls!Begins /\ seen' = seen
  BY <1>3 DEF Continues, NoAnswer, Calls!Begins, Calls!NoAnswer, Calls!vars
<1>4. ASSUME NEW pw \in Passwords, Initialize(pw), Continues
      PROVE  Abstract
  BY <1>3, <1>4 DEF Initialize, CallInv, VaultExists, IsLocked, disk,
     Calls!AnswerNext
<1>5. ASSUME NEW pw \in Passwords, UnlockRefused(pw),
             Returns("unlock", FALSE)
      PROVE  Abstract
  <2>1. /\ seen' = seen /\ seen' = Status' /\ pc = "idle" /\ pc' = "idle"
        /\ seen.exists = VaultExists /\ VaultExists
    BY <1>5 DEF UnlockRefused, Returns, CallInv, VaultExists, MetaReadable,
       IsLocked, disk
  <2>2. CallInv'
    BY <1>2, <2>1 DEF CallInv
  <2>3. Calls!UnlockFails
    BY <2>1 DEF Calls!UnlockFails
  <2>. QED
    BY <1>5, <2>2, <2>3 DEF Returns, Calls!Answers, Calls!AnswerNext
<1>6. ASSUME NEW pw \in Passwords, UnlockLoadFails(pw),
             Returns("unlock", FALSE)
      PROVE  Abstract
  <2>1. seen' = Status' /\ IsLocked' /\ seen'.unlocked = FALSE
    BY <1>6 DEF UnlockLoadFails, Returns, IsLocked
  <2>2. /\ seen = Status /\ pc = "idle" /\ pc' = "idle"
        /\ metaFile' = metaFile /\ metaFile # Absent /\ dirty' = dirty
    BY <1>6 DEF UnlockLoadFails, CallInv, disk, MetaReadable
  <2>3. CallInv'
    BY <1>2, <2>1, <2>2 DEF CallInv
  <2>4. Calls!UnlockFails
    BY <2>1, <2>2 DEF Calls!UnlockFails, VaultExists
  <2>. QED
    BY <1>6, <2>3, <2>4 DEF Returns, Calls!Answers, Calls!AnswerNext
<1>7. ASSUME NEW pw \in Passwords, UnlockOpens(pw), Returns("unlock", TRUE)
      PROVE  Abstract
  <2>1. ~IsLocked'
    BY <1>7, DeriveKeyType, NotNil
       DEF UnlockOpens, TypeOK, MetaReadable, Metas, IsLocked
  <2>2. /\ seen = Status /\ seen' = Status' /\ pc = "idle" /\ pc' = "idle"
        /\ metaFile' = metaFile /\ metaFile # Absent /\ dirty' = dirty
    BY <1>7 DEF UnlockOpens, Returns, CallInv, disk, MetaReadable
  <2>3. CallInv'
    BY <1>2, <2>2 DEF CallInv
  <2>4. Calls!UnlockSucceeds
    BY <2>1, <2>2 DEF Calls!UnlockSucceeds, VaultExists
  <2>. QED
    BY <1>7, <2>3, <2>4 DEF Returns, Calls!Answers, Calls!AnswerNext
<1>8. ASSUME NEW old \in Passwords, NEW new \in Passwords,
             ChangePassword(old, new), Continues
      PROVE  Abstract
  BY <1>3, <1>8 DEF ChangePassword, CallInv, VaultExists, IsLocked, disk,
     Calls!AnswerNext
<1>9. ASSUME NEW p, NEW c, NEW v, Change(p, c, v), Continues
      PROVE  Abstract
  BY <1>3, <1>9 DEF Change, CallInv, VaultExists, IsLocked, disk,
     Calls!AnswerNext
<1>10. CASE InitializeSavesMeta /\ Continues
  BY <1>3, <1>10, WritesKeepVault DEF InitializeSavesMeta, CallInv, memory,
     Calls!AnswerNext
<1>11. CASE InitializeSavesData /\ Returns("init", TRUE)
  <2>1. metaFile # Absent /\ ~seen.exists
    BY <1>11 DEF InitializeSavesData, CallInv, VaultExists
  <2>2. /\ seen' = Status' /\ pc' = "idle"
        /\ seen'.unlocked /\ ~seen'.dirty /\ seen'.exists
    BY <1>11, <2>1 DEF InitializeSavesData, SaveData, Returns, TypeOK,
       IsLocked, VaultExists
  <2>3. CallInv'
    BY <1>2, <2>2 DEF CallInv
  <2>4. Calls!CreateSucceeds
    BY <1>2, <2>1, <2>2 DEF Calls!CreateSucceeds
  <2>. QED
    BY <1>11, <2>3, <2>4 DEF Returns, Calls!Answers, Calls!AnswerNext
<1>12. CASE Lock /\ IF pc' = "idle" THEN Returns("lock", TRUE) ELSE Continues
  <2>0. seen = Status /\ pc = "idle"
    BY <1>12 DEF Lock, CallInv
  <2>1. CASE pc' = "idle"
    <3>1. seen' = Status' /\ Returns("lock", TRUE)
      BY <1>12, <2>1 DEF Returns
    <3>2. /\ IsLocked' /\ VaultExists' = VaultExists
          /\ dirty' = (dirty /\ IsLocked)
      BY <1>12, <2>0, <2>1
         DEF Lock, ForgetKeyAndData, IsLocked, VaultExists, disk, memory, TypeOK
    <3>3. CallInv'
      BY <1>2, <2>1, <3>1 DEF CallInv
    <3>4. Calls!LockSucceeds
      BY <2>0, <3>1, <3>2 DEF Calls!LockSucceeds, IsLocked
    <3>. QED
      BY <3>1, <3>3, <3>4 DEF Returns, Calls!Answers, Calls!AnswerNext
  <2>2. CASE pc' # "idle"
    <3>1. Calls!Begins /\ seen' = seen
      BY <1>3, <1>12, <2>2
    <3>2. CallInv'
      BY <1>12, <2>0, <2>2, <3>1
         DEF Lock, CallInv, VaultExists, IsLocked, disk, memory
    <3>. QED  BY <3>1, <3>2 DEF Calls!AnswerNext
  <2>. QED  BY <2>1, <2>2
<1>13. CASE LockSaves /\ Returns("lock", TRUE)
  <2>1. /\ seen = Status /\ seen' = Status' /\ pc' = "idle"
        /\ IsLocked' /\ ~dirty' /\ VaultExists' = VaultExists /\ ~IsLocked
    BY <1>13 DEF LockSaves, ForgetKeyAndData, Returns, CallInv, TypeOK,
       VaultExists, IsLocked
  <2>2. CallInv'
    BY <1>2, <2>1 DEF CallInv
  <2>3. Calls!LockSucceeds
    BY <2>1, <1>2 DEF Calls!LockSucceeds
  <2>. QED
    BY <1>13, <2>2, <2>3 DEF Returns, Calls!Answers, Calls!AnswerNext
<1>14. CASE ChangeSaved /\ Returns("change", TRUE)
  <2>1. /\ seen' = Status' /\ pc' = "idle"
        /\ seen.exists = VaultExists /\ seen.unlocked
        /\ ~IsLocked' /\ ~dirty' /\ VaultExists' = VaultExists
    BY <1>14 DEF ChangeSaved, SaveData, Returns, CallInv, TypeOK,
       VaultExists, IsLocked
  <2>2. CallInv'
    BY <1>2, <2>1 DEF CallInv
  <2>3. Calls!ChangeSucceeds
    BY <2>1, <1>2 DEF Calls!ChangeSucceeds
  <2>. QED
    BY <1>14, <2>2, <2>3 DEF Returns, Calls!Answers, Calls!AnswerNext
<1>15. CASE ChangePasswordSavesMeta /\ Continues
  BY <1>3, <1>15, WritesKeepVault DEF ChangePasswordSavesMeta, CallInv,
     memory, Calls!AnswerNext
<1>16. CASE ChangePasswordSavesData /\ Returns("passwd", TRUE)
  <2>1. /\ seen' = Status' /\ pc' = "idle" /\ seen.unlocked
        /\ ~IsLocked' /\ ~dirty' /\ VaultExists'
    BY <1>16 DEF ChangePasswordSavesData, SaveData, Returns, CallInv, TypeOK,
       VaultExists, IsLocked
  <2>2. CallInv'
    BY <1>2, <2>1 DEF CallInv
  <2>3. Calls!PasswordSucceeds
    BY <2>1, <1>2 DEF Calls!PasswordSucceeds
  <2>. QED
    BY <1>16, <2>2, <2>3 DEF Returns, Calls!Answers, Calls!AnswerNext
<1>17. CASE WriteFails /\ Returns(CallOf(pc), FALSE)
  <2>1. /\ seen' = Status' /\ pc' = "idle" /\ pc # "idle"
        /\ IsLocked' = IsLocked /\ dirty' = dirty /\ ~IsLocked
        /\ answer' = [call |-> CallOf(pc), ok |-> FALSE]
    BY <1>17 DEF WriteFails, Returns, memory, IsLocked, TypeOK
  <2>2. CallInv'
    BY <1>2, <2>1 DEF CallInv
  <2>3. /\ VaultExists => VaultExists'
        /\ pc \in DataWrites => VaultExists' = VaultExists
    BY <1>17, WritesKeepVault DEF WriteFails
  <2>4. CASE pc \in {"initMeta", "initData"}
    <3>1. Calls!CreateFails
      BY <1>2, <2>1, <2>4 DEF CallInv, Calls!CreateFails
    <3>. QED
      BY <2>1, <2>2, <2>4, <3>1 DEF CallOf, Calls!Answers, Calls!AnswerNext
  <2>5. CASE pc \in {"passwdMeta", "passwdData"}
    <3>1. VaultExists' \in {seen.exists, TRUE}
      BY <2>3, <2>5 DEF CallInv, VaultExists
    <3>2. Calls!PasswordFails
      BY <2>1, <2>5, <3>1 DEF CallInv, Calls!PasswordFails
    <3>. QED
      BY <2>1, <2>2, <2>5, <3>2 DEF CallOf, Calls!Answers, Calls!AnswerNext
  <2>6. CASE pc = "setData"
    <3>1. Calls!ChangeFails
      BY <2>1, <2>3, <2>6 DEF CallInv, DataWrites, TypeOK, Calls!ChangeFails
    <3>. QED
      BY <2>1, <2>2, <2>6, <3>1 DEF CallOf, Calls!Answers, Calls!AnswerNext
  <2>7. CASE pc = "lockData"
    <3>0. seen = Status /\ dirty /\ VaultExists' = VaultExists
      BY <2>3, <2>7 DEF CallInv, DataWrites
    <3>1. Calls!LockFails
      BY <2>1, <3>0 DEF Calls!LockFails, Calls!vars
    <3>. QED
      BY <2>1, <2>2, <2>7, <3>1 DEF CallOf, Calls!Answers, Calls!AnswerNext
  <2>. QED
    BY <2>1, <2>4, <2>5, <2>6, <2>7 DEF TypeOK, MetaWrites, DataWrites
<1>18. CASE Crash /\ Dies
  <2>1. /\ pc' = "idle" /\ seen' = Status'
        /\ seen'.unlocked = FALSE /\ seen'.dirty = FALSE
        /\ seen'.exists = VaultExists'
    BY <1>18 DEF Crash, ForgetKeyAndData, Dies, IsLocked
  <2>2. InterruptedWrite
    BY <1>18 DEF Crash
  <2>3. VaultExists' \in {seen.exists, TRUE}
    <3>1. CASE pc = "idle"
      <4>1. metaFile' = metaFile
        BY <2>2, <3>1 DEF InterruptedWrite, MetaWrites, DataWrites, disk
      <4>2. seen.exists = VaultExists
        BY <3>1 DEF CallInv
      <4>. QED  BY <4>1, <4>2 DEF VaultExists
    <3>2. CASE pc \in MetaWrites
      BY <2>2, <3>2, WritesKeepVault DEF MetaWrites, CallInv, VaultExists
    <3>3. CASE pc \in DataWrites
      <4>1. VaultExists' = VaultExists
        BY <2>2, <3>3, WritesKeepVault DEF DataWrites
      <4>2. VaultExists \/ seen.exists = VaultExists
        BY <3>3 DEF DataWrites, CallInv
      <4>. QED  BY <4>1, <4>2 DEF VaultExists
    <3>4. pc \in {"idle"} \cup MetaWrites \cup DataWrites
      BY DEF TypeOK
    <3>. QED  BY <3>1, <3>2, <3>3, <3>4
  <2>4. CallInv'
    BY <1>2, <2>1 DEF CallInv
  <2>5. Calls!Dies
    BY <1>18, <2>1, <2>3
       DEF Dies, NoAnswer, Calls!Dies, Calls!Restart, Calls!NoAnswer
  <2>. QED  BY <2>4, <2>5 DEF Calls!AnswerNext
<1>. QED
  BY <1>4, <1>5, <1>6, <1>7, <1>8, <1>9, <1>10, <1>11, <1>12, <1>13, <1>14,
     <1>15, <1>16, <1>17, <1>18 DEF CallNext, Set, Delete

\* Every call into the store leaves it as VaultCalls says a call with that
\* answer does, whether its writes succeed, fail half way or are cut by the
\* death of the process.
THEOREM CallsKeepPromise == CallSpec => CallsAsPromised
<1>1. ASSUME CallInit
      PROVE  CallInv /\ Calls!AnswerInit
  <2>1. seen = [exists |-> FALSE, unlocked |-> FALSE, dirty |-> FALSE]
    BY <1>1 DEF CallInit, Init, Status, VaultExists, IsLocked
  <2>2. seen = Status /\ pc = "idle" /\ answer = NoAnswer
    BY <1>1 DEF CallInit, Init
  <2>. QED
    BY <2>1, <2>2 DEF CallInv, SeenType, NoAnswer, Calls!Init,
       Calls!AnswerInit, Calls!NoAnswer
<1>2. CallSpec => []TypeOK
  BY CallsWatch, TypeCorrect, PTL
<1>. QED
  BY <1>1, <1>2, CallStep, PTL DEF CallSpec, CallsAsPromised, Calls!AnswerSpec
=============================================================================
