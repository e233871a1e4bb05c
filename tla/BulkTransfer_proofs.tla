------------------------- MODULE BulkTransfer_proofs -------------------------
(***************************************************************************)
(* Theorems about BulkTransfer for any requests, paths and secrets, imports*)
(* of any length and any number of failing saves.                          *)
(*                                                                         *)
(* The mutex keeps everybody but Shutdown from the vault that a handler    *)
(* works on, and Shutdown can only lock it.  So what a reader finds is     *)
(* what it started with or a locked vault (Undisturbed), and a writer      *)
(* knows of the vault in memory what it has made of it itself (Merging,    *)
(* Saving); the vault file follows, because what is not dirty is saved,    *)
(* and after a failed save the vault stays unlocked until one succeeds.    *)
(***************************************************************************)
EXTENDS BulkTransfer, SequenceTheorems, TLAPS

Outcomes == {"imported", "skipped", "error"}

\* Who holds the mutex, and what is left of the calls of those who do not.
Discipline ==
  /\ \A r \in Requests :
       /\ call[r].pc \in {"listing", "reading"} <=> r \in readers
       /\ Importing(r) <=> writer = r
       /\ call[r].pc = "idle" => call[r] = Idle
  /\ writer # None => readers = {}

\* A vault that is not dirty is what the file holds.
CleanIsSaved == unlocked /\ ~dirty => disk = data

\* An export works on the vault it started with, or on a locked one.
Undisturbed(r) ==
  /\ unlocked => data = call[r].start
  /\ ~unlocked => call[r].cutOff

Exported(r) ==
  /\ call[r].pc = "listing" => call[r].got = NoSecrets
  /\ call[r].pc \in {"reading", "exported"} =>
       \A p \in Paths :
         /\ call[r].got[p] \in {None, call[r].start[p]}
         /\ ~call[r].cutOff =>
              \/ call[r].got[p] = call[r].start[p]
              \/ call[r].pc = "reading" /\ p \in call[r].todo

Exporting ==
  /\ \A r \in readers : Undisturbed(r)
  /\ \A r \in Requests : Exported(r)

\* How far an import is.
Position ==
  \A r \in Requests : Importing(r) =>
    /\ call[r].entries \in Imports
    /\ Len(call[r].outcome) <= Len(call[r].entries)
    /\ call[r].pc = "storing" => Left(r)

\* What a merge has found to be absent is absent when it is stored.
Merging ==
  \A r \in Requests : Importing(r) /\ call[r].merge =>
    /\ \A p \in Paths : call[r].start[p] # None => Vault[p] = call[r].start[p]
    /\ call[r].pc = "storing" /\ unlocked => data[Next1(r).path] = None

\* What counts as imported is in the vault, and nothing but a later entry
\* that fails leaves anything to be saved.
Saving ==
  \A r \in Requests, p \in Paths : Importing(r) =>
    \A i \in LastFor(r, p) : call[r].outcome[i] = "imported" =>
      /\ Vault[p] = call[r].entries[i].secret
      /\ NoErrorSince(r, i) => (unlocked => ~dirty)

Inv == /\ TypeOK /\ Discipline /\ CleanIsSaved
       /\ Exporting /\ Position /\ Merging /\ Saving
-----------------------------------------------------------------------------
(* Sequences of entries and outcomes *)

\* An import is a sequence of entries, and not an empty one.
LEMMA ImportIsSequence ==
  ASSUME NEW e \in Imports
  PROVE  /\ e \in Seq(Entries)
         /\ Len(e) \in Nat \ {0}
         /\ \A i \in 1 .. Len(e) : e[i].path \in Paths /\ e[i].secret \in Secrets
<1>1. PICK n \in 1 .. MaxEntries : e \in [1 .. n -> Entries]
  BY DEF Imports
<1>2. n \in Nat
  BY <1>1, BulkConstants
<1>3. e \in Seq(Entries) /\ Len(e) = n
  BY <1>1, <1>2
<1>. QED  BY <1>1, <1>2, <1>3, BulkConstants DEF Entries

\* One more outcome.
LEMMA OneMoreOutcome ==
  ASSUME NEW s \in Seq(Outcomes), NEW o \in Outcomes
  PROVE  /\ Append(s, o) \in Seq(Outcomes)
         /\ Len(s) \in Nat
         /\ Len(Append(s, o)) = Len(s) + 1
         /\ DOMAIN s = 1 .. Len(s)
         /\ DOMAIN Append(s, o) = 1 .. Len(s) + 1
         /\ \A i \in 1 .. Len(s) : Append(s, o)[i] = s[i]
         /\ Append(s, o)[Len(s) + 1] = o
BY AppendProperties, LenProperties

\* The entry an import is at.
LEMMA CurrentEntry ==
  ASSUME TypeOK, Position, NEW r \in Requests, Importing(r), Left(r)
  PROVE  /\ Len(call[r].outcome) + 1 \in 1 .. Len(call[r].entries)
         /\ Next1(r).path \in Paths /\ Next1(r).secret \in Secrets
<1>1. call[r].outcome \in Seq(Outcomes) /\ call[r].entries \in Imports
  BY DEF TypeOK, Calls, Position, Outcomes
<1>2. Len(call[r].outcome) + 1 \in 1 .. Len(call[r].entries)
  BY <1>1, ImportIsSequence, LenProperties DEF Left
<1>. QED  BY <1>1, <1>2, ImportIsSequence DEF Next1

-----------------------------------------------------------------------------
(* Type correctness *)

LEMMA NoSecretsType == NoSecrets \in Maps /\ Idle \in Calls
BY DEF NoSecrets, Maps, Idle, Calls

\* Saving and locking keep the types of the store.
LEMMA StoreLockType ==
  ASSUME TypeOK, StoreLock
  PROVE  /\ data' \in Maps /\ disk' \in Maps \cup {Torn}
         /\ unlocked' \in BOOLEAN
         /\ dirty' \in BOOLEAN /\ faults' \in 0 .. MaxFaults
<1>1. faults' \in 0 .. MaxFaults
  BY BulkConstants DEF TypeOK, StoreLock, SaveFails
<1>. QED  BY <1>1, NoSecretsType DEF TypeOK, StoreLock, SaveFails

LEMMA SaveType ==
  ASSUME TypeOK, data' \in Maps, SaveWorks \/ SaveFails
  PROVE  /\ disk' \in Maps \cup {Torn}
         /\ dirty' \in BOOLEAN /\ faults' \in 0 .. MaxFaults
<1>1. faults' \in 0 .. MaxFaults
  BY BulkConstants DEF TypeOK, SaveWorks, SaveFails
<1>. QED  BY <1>1 DEF TypeOK, SaveWorks, SaveFails

\* Shutdown tells the running calls and leaves them alone.
LEMMA ShutdownCalls ==
  ASSUME TypeOK, ShutdownLocks
  PROVE  /\ call' \in [Requests -> Calls]
         /\ \A r \in Requests :
              /\ call'[r].pc = call[r].pc /\ call'[r].entries = call[r].entries
              /\ call'[r].merge = call[r].merge /\ call'[r].todo = call[r].todo
              /\ call'[r].got = call[r].got /\ call'[r].start = call[r].start
              /\ call'[r].outcome = call[r].outcome
              /\ call[r].cutOff => call'[r].cutOff
              /\ r \in readers /\ ~unlocked' => call'[r].cutOff
              /\ r \notin readers \cup {writer} => call'[r] = call[r]
<1>. DEFINE new(r) == [call[r] EXCEPT
                         !.cutOff = @ \/ (r \in readers \cup {writer} /\ ~unlocked')]
<1>1. call' = [r \in Requests |-> new(r)]
  BY DEF ShutdownLocks
<1>2. ASSUME NEW r \in Requests
      PROVE  /\ new(r) \in Calls
             /\ new(r).pc = call[r].pc /\ new(r).entries = call[r].entries
             /\ new(r).merge = call[r].merge /\ new(r).todo = call[r].todo
             /\ new(r).got = call[r].got /\ new(r).start = call[r].start
             /\ new(r).outcome = call[r].outcome
             /\ call[r].cutOff => new(r).cutOff
             /\ r \in readers /\ ~unlocked' => new(r).cutOff
             /\ r \notin readers \cup {writer} => new(r) = call[r]
  BY DEF TypeOK, Calls
<1>. QED  BY <1>1, <1>2

LEMMA TypeInit == Init => TypeOK
<1>1. 0 \in 0 .. MaxFaults
  BY BulkConstants
<1>. QED  BY <1>1, NoSecretsType DEF Init, TypeOK

LEMMA TypeNext == TypeOK /\ Position /\ [Next]_vars => TypeOK'
<1>. SUFFICES ASSUME TypeOK, Position, [Next]_vars
              PROVE  TypeOK'
  OBVIOUS
<1>0. ASSUME NEW r \in Requests
      PROVE  call[r] \in Calls
  BY DEF TypeOK
<1>1. CASE UNCHANGED vars
  BY <1>1 DEF vars, store, mu, TypeOK
<1>2. ASSUME NEW r \in Requests, ExportBegins(r)
      PROVE  TypeOK'
  <2>. DEFINE new == [call[r] EXCEPT !.pc = "listing", !.start = data]
  <2>1. new \in Calls
    BY <1>0 DEF TypeOK, Calls
  <2>2. call' = [call EXCEPT ![r] = new]
    BY <1>2 DEF ExportBegins, TypeOK
  <2>3. call' \in [Requests -> Calls]
    BY <2>1, <2>2 DEF TypeOK
  <2>. QED  BY <1>2, <2>3 DEF ExportBegins, store, TypeOK
<1>3. ASSUME NEW r \in Requests, ExportLists(r)
      PROVE  TypeOK'
  <2>. DEFINE new == [call[r] EXCEPT !.pc = "reading",
                                     !.todo = {p \in Paths : Present(p)}]
  <2>1. new \in Calls
    BY <1>0 DEF Calls
  <2>2. call' = [call EXCEPT ![r] = new] \/ call' = [call EXCEPT ![r] = Idle]
    BY <1>3 DEF ExportLists, TypeOK
  <2>3. call' \in [Requests -> Calls]
    BY <2>1, <2>2, NoSecretsType DEF TypeOK
  <2>. QED  BY <1>3, <2>3 DEF ExportLists, store, TypeOK
<1>4. ASSUME NEW r \in Requests, ExportReads(r)
      PROVE  TypeOK'
  <2>1. PICK p \in call[r].todo :
          call' = [call EXCEPT
                     ![r].todo = @ \ {p},
                     ![r].got = IF Present(p) THEN [@ EXCEPT ![p] = data[p]]
                                              ELSE @]
    BY <1>4 DEF ExportReads
  <2>2. p \in Paths /\ data[p] \in Secrets \cup {None}
    BY <1>0, <2>1 DEF TypeOK, Calls, Maps
  <2>. DEFINE got == IF Present(p) THEN [call[r].got EXCEPT ![p] = data[p]]
                                   ELSE call[r].got
              new == [call[r] EXCEPT !.todo = @ \ {p}, !.got = got]
  <2>3. got \in Maps
    BY <1>0, <2>2 DEF Calls, Maps
  <2>4. new \in Calls
    BY <1>0, <2>3 DEF Calls
  <2>5. call' = [call EXCEPT ![r] = new]
    BY <1>0, <2>1 DEF TypeOK, Calls
  <2>6. call' \in [Requests -> Calls]
    BY <2>4, <2>5 DEF TypeOK
  <2>. QED  BY <1>4, <2>6 DEF ExportReads, store, mu, TypeOK
<1>5. ASSUME NEW r \in Requests, ExportEnds(r)
      PROVE  TypeOK'
  <2>1. call' \in [Requests -> Calls]
    BY <1>0, <1>5 DEF ExportEnds, TypeOK, Calls
  <2>. QED  BY <1>5, <2>1 DEF ExportEnds, store, TypeOK
<1>6. ASSUME NEW r \in Requests, ExportReturns(r)
      PROVE  TypeOK'
  BY <1>6, NoSecretsType DEF ExportReturns, store, mu, TypeOK
<1>7. ASSUME NEW r \in Requests, NEW entries \in Imports, NEW merge \in BOOLEAN,
             ImportBegins(r, entries, merge)
      PROVE  TypeOK'
  <2>. DEFINE new == [call[r] EXCEPT !.pc = "checking", !.entries = entries,
                                     !.merge = merge, !.start = data]
  <2>1. new \in Calls
    BY <1>0 DEF TypeOK, Calls
  <2>2. call' = [call EXCEPT ![r] = new]
    BY <1>7 DEF ImportBegins, TypeOK
  <2>3. call' \in [Requests -> Calls]
    BY <2>1, <2>2 DEF TypeOK
  <2>. QED  BY <1>7, <2>3 DEF ImportBegins, store, TypeOK
<1>8. ASSUME NEW r \in Requests, NEW o \in Outcomes,
             call' = [call EXCEPT ![r].pc = "checking",
                                  ![r].outcome = Append(@, o)]
      PROVE  call' \in [Requests -> Calls]
  <2>1. Append(call[r].outcome, o) \in Seq(Outcomes)
    BY <1>0, OneMoreOutcome DEF Calls, Outcomes
  <2>2. call' = [call EXCEPT ![r].pc = "checking",
                             ![r].outcome = Append(call[r].outcome, o)]
    BY <1>0, <1>8 DEF TypeOK, Calls
  <2>. QED  BY <1>0, <2>1, <2>2 DEF TypeOK, Calls, Outcomes
<1>9. ASSUME NEW r \in Requests, ImportChecks(r)
      PROVE  TypeOK'
  <2>1. CASE Skips(r)
    <3>1. call' = [call EXCEPT ![r].pc = "checking",
                               ![r].outcome = Append(@, "skipped")]
      BY <1>0, <1>9, <2>1 DEF ImportChecks, TypeOK, Calls
    <3>2. call' \in [Requests -> Calls]
      BY <1>8, <3>1 DEF Outcomes
    <3>. QED  BY <1>9, <3>2 DEF ImportChecks, store, mu, TypeOK
  <2>2. CASE ~Skips(r)
    <3>1. call' \in [Requests -> Calls]
      BY <1>0, <1>9, <2>2 DEF ImportChecks, TypeOK, Calls
    <3>. QED  BY <1>9, <3>1 DEF ImportChecks, store, mu, TypeOK
  <2>. QED  BY <2>1, <2>2
<1>10. ASSUME NEW r \in Requests, ImportStores(r)
       PROVE  TypeOK'
  <2>1. call' \in [Requests -> Calls]
    BY <1>8, <1>10 DEF ImportStores, Stored, Outcomes
  <2>2. CASE unlocked
    <3>1. Next1(r).path \in Paths /\ Next1(r).secret \in Secrets
      BY <1>10, CurrentEntry DEF ImportStores, Position, Importing
    <3>2. data' \in Maps
      BY <1>10, <2>2, <3>1 DEF ImportStores, TypeOK, Maps
    <3>3. SaveWorks \/ SaveFails
      BY <1>10, <2>2 DEF ImportStores
    <3>. QED  BY <1>10, <2>1, <2>2, <3>2, <3>3, SaveType DEF ImportStores, mu, TypeOK
  <2>3. CASE ~unlocked
    BY <1>10, <2>1, <2>3 DEF ImportStores, store, mu, TypeOK
  <2>. QED  BY <2>2, <2>3
<1>11. ASSUME NEW r \in Requests, ImportEnds(r)
       PROVE  TypeOK'
  BY <1>11, NoSecretsType DEF ImportEnds, store, TypeOK
<1>12. ASSUME NEW p \in Paths, NEW s \in Secrets \cup {None}, Change(p, s)
       PROVE  TypeOK'
  <2>1. data' \in Maps
    BY <1>12 DEF Change, TypeOK, Maps
  <2>2. SaveWorks \/ SaveFails
    BY <1>12 DEF Change
  <2>. QED  BY <1>12, <2>1, <2>2, SaveType DEF Change, mu, TypeOK
<1>13. CASE Unlock
  BY <1>13 DEF Unlock, mu, TypeOK
<1>14. CASE Lock
  BY <1>14, StoreLockType DEF Lock, mu, TypeOK
<1>16. CASE UnlockLoadFails
  <2>1. faults' \in 0 .. MaxFaults
    BY <1>16, BulkConstants DEF UnlockLoadFails, TypeOK
  <2>. QED  BY <1>16, <2>1 DEF UnlockLoadFails, mu, TypeOK
<1>15. CASE ShutdownLocks
  BY <1>15, StoreLockType, ShutdownCalls DEF ShutdownLocks, mu, TypeOK
<1>. QED
  BY <1>1, <1>2, <1>3, <1>4, <1>5, <1>6, <1>7, <1>9, <1>10, <1>11, <1>12,
     <1>13, <1>14, <1>15, <1>16 DEF Next
-----------------------------------------------------------------------------
(* Who holds the mutex knows the vault *)

\* Nothing is claimed of imports while none runs.
LEMMA NobodyImports ==
  ASSUME Discipline', writer' = None
  PROVE  Position' /\ Merging' /\ Saving'
<1>1. \A r \in Requests : ~Importing(r)'
  BY BulkConstants DEF Discipline
<1>. QED  BY <1>1 DEF Position, Merging, Saving

\* A call that stays as it is has exported what it had.
LEMMA ExportedStays ==
  ASSUME NEW r \in Requests, call'[r] = call[r], Exported(r)
  PROVE  Exported(r)'
BY DEF Exported

\* Locking the vault keeps what it holds, in memory or in the file.
LEMMA StoreLockKeeps ==
  ASSUME CleanIsSaved, unlocked, StoreLock
  PROVE  /\ CleanIsSaved' /\ Vault' = Vault
         /\ unlocked' => data' = data
         /\ dirty' => dirty
         /\ ~dirty => disk' = disk
BY DEF CleanIsSaved, StoreLock, SaveFails, Vault

LEMMA CleanNext == CleanIsSaved /\ [Next]_vars => CleanIsSaved'
<1>. SUFFICES ASSUME CleanIsSaved, [Next]_vars
              PROVE  CleanIsSaved'
  OBVIOUS
<1>1. CASE UNCHANGED store
  BY <1>1 DEF store, CleanIsSaved
<1>2. ASSUME NEW r \in Requests, ImportStores(r)
      PROVE  CleanIsSaved'
  BY <1>1, <1>2 DEF ImportStores, SaveWorks, SaveFails, CleanIsSaved
<1>3. ASSUME NEW p \in Paths, NEW s \in Secrets \cup {None}, Change(p, s)
      PROVE  CleanIsSaved'
  BY <1>3 DEF Change, SaveWorks, SaveFails, CleanIsSaved
<1>4. CASE Unlock \/ UnlockLoadFails
  BY <1>4 DEF Unlock, UnlockLoadFails, CleanIsSaved
<1>5. CASE Lock \/ ShutdownLocks
  BY <1>5, StoreLockKeeps DEF Lock, ShutdownLocks
<1>. QED
  BY <1>1, <1>2, <1>3, <1>4, <1>5 DEF Next, vars, ExportBegins, ExportLists,
     ExportReads, ExportEnds, ExportReturns, ImportBegins, ImportChecks,
     ImportEnds

Rest == Discipline /\ Exporting /\ Position /\ Merging /\ Saving

\* The steps of an export keep the discipline, and it goes on with the vault
\* it started with.
LEMMA ExportKeeps ==
  ASSUME Inv, NEW r \in Requests,
         NEW new \in Calls, call' = [call EXCEPT ![r] = new],
         UNCHANGED <<store, writer>>,
         writer = None,
         \/ new.pc \in {"listing", "reading"} /\ readers' = readers \cup {r}
         \/ /\ new.pc \in {"idle", "exported"} /\ readers' = readers \ {r}
            /\ new.pc = "idle" => new = Idle,
         r \in readers' => /\ unlocked => data = new.start
                           /\ ~unlocked => new.cutOff,
         new.pc = "listing" => new.got = NoSecrets,
         new.pc \in {"reading", "exported"} =>
           \A p \in Paths :
             /\ new.got[p] \in {None, new.start[p]}
             /\ ~new.cutOff => \/ new.got[p] = new.start[p]
                               \/ new.pc = "reading" /\ p \in new.todo
  PROVE  Rest'
<1>1. call'[r] = new /\ \A q \in Requests \ {r} : call'[q] = call[q]
  BY DEF Inv, TypeOK
<1>2. Discipline'
  BY <1>1, BulkConstants DEF Inv, Discipline, Importing
<1>3. ASSUME NEW q \in readers'
      PROVE  Undisturbed(q)'
  BY <1>1, <1>3 DEF Inv, TypeOK, Exporting, Undisturbed, store
<1>4. ASSUME NEW q \in Requests
      PROVE  Exported(q)'
  <2>1. CASE q = r
    BY <1>1, <2>1 DEF Exported
  <2>2. CASE q # r
    BY <1>1, <2>2, ExportedStays DEF Inv, Exporting
  <2>. QED  BY <2>1, <2>2
<1>5. Position' /\ Merging' /\ Saving'
  BY <1>2, NobodyImports
<1>. QED  BY <1>2, <1>3, <1>4, <1>5 DEF Rest, Exporting

\* A reader keeps writers out.
LEMMA ReadersExclude ==
  ASSUME Inv, NEW r \in Requests, call[r].pc \in {"listing", "reading"}
  PROVE  /\ r \in readers /\ writer = None
         /\ Undisturbed(r) /\ Exported(r) /\ call[r] \in Calls
BY BulkConstants DEF Inv, Discipline, TypeOK, Exporting

LEMMA ExportNext ==
  ASSUME Inv, NEW r \in Requests,
         \/ ExportBegins(r) \/ ExportLists(r) \/ ExportReads(r)
         \/ ExportEnds(r) \/ ExportReturns(r)
  PROVE  Rest'
<1>0. call[r] \in Calls /\ call \in [Requests -> Calls]
  BY DEF Inv, TypeOK
<1>1. CASE ExportBegins(r)
  <2>. DEFINE new == [call[r] EXCEPT !.pc = "listing", !.start = data]
  <2>1. new \in Calls /\ new.pc = "listing" /\ new.start = data
    BY <1>0 DEF Inv, TypeOK, Calls
  <2>2. call[r] = Idle
    BY <1>1 DEF ExportBegins, Inv, Discipline
  <2>3. new.got = NoSecrets
    BY <1>0, <2>2 DEF Idle, Calls
  <2>4. call' = [call EXCEPT ![r] = new]
    BY <1>0, <1>1 DEF ExportBegins
  <2>5. /\ UNCHANGED <<store, writer>> /\ writer = None
        /\ readers' = readers \cup {r} /\ unlocked
    BY <1>1 DEF ExportBegins
  <2>. HIDE DEF new
  <2>. QED  BY <2>1, <2>3, <2>4, <2>5, ExportKeeps
<1>2. CASE ExportLists(r)
  <2>1. /\ r \in readers /\ writer = None /\ Undisturbed(r) /\ Exported(r)
        /\ call[r].pc = "listing"
    BY <1>2, ReadersExclude DEF ExportLists
  <2>2. UNCHANGED <<store, writer>>
    BY <1>2 DEF ExportLists
  <2>3. CASE unlocked
    <3>. DEFINE new == [call[r] EXCEPT !.pc = "reading",
                                       !.todo = {p \in Paths : Present(p)}]
    <3>1. new \in Calls
      BY <1>0 DEF Calls
    <3>2. /\ new.pc = "reading" /\ new.todo = {p \in Paths : Present(p)}
          /\ new.got = NoSecrets /\ new.start = data
      BY <1>0, <2>1, <2>3 DEF Calls, Exported, Undisturbed
    <3>3. call' = [call EXCEPT ![r] = new] /\ readers' = readers \cup {r}
      BY <1>0, <1>2, <2>1, <2>3 DEF ExportLists
    <3>4. \A p \in Paths : /\ new.got[p] = None
                           /\ new.got[p] = new.start[p] \/ p \in new.todo
      BY <2>3, <3>2 DEF NoSecrets, Present
    <3>. HIDE DEF new
    <3>. QED  BY <2>1, <2>2, <2>3, <3>1, <3>2, <3>3, <3>4, ExportKeeps
  <2>4. CASE ~unlocked
    <3>1. call' = [call EXCEPT ![r] = Idle] /\ readers' = readers \ {r}
      BY <1>2, <2>4 DEF ExportLists
    <3>2. Idle \in Calls /\ Idle.pc = "idle"
      BY NoSecretsType DEF Idle
    <3>. QED  BY <2>1, <2>2, <3>1, <3>2, ExportKeeps
  <2>. QED  BY <2>3, <2>4
<1>3. CASE ExportReads(r)
  <2>1. /\ r \in readers /\ writer = None /\ Undisturbed(r) /\ Exported(r)
        /\ call[r].pc = "reading"
    BY <1>3, ReadersExclude DEF ExportReads
  <2>2. PICK p \in call[r].todo :
          call' = [call EXCEPT
                     ![r].todo = @ \ {p},
                     ![r].got = IF Present(p) THEN [@ EXCEPT ![p] = data[p]]
                                              ELSE @]
    BY <1>3 DEF ExportReads
  <2>. DEFINE got == IF Present(p) THEN [call[r].got EXCEPT ![p] = data[p]]
                                   ELSE call[r].got
              new == [call[r] EXCEPT !.todo = @ \ {p}, !.got = got]
  <2>3. /\ p \in Paths /\ data[p] \in Secrets \cup {None}
        /\ call[r].got \in Maps /\ call[r].start \in Maps
    BY <1>0, <2>2 DEF Inv, TypeOK, Calls, Maps
  <2>4. got \in Maps /\ \A q \in Paths \ {p} : got[q] = call[r].got[q]
    BY <2>3 DEF Maps
  <2>5. /\ new \in Calls /\ new.pc = "reading" /\ new.got = got
        /\ new.start = call[r].start /\ new.cutOff = call[r].cutOff
        /\ new.todo = call[r].todo \ {p}
    BY <1>0, <2>1, <2>4 DEF Calls
  <2>6. call' = [call EXCEPT ![r] = new]
    BY <1>0, <2>2 DEF Calls
  <2>7. call[r].got[p] \in {None, call[r].start[p]}
    BY <2>1, <2>3 DEF Exported
  <2>8. /\ got[p] \in {None, call[r].start[p]}
        /\ ~call[r].cutOff => got[p] = call[r].start[p]
    <3>1. CASE Present(p)
      <4>1. got[p] = data[p]
        BY <2>3, <3>1 DEF Maps
      <4>. QED  BY <2>1, <3>1, <4>1 DEF Present, Undisturbed
    <3>2. CASE ~Present(p)
      BY <2>1, <2>7, <3>2 DEF Present, Undisturbed
    <3>. QED  BY <3>1, <3>2
  <2>9. \A q \in Paths :
          /\ new.got[q] \in {None, new.start[q]}
          /\ ~new.cutOff => new.got[q] = new.start[q] \/ q \in new.todo
    BY <2>1, <2>4, <2>5, <2>8 DEF Exported
  <2>10. UNCHANGED <<store, writer>> /\ readers' = readers \cup {r}
    BY <1>3, <2>1 DEF ExportReads, mu
  <2>. HIDE DEF new, got
  <2>. QED
    BY <2>1, <2>5, <2>6, <2>9, <2>10, ExportKeeps DEF Undisturbed
<1>4. CASE ExportEnds(r)
  <2>. DEFINE new == [call[r] EXCEPT !.pc = "exported"]
  <2>1. /\ r \in readers /\ writer = None /\ Exported(r)
        /\ call[r].pc = "reading" /\ call[r].todo = {}
    BY <1>4, ReadersExclude DEF ExportEnds
  <2>2. /\ new \in Calls /\ new.pc = "exported" /\ new.got = call[r].got
        /\ new.start = call[r].start /\ new.cutOff = call[r].cutOff
    BY <1>0 DEF Calls
  <2>3. /\ call' = [call EXCEPT ![r] = new] /\ readers' = readers \ {r}
        /\ UNCHANGED <<store, writer>>
    BY <1>0, <1>4 DEF ExportEnds
  <2>4. \A p \in Paths :
          /\ new.got[p] \in {None, new.start[p]}
          /\ ~new.cutOff => new.got[p] = new.start[p]
    BY <2>1, <2>2 DEF Exported
  <2>. HIDE DEF new
  <2>. QED  BY <2>1, <2>2, <2>3, <2>4, ExportKeeps
<1>5. CASE ExportReturns(r)
  <2>1. call' = [call EXCEPT ![r] = Idle] /\ UNCHANGED <<store, mu>>
    BY <1>5 DEF ExportReturns
  <2>2. r \notin readers /\ writer # r
    BY <1>5 DEF ExportReturns, Inv, Discipline, Importing
  <2>3. call'[r] = Idle /\ Idle.pc = "idle" /\ \A q \in Requests \ {r} : call'[q] = call[q]
    BY <1>0, <2>1 DEF Idle
  <2>4. UNCHANGED <<data, disk, unlocked, dirty, writer, readers>>
    BY <2>1 DEF store, mu
  <2>5. Discipline'
    BY <2>2, <2>3, <2>4 DEF Inv, Discipline, Importing
  <2>6. \A q \in readers' : Undisturbed(q)'
    BY <2>2, <2>3, <2>4 DEF Inv, TypeOK, Exporting, Undisturbed
  <2>7. ASSUME NEW q \in Requests
        PROVE  Exported(q)'
    BY <2>3, ExportedStays DEF Exported, Inv, Exporting
  <2>8. \A q \in Requests : Importing(q)' => q # r /\ call'[q] = call[q] /\ Importing(q)
    BY <2>3 DEF Importing
  <2>9. Position'
    BY <2>8 DEF Inv, Position, Left, Importing
  <2>10. Merging'
    BY <2>4, <2>8 DEF Inv, Merging, Vault, Next1
  <2>11. Saving'
    BY <2>4, <2>8 DEF Inv, Saving, LastFor, Vault, NoErrorSince
  <2>. QED  BY <2>5, <2>6, <2>7, <2>9, <2>10, <2>11 DEF Rest, Exporting
<1>. QED  BY <1>1, <1>2, <1>3, <1>4, <1>5
\* An import keeps readers out, and the other requests are not importing.
LEMMA WriterExcludes ==
  ASSUME Inv, NEW r \in Requests, Importing(r)
  PROVE  /\ writer = r /\ readers = {} /\ r # None
         /\ call[r] \in Calls /\ call \in [Requests -> Calls]
         /\ call[r].outcome \in Seq(Outcomes) /\ call[r].entries \in Imports
         /\ \A q \in Requests \ {r} : ~Importing(q)
BY BulkConstants DEF Inv, Discipline, TypeOK, Position, Calls, Outcomes

\* What the last outcome for a path is once there is one more.
LEMMA LastAfterOneMore ==
  ASSUME Inv, NEW r \in Requests, Importing(r), Left(r), NEW o \in Outcomes,
         call'[r].entries = call[r].entries,
         call'[r].outcome = Append(call[r].outcome, o),
         NEW p \in Paths, NEW i \in LastFor(r, p)'
  PROVE  \/ /\ p = Next1(r).path /\ call'[r].outcome[i] = o
            /\ call'[r].entries[i] = Next1(r)
         \/ /\ i \in LastFor(r, p) /\ call'[r].outcome[i] = call[r].outcome[i]
            /\ call'[r].entries[i] = call[r].entries[i]
            /\ o = "skipped" \/ p # Next1(r).path
            /\ NoErrorSince(r, i)' => NoErrorSince(r, i) /\ o # "error"
<1>. DEFINE n == Len(call[r].outcome) + 1
<1>1. /\ n \in Nat /\ DOMAIN call[r].outcome = 1 .. n - 1
      /\ DOMAIN call'[r].outcome = 1 .. n
      /\ \A j \in 1 .. n - 1 : call'[r].outcome[j] = call[r].outcome[j]
      /\ call'[r].outcome[n] = o
  BY WriterExcludes, OneMoreOutcome
<1>2. i \in 1 .. n /\ call[r].entries[i].path = p
  BY <1>1 DEF LastFor
<1>3. CASE i = n
  BY <1>1, <1>2, <1>3 DEF Next1
<1>4. CASE i # n
  <2>1. i \in 1 .. n - 1
    BY <1>1, <1>2, <1>4
  <2>2. i \in LastFor(r, p)
    <3>1. call[r].outcome[i] # "skipped"
      BY <1>1, <2>1 DEF LastFor
    <3>2. \A j \in 1 .. n - 1 :
            call[r].entries[j].path = p /\ call[r].outcome[j] # "skipped" => j <= i
      <4>. HIDE DEF n
      <4>1. 1 .. n - 1 \subseteq 1 .. n
        BY <1>1
      <4>. QED  BY <1>1, <4>1 DEF LastFor
    <3>. QED  BY <1>1, <1>2, <2>1, <3>1, <3>2 DEF LastFor
  <2>3. o = "skipped" \/ p # Next1(r).path
    <3>1. SUFFICES ASSUME o # "skipped", p = Next1(r).path
                   PROVE  FALSE
      OBVIOUS
    <3>2. /\ n \in 1 .. n /\ call'[r].entries[n].path = p
          /\ call'[r].outcome[n] # "skipped"
      BY <1>1, <3>1 DEF Next1
    <3>3. \A j \in 1 .. n : call'[r].entries[j].path = p
                              /\ call'[r].outcome[j] # "skipped" => j <= i
      BY <1>1 DEF LastFor
    <3>4. n <= i
      BY <3>2, <3>3
    <3>. QED  BY <1>1, <2>1, <3>4
  <2>4. ASSUME NoErrorSince(r, i)'
        PROVE  NoErrorSince(r, i) /\ o # "error"
    <3>1. \A j \in 1 .. n : j > i => call'[r].outcome[j] # "error"
      BY <1>1, <2>4 DEF NoErrorSince
    <3>2. n \in 1 .. n /\ n > i
      BY <1>1, <2>1
    <3>3. \A j \in 1 .. n - 1 : j \in 1 .. n
      BY <1>1
    <3>. HIDE DEF n
    <3>. QED  BY <1>1, <3>1, <3>2, <3>3 DEF NoErrorSince
  <2>. QED  BY <1>1, <2>1, <2>2, <2>3, <2>4
<1>. QED  BY <1>3, <1>4

\* An import that goes on keeps the discipline.
LEMMA ImportGoesOn ==
  ASSUME Inv, NEW r \in Requests, Importing(r),
         Importing(r)', \A q \in Requests \ {r} : call'[q] = call[q],
         UNCHANGED mu
  PROVE  Discipline' /\ Exporting'
<1>1. writer = r /\ readers = {}
  BY WriterExcludes
<1>2. Discipline'
  BY <1>1 DEF Inv, Discipline, Importing, mu
<1>3. \A q \in Requests : Exported(q)'
  <2>1. Exported(r)'
    BY DEF Exported, Importing
  <2>. QED  BY <2>1, ExportedStays DEF Inv, Exporting
<1>. QED  BY <1>1, <1>2, <1>3 DEF Exporting, mu

LEMMA ImportBeginsKeeps ==
  ASSUME Inv, NEW r \in Requests, NEW entries \in Imports, NEW merge \in BOOLEAN,
         ImportBegins(r, entries, merge)
  PROVE  Rest'
<1>. DEFINE new == [call[r] EXCEPT !.pc = "checking", !.entries = entries,
                                   !.merge = merge, !.start = data]
<1>1. call[r] = Idle /\ call[r] \in Calls /\ call \in [Requests -> Calls]
  BY DEF ImportBegins, Inv, Discipline, TypeOK
<1>2. call' = [call EXCEPT ![r] = new]
  BY <1>1 DEF ImportBegins
<1>3. /\ new.pc = "checking" /\ new.entries = entries /\ new.start = data
      /\ new.outcome = <<>>
  BY <1>1 DEF Calls, Idle
<1>. HIDE DEF new
<1>4. call'[r] = new /\ \A q \in Requests \ {r} : call'[q] = call[q]
  BY <1>1, <1>2
<1>5. /\ UNCHANGED <<data, disk, unlocked>> /\ unlocked
      /\ writer' = r /\ readers' = {} /\ writer = None
  BY DEF ImportBegins, MayImport, store
<1>6. \A q \in Requests : Importing(q)' <=> q = r
  BY <1>3, <1>4, <1>5, BulkConstants DEF Inv, Discipline, Importing
<1>7. Discipline'
  BY <1>3, <1>4, <1>5, <1>6 DEF Inv, Discipline, ImportBegins, MayImport
<1>8. Exporting'
  <2>1. Exported(r)'
    BY <1>3, <1>4 DEF Exported
  <2>2. \A q \in Requests : Exported(q)'
    BY <1>4, <2>1, ExportedStays DEF Inv, Exporting
  <2>. QED  BY <1>5, <2>2 DEF Exporting
<1>9. Position'
  <2>1. Len(new.outcome) = 0 /\ Len(entries) \in Nat
    BY <1>3, ImportIsSequence
  <2>. QED  BY <1>3, <1>4, <1>6, <2>1 DEF Position
<1>10. Merging'
  BY <1>3, <1>4, <1>5, <1>6 DEF Merging, Vault
<1>11. Saving'
  <2>1. \A p \in Paths : LastFor(r, p)' = {}
    BY <1>3, <1>4 DEF LastFor
  <2>. QED  BY <1>6, <2>1 DEF Saving
<1>. QED  BY <1>7, <1>8, <1>9, <1>10, <1>11 DEF Rest

\* One more outcome, and what has been stored is still there.
LEMMA OutcomeKeeps ==
  ASSUME Inv, NEW r \in Requests, Importing(r), Left(r), NEW o \in Outcomes,
         Stored(r, o), UNCHANGED mu, unlocked' = unlocked,
         \A p \in Paths : p # Next1(r).path => Vault'[p] = Vault[p],
         o = "skipped" \/ ~unlocked =>
           data' = data /\ disk' = disk /\ dirty' = dirty,
         o = "imported" => /\ unlocked /\ ~dirty'
                           /\ Vault'[Next1(r).path] = Next1(r).secret,
         call[r].merge /\ unlocked /\ data' # data => data[Next1(r).path] = None
  PROVE  Rest'
<1>1. /\ writer = r /\ readers = {}
      /\ call[r] \in Calls /\ call \in [Requests -> Calls]
      /\ call[r].outcome \in Seq(Outcomes) /\ call[r].entries \in Imports
      /\ \A q \in Requests \ {r} : ~Importing(q)
  BY WriterExcludes
<1>. DEFINE new == [call[r] EXCEPT !.pc = "checking",
                                   !.outcome = Append(call[r].outcome, o)]
<1>2. call' = [call EXCEPT ![r] = new]
  BY <1>1 DEF Stored
<1>3. /\ new.pc = "checking" /\ new.outcome = Append(call[r].outcome, o)
      /\ new.entries = call[r].entries /\ new.merge = call[r].merge
      /\ new.start = call[r].start
  BY <1>1 DEF Calls
<1>. HIDE DEF new
<1>4. call'[r] = new /\ \A q \in Requests \ {r} : call'[q] = call[q]
  BY <1>1, <1>2
<1>5. \A q \in Requests : Importing(q)' <=> q = r
  BY <1>1, <1>3, <1>4 DEF Importing
<1>6. Discipline' /\ Exporting'
  BY <1>4, <1>5, ImportGoesOn
<1>7. Position'
  <2>1. Len(new.outcome) = Len(call[r].outcome) + 1 /\ Len(call[r].outcome) \in Nat
    BY <1>1, <1>3, OneMoreOutcome
  <2>2. Len(call[r].entries) \in Nat
    BY <1>1, ImportIsSequence
  <2>. QED  BY <1>1, <1>3, <1>4, <1>5, <2>1, <2>2 DEF Position, Left
<1>8. Merging'
  <2>1. ASSUME call[r].merge, NEW p \in Paths, call[r].start[p] # None
        PROVE  Vault'[p] = call[r].start[p]
    <3>1. Vault[p] = call[r].start[p]
      BY <2>1 DEF Inv, Merging
    <3>2. CASE ~unlocked
      BY <3>1, <3>2 DEF Vault
    <3>3. CASE unlocked /\ data' = data
      BY <3>1, <3>3 DEF Vault
    <3>4. CASE unlocked /\ data' # data
      <4>1. p # Next1(r).path
        BY <2>1, <3>1, <3>4 DEF Vault
      <4>. QED  BY <3>1, <3>4, <4>1 DEF Vault
    <3>. QED  BY <3>2, <3>3, <3>4
  <2>. QED  BY <1>3, <1>4, <1>5, <2>1 DEF Merging
<1>9. Saving'
  <2>1. SUFFICES ASSUME NEW p \in Paths, NEW i \in LastFor(r, p)',
                        call'[r].outcome[i] = "imported"
                 PROVE  /\ Vault'[p] = call'[r].entries[i].secret
                        /\ NoErrorSince(r, i)' => (unlocked' => ~dirty')
    BY <1>5 DEF Saving
  <2>2. \/ /\ p = Next1(r).path /\ call'[r].outcome[i] = o
           /\ call'[r].entries[i] = Next1(r)
        \/ /\ i \in LastFor(r, p) /\ call'[r].outcome[i] = call[r].outcome[i]
           /\ call'[r].entries[i] = call[r].entries[i]
           /\ o = "skipped" \/ p # Next1(r).path
           /\ NoErrorSince(r, i)' => NoErrorSince(r, i) /\ o # "error"
    BY <1>3, <1>4, LastAfterOneMore
  <2>3. CASE /\ p = Next1(r).path /\ call'[r].outcome[i] = o
             /\ call'[r].entries[i] = Next1(r)
    BY <2>1, <2>3
  <2>4. CASE /\ i \in LastFor(r, p) /\ call'[r].outcome[i] = call[r].outcome[i]
             /\ call'[r].entries[i] = call[r].entries[i]
             /\ o = "skipped" \/ p # Next1(r).path
             /\ NoErrorSince(r, i)' => NoErrorSince(r, i) /\ o # "error"
    <3>1. /\ Vault[p] = call[r].entries[i].secret
          /\ NoErrorSince(r, i) => (unlocked => ~dirty)
      BY <2>1, <2>4 DEF Inv, Saving
    <3>2. Vault'[p] = Vault[p]
      BY <2>4 DEF Vault
    <3>3. NoErrorSince(r, i)' => (unlocked' => ~dirty')
      BY <2>4, <3>1 DEF Outcomes
    <3>. QED  BY <2>4, <3>1, <3>2, <3>3
  <2>. QED  BY <2>2, <2>3, <2>4
<1>. QED  BY <1>6, <1>7, <1>8, <1>9 DEF Rest

LEMMA ImportChecksKeeps ==
  ASSUME Inv, NEW r \in Requests, ImportChecks(r)
  PROVE  Rest'
<1>1. Importing(r) /\ Left(r) /\ UNCHANGED <<store, mu>>
  BY DEF ImportChecks, Importing
<1>2. /\ writer = r /\ readers = {}
      /\ call[r] \in Calls /\ call \in [Requests -> Calls]
      /\ \A q \in Requests \ {r} : ~Importing(q)
  BY <1>1, WriterExcludes
<1>3. CASE Skips(r)
  <2>1. Stored(r, "skipped")
    BY <1>2, <1>3 DEF ImportChecks, Stored, Calls
  <2>. QED  BY <1>1, <2>1, OutcomeKeeps DEF Outcomes, store, Vault
<1>4. CASE ~Skips(r)
  <2>. DEFINE new == [call[r] EXCEPT !.pc = "storing"]
  <2>1. call' = [call EXCEPT ![r] = new]
    BY <1>2, <1>4 DEF ImportChecks
  <2>2. /\ new.pc = "storing" /\ new.outcome = call[r].outcome
        /\ new.entries = call[r].entries /\ new.merge = call[r].merge
        /\ new.start = call[r].start
    BY <1>2 DEF Calls
  <2>. HIDE DEF new
  <2>3. call'[r] = new /\ \A q \in Requests \ {r} : call'[q] = call[q]
    BY <1>2, <2>1
  <2>4. \A q \in Requests : Importing(q)' <=> q = r
    BY <1>2, <2>2, <2>3 DEF Importing
  <2>5. Discipline' /\ Exporting'
    BY <1>1, <2>3, <2>4, ImportGoesOn
  <2>6. Position'
    BY <1>1, <2>2, <2>3, <2>4 DEF Inv, Position, Left
  <2>7. /\ Next1(r)' = Next1(r)
        /\ \A p \in Paths : LastFor(r, p)' = LastFor(r, p)
        /\ \A i : NoErrorSince(r, i)' <=> NoErrorSince(r, i)
    BY <2>2, <2>3 DEF Next1, LastFor, NoErrorSince
  <2>8. UNCHANGED <<data, disk, unlocked, dirty>>
    BY <1>1 DEF store
  <2>9. Merging'
    <3>1. call[r].merge /\ unlocked => data[Next1(r).path] = None
      BY <1>4 DEF Skips, Present
    <3>. QED
      BY <1>1, <2>2, <2>3, <2>4, <2>7, <2>8, <3>1 DEF Inv, Merging, Vault
  <2>10. Saving'
    BY <1>1, <2>2, <2>3, <2>4, <2>7, <2>8 DEF Inv, Saving, Vault
  <2>. QED  BY <2>5, <2>6, <2>9, <2>10 DEF Rest
<1>. QED  BY <1>3, <1>4

LEMMA ImportStoresKeeps ==
  ASSUME Inv, NEW r \in Requests, ImportStores(r)
  PROVE  Rest'
<1>1. Importing(r) /\ Left(r) /\ UNCHANGED mu /\ call[r].pc = "storing"
  BY DEF ImportStores, Importing, Inv, Position
<1>2. Next1(r).path \in Paths /\ Next1(r).secret \in Secrets
  BY <1>1, CurrentEntry DEF Inv
<1>3. data \in Maps
  BY DEF Inv, TypeOK
<1>4. CASE ~unlocked
  <2>1. Stored(r, "error") /\ UNCHANGED <<data, disk, unlocked, dirty>>
    BY <1>4 DEF ImportStores, store
  <2>. QED  BY <1>1, <1>4, <2>1, OutcomeKeeps DEF Outcomes, Vault
<1>5. CASE unlocked
  <2>1. /\ data' = [data EXCEPT ![Next1(r).path] = Next1(r).secret]
        /\ unlocked' = unlocked
        /\ \/ SaveWorks /\ Stored(r, "imported")
           \/ SaveFails /\ Stored(r, "error")
    BY <1>5 DEF ImportStores
  <2>2. /\ data'[Next1(r).path] = Next1(r).secret
        /\ \A p \in Paths : p # Next1(r).path => data'[p] = data[p]
    BY <1>2, <1>3, <2>1 DEF Maps
  <2>3. call[r].merge => data[Next1(r).path] = None
    BY <1>1, <1>5 DEF Inv, Merging
  <2>4. CASE SaveWorks /\ Stored(r, "imported")
    BY <1>1, <1>5, <2>1, <2>2, <2>3, <2>4, OutcomeKeeps
       DEF Outcomes, SaveWorks, Vault
  <2>5. CASE SaveFails /\ Stored(r, "error")
    BY <1>1, <1>5, <2>1, <2>2, <2>3, <2>5, OutcomeKeeps
       DEF Outcomes, SaveFails, Vault
  <2>. QED  BY <2>1, <2>4, <2>5
<1>. QED  BY <1>4, <1>5

LEMMA ImportEndsKeeps ==
  ASSUME Inv, NEW r \in Requests, ImportEnds(r)
  PROVE  Rest'
<1>1. Importing(r)
  BY DEF ImportEnds, Importing
<1>2. /\ writer = r /\ readers = {} /\ r # None
      /\ call[r] \in Calls /\ call \in [Requests -> Calls]
      /\ \A q \in Requests \ {r} : ~Importing(q)
  BY <1>1, WriterExcludes
<1>3. /\ call'[r] = Idle /\ Idle.pc = "idle"
      /\ \A q \in Requests \ {r} : call'[q] = call[q]
      /\ writer' = None /\ readers' = readers
  BY <1>2 DEF ImportEnds, Idle
<1>4. Discipline'
  BY <1>2, <1>3, BulkConstants DEF Inv, Discipline, Importing
<1>5. Exporting'
  <2>1. \A q \in Requests : Exported(q)'
    BY <1>3, ExportedStays DEF Exported, Inv, Exporting
  <2>. QED  BY <1>2, <1>3, <2>1 DEF Exporting
<1>. QED  BY <1>3, <1>4, <1>5, NobodyImports DEF Rest

\* Others change the vault, or lock it, when no handler works on it.
LEMMA OthersKeep ==
  ASSUME Inv, MayImport, UNCHANGED <<mu, call>>
  PROVE  Rest'
<1>1. writer' = None /\ readers' = {}
  BY DEF MayImport, mu
<1>2. Discipline'
  BY DEF Inv, Discipline, Importing, mu
<1>3. Exporting'
  BY <1>1, ExportedStays DEF Inv, Exporting
<1>. QED  BY <1>1, <1>2, <1>3, NobodyImports DEF Rest

\* Shutdown locks the vault under the handlers and keeps what it holds.
LEMMA ShutdownKeeps ==
  ASSUME Inv, ShutdownLocks
  PROVE  Rest'
<1>1. /\ CleanIsSaved' /\ Vault' = Vault
      /\ unlocked' => data' = data
      /\ dirty' => dirty
      /\ unlocked /\ UNCHANGED <<writer, readers>>
  BY StoreLockKeeps DEF ShutdownLocks, Inv, mu
<1>2. \A r \in Requests :
        /\ call'[r].pc = call[r].pc /\ call'[r].entries = call[r].entries
        /\ call'[r].merge = call[r].merge /\ call'[r].todo = call[r].todo
        /\ call'[r].got = call[r].got /\ call'[r].start = call[r].start
        /\ call'[r].outcome = call[r].outcome
        /\ call[r].cutOff => call'[r].cutOff
        /\ r \in readers /\ ~unlocked' => call'[r].cutOff
        /\ r \notin readers \cup {writer} => call'[r] = call[r]
  BY ShutdownCalls DEF Inv
<1>3. Discipline'
  BY <1>1, <1>2 DEF Inv, Discipline, Importing
<1>4. Exporting'
  <2>1. \A r \in readers : Undisturbed(r)'
    BY <1>1, <1>2 DEF Inv, TypeOK, Exporting, Undisturbed
  <2>2. ASSUME NEW r \in Requests
        PROVE  Exported(r)'
    BY <1>2 DEF Inv, Exporting, Exported
  <2>. QED  BY <1>1, <2>1, <2>2 DEF Exporting
<1>5. ASSUME NEW r \in Requests
      PROVE  /\ Importing(r)' <=> Importing(r)
             /\ Next1(r)' = Next1(r) /\ (Left(r)' <=> Left(r))
             /\ \A p \in Paths : LastFor(r, p)' = LastFor(r, p)
             /\ \A i : NoErrorSince(r, i)' <=> NoErrorSince(r, i)
  <2>1. /\ call'[r].pc = call[r].pc /\ call'[r].entries = call[r].entries
        /\ call'[r].outcome = call[r].outcome
    BY <1>2
  <2>2. Next1(r)' = Next1(r) /\ (Left(r)' <=> Left(r))
    BY <2>1 DEF Next1, Left
  <2>3. \A p \in Paths : LastFor(r, p)' = LastFor(r, p)
    BY <2>1 DEF LastFor
  <2>4. \A i : NoErrorSince(r, i)' <=> NoErrorSince(r, i)
    BY <2>1 DEF NoErrorSince
  <2>. QED  BY <2>1, <2>2, <2>3, <2>4 DEF Importing
<1>6. Position'
  BY <1>2, <1>5 DEF Inv, Position
<1>7. Merging'
  BY <1>1, <1>2, <1>5 DEF Inv, Merging
<1>8. Saving'
  BY <1>1, <1>2, <1>5 DEF Inv, Saving
<1>. QED  BY <1>3, <1>4, <1>6, <1>7, <1>8 DEF Rest

-----------------------------------------------------------------------------
(* The theorems *)

LEMMA InvInit == Init => Inv
<1>. SUFFICES ASSUME Init
              PROVE  Inv
  OBVIOUS
<1>1. \A r \in Requests : call[r] = Idle /\ Idle.pc = "idle"
  BY DEF Init, Idle
<1>2. Discipline /\ CleanIsSaved
  BY <1>1, BulkConstants DEF Init, Discipline, CleanIsSaved, Importing
<1>3. Exporting
  BY <1>1 DEF Init, Exporting, Exported
<1>4. Position /\ Merging /\ Saving
  BY <1>1 DEF Position, Merging, Saving, Importing
<1>. QED  BY <1>2, <1>3, <1>4, TypeInit DEF Inv

LEMMA InvNext == Inv /\ [Next]_vars => Inv'
<1>. SUFFICES ASSUME Inv, [Next]_vars
              PROVE  Rest'
  BY TypeNext, CleanNext DEF Inv, Rest
<1>1. CASE UNCHANGED vars
  BY <1>1 DEF vars, store, mu, Inv, Rest, Discipline, Exporting, Position,
     Merging, Saving, Importing, Undisturbed, Exported, Left, Vault, Next1,
     LastFor, NoErrorSince
<1>2. CASE \/ \E p \in Paths, s \in Secrets \cup {None} : Change(p, s)
           \/ Unlock \/ UnlockLoadFails \/ Lock
  BY <1>2, OthersKeep DEF Change, Unlock, UnlockLoadFails, Lock, mu
<1>3. CASE ShutdownLocks
  BY <1>3, ShutdownKeeps
<1>. QED
  BY <1>1, <1>2, <1>3, ExportNext, ImportBeginsKeeps, ImportChecksKeeps,
     ImportStoresKeeps, ImportEndsKeeps DEF Next

\* The invariant holds in every state, whatever saves fail and whenever a
\* shutdown locks the vault.
THEOREM Inductive == Spec => []Inv
BY InvInit, InvNext, PTL DEF Spec

\* Every variable has its type.
THEOREM TypeCorrect == Spec => []TypeOK
<1>1. Inv => TypeOK
  BY DEF Inv
<1>. QED  BY <1>1, Inductive, PTL

\* An export is the vault as it was when it began, unless a shutdown
\* interrupted it, and then it is part of that.
THEOREM ExportCorrect == Spec => []ExportIsSnapshot
<1>1. Inv => ExportIsSnapshot
  <2>. SUFFICES ASSUME Inv, NEW r \in Requests,
                       call[r].pc \in {"reading", "exported"}
                PROVE  /\ \A p \in Paths : call[r].got[p] \in {None, call[r].start[p]}
                       /\ call[r].pc = "exported" /\ ~call[r].cutOff =>
                            call[r].got = call[r].start
    BY DEF ExportIsSnapshot
  <2>1. Exported(r) /\ call[r].got \in Maps /\ call[r].start \in Maps
    BY DEF Inv, TypeOK, Exporting, Calls
  <2>2. \A p \in Paths : call[r].got[p] \in {None, call[r].start[p]}
    BY <2>1 DEF Exported
  <2>3. ASSUME call[r].pc = "exported", ~call[r].cutOff
        PROVE  call[r].got = call[r].start
    <3>1. \A p \in Paths : call[r].got[p] = call[r].start[p]
      BY <2>1, <2>3 DEF Exported
    <3>. QED  BY <2>1, <3>1 DEF Maps
  <2>. QED  BY <2>2, <2>3
<1>. QED  BY <1>1, Inductive, PTL

\* A merge leaves every secret that was there as it was.
THEOREM MergeCorrect == Spec => []MergeKeeps
<1>1. Inv => MergeKeeps
  BY DEF Inv, Merging, MergeKeeps
<1>. QED  BY <1>1, Inductive, PTL

\* What an import counts as imported is in the vault from then on, and on
\* disk until an entry fails.
THEOREM ImportCorrect == Spec => []ImportedIsSaved
<1>1. Inv => ImportedIsSaved
  BY DEF Inv, CleanIsSaved, Saving, ImportedIsSaved, Vault
<1>. QED  BY <1>1, Inductive, PTL
=============================================================================
