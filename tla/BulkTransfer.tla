---------------------------- MODULE BulkTransfer ----------------------------
(***************************************************************************)
(* Exports and imports (handleExport and handleImport of the daemon, with  *)
(* listings, which read the vault the same way, and cmdExport and          *)
(* cmdImport, which send them).  They call the store once per secret: the  *)
(* mutex of the server keeps other requests and the auto-lock out, but not *)
(* Shutdown, which locks the vault without it.                             *)
(*                                                                         *)
(* The store is the map in memory and the vault file, which a change saves *)
(* at once; a save that fails may have truncated the file.  What crashes   *)
(* do is in EncryptedStore.  A secret stands for what an ExportedSecret    *)
(* carries of it: value, fields, tags and expiry.                          *)
(***************************************************************************)
EXTENDS Naturals, Sequences, FiniteSets

CONSTANTS Requests, Paths, Secrets, None,
          Torn,         \* a vault file that does not parse
          MaxEntries,   \* bound: secrets in an import
          MaxFaults     \* bound: saves and loads that fail

Maps == [Paths -> Secrets \cup {None}]

ASSUME BulkConstants ==
  /\ None \notin Secrets
  /\ None \notin Requests
  /\ Torn \notin Maps
  /\ MaxEntries \in Nat
  /\ MaxFaults \in Nat

VARIABLES
  data, disk, unlocked, dirty,  \* the store
  writer, readers,              \* who holds Server.mu
  call,                         \* the request each client has sent
  faults

store == <<data, disk, unlocked, dirty>>
mu == <<writer, readers>>
vars == <<store, mu, call, faults>>

Entries == [path : Paths, secret : Secrets]
Imports == UNION {[1 .. n -> Entries] : n \in 1 .. MaxEntries}
NoMap == None
NoSecrets == [p \in Paths |-> None]

Idle == [pc |-> "idle", entries |-> <<>>, merge |-> FALSE, todo |-> {},
         got |-> NoSecrets, outcome |-> <<>>, start |-> NoSecrets,
         cutOff |-> FALSE]

\* A request that finds the vault locked is refused and changes nothing.
\* start is the vault when the handler began; cutOff says that Shutdown
\* locked it since.
Calls ==
  [pc : {"idle", "listing", "reading", "exported", "checking", "storing"},
   entries : {<<>>} \cup Imports, merge : BOOLEAN, todo : SUBSET Paths,
   got : Maps, outcome : Seq({"imported", "skipped", "error"}), start : Maps,
   cutOff : BOOLEAN]

TypeOK ==
  /\ data \in Maps /\ disk \in Maps \cup {Torn}
  /\ unlocked \in BOOLEAN /\ dirty \in BOOLEAN
  /\ writer \in Requests \cup {None}
  /\ readers \subseteq Requests
  /\ call \in [Requests -> Calls]
  /\ faults \in 0 .. MaxFaults
-----------------------------------------------------------------------------
(* The store *)

Present(p) == unlocked /\ data[p] # None

\* What a reader of the vault finds, after unlocking it if need be.
Vault == IF unlocked THEN data ELSE disk

SaveSkipped == dirty' = TRUE /\ UNCHANGED <<disk, faults>>
SaveWorks == disk' = data' /\ dirty' = FALSE /\ UNCHANGED faults
\* A save that fails has not begun to write, or has truncated the file and
\* got no further than some part of it, or is told of an error at the end.
SaveFails == /\ faults < MaxFaults
             /\ faults' = faults + 1
             /\ dirty' = TRUE
             /\ disk' \in {disk, data', Torn}

\* EncryptedStore.Lock saves what is not saved, and gives up if it cannot.
StoreLock ==
  IF unlocked /\ dirty
  THEN \/ /\ disk' = data /\ dirty' = FALSE
          /\ unlocked' = FALSE /\ data' = NoSecrets /\ UNCHANGED faults
       \/ UNCHANGED <<unlocked, data>> /\ SaveFails
  ELSE /\ unlocked' = FALSE /\ data' = NoSecrets
       /\ UNCHANGED <<disk, dirty, faults>>
-----------------------------------------------------------------------------
(* handleExport *)

\* cmdExport, or a listing, sends the request, and the handler gets the mutex.
ExportBegins(r) ==
  /\ call[r].pc = "idle"
  /\ writer = None
  /\ unlocked
  /\ call' = [call EXCEPT ![r].pc = "listing", ![r].start = data]
  /\ readers' = readers \cup {r}
  /\ UNCHANGED <<store, writer, faults>>

ExportLists(r) ==
  /\ call[r].pc = "listing"
  /\ IF unlocked
     THEN /\ call' = [call EXCEPT ![r].pc = "reading",
                                  ![r].todo = {p \in Paths : Present(p)}]
          /\ UNCHANGED readers
     ELSE call' = [call EXCEPT ![r] = Idle] /\ readers' = readers \ {r}
  /\ UNCHANGED <<store, writer, faults>>

\* An entry that cannot be read is left out.
ExportReads(r) ==
  /\ call[r].pc = "reading"
  /\ \E p \in call[r].todo :
       call' = [call EXCEPT
                  ![r].todo = @ \ {p},
                  ![r].got = IF Present(p) THEN [@ EXCEPT ![p] = data[p]]
                                           ELSE @]
  /\ UNCHANGED <<store, mu, faults>>

ExportEnds(r) ==
  /\ call[r].pc = "reading"
  /\ call[r].todo = {}
  /\ call' = [call EXCEPT ![r].pc = "exported"]
  /\ readers' = readers \ {r}
  /\ UNCHANGED <<store, writer, faults>>

\* The answer reaches the client.
ExportReturns(r) ==
  /\ call[r].pc = "exported"
  /\ call' = [call EXCEPT ![r] = Idle]
  /\ UNCHANGED <<store, mu, faults>>
-----------------------------------------------------------------------------
(* handleImport *)

MayImportBesideReaders == writer = None
MayImport == writer = None /\ readers = {}

\* cmdImport sends what it found in a file, unless that is nothing, and the
\* handler gets the mutex.
ImportBegins(r, entries, merge) ==
  /\ call[r].pc = "idle"
  /\ entries # <<>>
  /\ MayImport
  /\ unlocked
  /\ call' = [call EXCEPT ![r].pc = "checking", ![r].entries = entries,
                          ![r].merge = merge, ![r].start = data]
  /\ writer' = r
  /\ UNCHANGED <<store, readers, faults>>

Next1(r) == call[r].entries[Len(call[r].outcome) + 1]
Left(r) == Len(call[r].outcome) < Len(call[r].entries)

Skips(r) == Present(Next1(r).path) /\ call[r].merge

\* Exists; its error, if the vault is locked, counts as "no".
ImportChecks(r) ==
  /\ call[r].pc = "checking"
  /\ Left(r)
  /\ call' = IF Skips(r)
             THEN [call EXCEPT ![r].outcome = Append(@, "skipped")]
             ELSE [call EXCEPT ![r].pc = "storing"]
  /\ UNCHANGED <<store, mu, faults>>

Stored(r, outcome) ==
  call' = [call EXCEPT ![r].pc = "checking",
                       ![r].outcome = Append(@, outcome)]

\* Set on an unlocked vault changes memory even if the save then fails.
ImportStores(r) ==
  /\ call[r].pc = "storing"
  /\ IF unlocked
     THEN /\ data' = [data EXCEPT ![Next1(r).path] = Next1(r).secret]
          /\ \/ SaveWorks /\ Stored(r, "imported")
             \/ SaveFails /\ Stored(r, "error")
          /\ UNCHANGED unlocked
     ELSE Stored(r, "error") /\ UNCHANGED <<store, faults>>
  /\ UNCHANGED mu

ImportEnds(r) ==
  /\ call[r].pc = "checking"
  /\ ~Left(r)
  /\ call' = [call EXCEPT ![r] = Idle]
  /\ writer' = None
  /\ UNCHANGED <<store, readers, faults>>
-----------------------------------------------------------------------------
(* Everything else that happens to the vault *)

\* Another request sets or deletes a secret.
Change(p, s) ==
  /\ MayImport
  /\ unlocked
  /\ data' = [data EXCEPT ![p] = s]
  /\ SaveWorks \/ SaveFails
  /\ UNCHANGED <<unlocked, mu, call>>

\* Unlocking loads the file, over whatever is in memory.
UnlockWithoutMutex ==
  /\ disk # Torn
  /\ unlocked' = TRUE
  /\ data' = disk
  /\ UNCHANGED <<disk, dirty, mu, call, faults>>
Unlock ==
  /\ MayImport
  /\ disk # Torn
  /\ unlocked' = TRUE
  /\ data' = disk
  /\ UNCHANGED <<disk, dirty, mu, call, faults>>

\* The file does not parse or cannot be read: the key is dropped, also if the
\* vault was unlocked.
UnlockLoadFails ==
  /\ MayImport
  /\ \/ disk = Torn /\ UNCHANGED faults
     \/ faults < MaxFaults /\ faults' = faults + 1
  /\ unlocked' = FALSE
  /\ UNCHANGED <<data, disk, dirty, mu, call>>

\* A lock request, or the auto-lock.
Lock ==
  /\ MayImport
  /\ unlocked
  /\ StoreLock
  /\ UNCHANGED <<mu, call>>

\* Shutdown does not take Server.mu.  The daemon goes on answering for a
\* while.
ShutdownLocks ==
  /\ unlocked
  /\ StoreLock
  /\ call' = [r \in Requests |->
                [call[r] EXCEPT !.cutOff = @ \/ (r \in readers \cup {writer}
                                                   /\ ~unlocked')]]
  /\ UNCHANGED mu
-----------------------------------------------------------------------------
Init ==
  /\ disk = NoSecrets
  /\ data = NoSecrets
  /\ unlocked = FALSE
  /\ dirty = FALSE
  /\ writer = None
  /\ readers = {}
  /\ call = [r \in Requests |-> Idle]
  /\ faults = 0

Next ==
  \/ \E r \in Requests :
       \/ ExportBegins(r) \/ ExportLists(r) \/ ExportReads(r)
       \/ ExportEnds(r) \/ ExportReturns(r)
       \/ \E entries \in Imports, merge \in BOOLEAN :
            ImportBegins(r, entries, merge)
       \/ ImportChecks(r) \/ ImportStores(r) \/ ImportEnds(r)
  \/ \E p \in Paths, s \in Secrets \cup {None} : Change(p, s)
  \/ Unlock \/ UnlockLoadFails \/ Lock \/ ShutdownLocks

Spec == Init /\ [][Next]_vars
-----------------------------------------------------------------------------
(* Properties *)

\* An export holds nothing that was not in the vault when it began, and is
\* all of that unless a shutdown interrupted it, however imports and changes
\* interleave with the reading.
ExportIsSnapshot ==
  \A r \in Requests :
    call[r].pc \in {"reading", "exported"} =>
      /\ \A p \in Paths : call[r].got[p] \in {None, call[r].start[p]}
      /\ call[r].pc = "exported" /\ ~call[r].cutOff =>
           call[r].got = call[r].start

Importing(r) == call[r].pc \in {"checking", "storing"}

\* A merge leaves every secret that was there as it was, though it ignores
\* the error of Exists, and though the vault may be locked between the check
\* and the write and unlocked again afterwards.
MergeKeeps ==
  \A r \in Requests, p \in Paths :
    Importing(r) /\ call[r].merge /\ call[r].start[p] # None =>
      Vault[p] = call[r].start[p]

\* What an import counts as imported (of the entries for one path the last
\* one, unless a later one failed) is in the vault for everybody from then
\* on: in memory while it is unlocked, on disk once a shutdown has locked it.
\* And it is on disk when it is counted and stays there until an entry
\* fails, whose save may then have torn the whole file.
LastFor(r, p) ==
  {i \in DOMAIN call[r].outcome :
     /\ call[r].entries[i].path = p
     /\ call[r].outcome[i] # "skipped"
     /\ \A j \in DOMAIN call[r].outcome :
          call[r].entries[j].path = p /\ call[r].outcome[j] # "skipped"
            => j <= i}
NoErrorSince(r, i) ==
  \A j \in DOMAIN call[r].outcome : j > i => call[r].outcome[j] # "error"
ImportedIsSaved ==
  \A r \in Requests, p \in Paths :
    Importing(r) =>
      \A i \in LastFor(r, p) :
        call[r].outcome[i] = "imported" =>
          /\ Vault[p] = call[r].entries[i].secret
          /\ NoErrorSince(r, i) => disk[p] = call[r].entries[i].secret
=============================================================================
