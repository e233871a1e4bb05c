------------------------------ MODULE FileVault ------------------------------
(***************************************************************************)
(* The file provider (providers/file/file.go): one file per secret in a    *)
(* directory that goroutines and processes share without any lock.  A      *)
(* provider keeps no state but its configuration; the state is the file    *)
(* system's.  Each call is cut where another call can come in between: a   *)
(* Set makes the directories of its path, opens and truncates the file,    *)
(* and writes it; a Get opens the file and reads it; a List reads one      *)
(* directory at a time.  Removing and looking up a name are single steps.  *)
(*                                                                         *)
(* With an extension ("a" is kept in a.json) the name of a secret is never *)
(* the name of a directory; without one, which is the default, a directory *)
(* that holds secrets has the name of a secret itself.                     *)
(*                                                                         *)
(* Secrets are kept in the JSON format.  Reading what does not parse is    *)
(* not an error: Get answers with the raw text.                            *)
(***************************************************************************)
EXTENDS Naturals, FiniteSets

CONSTANTS
  Clients,    \* providers, each running one call at a time
  Lax,        \* those made with AllowInsecurePermissions
  Paths,      \* names of secrets
  Inside,     \* <<d, p>>: the path p goes through a directory named d
  Root,       \* the directory itself
  Secrets,
  Inodes,     \* identities of files
  None,
  MaxFaults   \* bound: writes that stop half way

Empty == "empty"   \* a file after truncation
Torn  == "torn"    \* part of a secret, or two written over one another
Contents == Secrets \cup {Empty, Torn}

Absent  == "absent"
Unknown == "unknown"

ASSUME FileVaultConstants ==
  /\ Lax \subseteq Clients
  /\ Inside \subseteq Paths \X Paths
  /\ Root \notin Paths
  /\ None \notin Inodes
  /\ None \notin Paths
  /\ Secrets \cap {Empty, Torn, Absent, Unknown} = {}
  /\ MaxFaults \in Nat

VARIABLES
  extension,  \* the providers use an extension
  readOnly,   \* those made with ReadOnly
  made,       \* the directory exists
  dirs,       \* directories in it, by name
  link,       \* the file of each secret, or None
  disk,       \* what each file holds
  insecure,   \* files that others than the owner may read
  call,       \* the call each client is running
  faults,
  settled,    \* per path: what calls that did not overlap have left there
  answer      \* what the last step answered, if it ended a call

config == <<extension, readOnly>>
fs == <<made, dirs, link, disk, insecure>>
vars == <<config, fs, call, faults, settled, answer>>

Above(p) == {d \in Paths : <<d, p>> \in Inside}
Children(d) ==
  IF d = Root THEN {p \in Paths : Above(p) = {}}
              ELSE {p \in Paths : Above(p) = Above(d) \cup {d}}

\* From each directory that a path goes through the path goes on, to itself
\* or to the next directory.
ASSUME PathsGoOn ==
  \A p \in Paths : \A d \in Above(p) \cup {Root} :
    Children(d) \cap (Above(p) \cup {p}) # {}

Idle == [op |-> "idle", path |-> None, secret |-> None, fd |-> None,
         todo |-> {}, names |-> {}, must |-> {}, alone |-> FALSE]

NoAnswer == [op |-> "none", path |-> None, result |-> "none", alone |-> FALSE]

Calls ==
  [op : {"idle", "open", "write", "read", "list"}, path : Paths \cup {None},
   secret : Secrets \cup {None}, fd : Inodes \cup {None},
   todo : SUBSET (Paths \cup {Root}), names : SUBSET Paths,
   must : SUBSET Paths, alone : BOOLEAN]

TypeOK ==
  /\ extension \in BOOLEAN
  /\ readOnly \subseteq Clients
  /\ made \in BOOLEAN
  /\ dirs \subseteq Paths
  /\ link \in [Paths -> Inodes \cup {None}]
  /\ disk \in [Inodes -> Contents]
  /\ insecure \subseteq Inodes
  /\ call \in [Clients -> Calls]
  /\ faults \in 0 .. MaxFaults
  /\ settled \in [Paths -> Secrets \cup {Absent, Unknown}]
-----------------------------------------------------------------------------
(* The file system *)

Files == {p \in Paths : link[p] # None}

\* Names that resolve to a directory, to something, or not at all because a
\* component on the way is a file.
IsDir(p)     == ~extension /\ p \in dirs
Named(p)     == p \in Files \/ IsDir(p)
Blocked(p)   == ~extension /\ \E d \in Above(p) : d \in Files
EmptyDir(d)  == \A p \in Paths : <<d, p>> \in Inside => p \notin Files \cup dirs

Held(calls) == {calls[c].fd : c \in Clients} \ {None}

\* The files hold content; one with neither a name nor a reader or writer is
\* gone.
Live(links, calls) == Held(calls) \cup ({links[p] : p \in Paths} \ {None})
FilesHold(content, links, calls) ==
  /\ disk' = [i \in Inodes |-> IF i \in Live(links, calls) THEN content[i]
                                                          ELSE Empty]
  /\ insecure' = insecure \cap Live(links, calls)

\* The result of writing s over what a file holds: another writer may have
\* filled the file since it was truncated, with something longer.
Overwritten(s, old) == IF old \in {Empty, s} THEN {s} ELSE {s, Torn}

\* Opening a file for writing empties it.
TruncatedNot(old) == old
TruncatedAway(old) == None
Truncated(old) == Empty
-----------------------------------------------------------------------------
(* Calls and their overlap *)

Writing(p) == \E c \in Clients : call[c].op \in {"open", "write"}
                                 /\ call[c].path = p

\* Calls on path p now overlap with one that changes it.
Disturb(calls, p) ==
  [c \in Clients |->
     IF calls[c].path = p THEN [calls[c] EXCEPT !.alone = FALSE] ELSE calls[c]]

\* A listing must show the files that are there from its start to its end.
Gone(calls, p) ==
  [c \in Clients |-> [calls[c] EXCEPT !.must = @ \ {p}]]

Answer(op, p, result, alone) ==
  [op |-> op, path |-> p, result |-> result, alone |-> alone]

Refuse(op, p, result) ==
  /\ answer' = Answer(op, p, result, ~Writing(p))
  /\ UNCHANGED <<config, fs, call, faults, settled>>
-----------------------------------------------------------------------------
(* Making a provider *)

New(c) ==
  /\ c \notin readOnly
  /\ ~made
  /\ made' = TRUE
  /\ answer' = NoAnswer
  /\ UNCHANGED <<config, dirs, link, disk, insecure, call, faults, settled>>
-----------------------------------------------------------------------------
(* Get *)

MayRead(c, p) == c \in Lax \/ link[p] \notin insecure

\* What opening the file of p for client c answers if it fails.
GetFailure(c, p) ==
  CASE made /\ Blocked(p) -> "error"
    [] made /\ ~Blocked(p) /\ IsDir(p) -> "invalidPath"
    [] made /\ p \in Files /\ ~MayRead(c, p) -> "insecure"
    [] OTHER -> "notFound"

GetFails(c, p) ==
  /\ call[c].op = "idle"
  /\ ~(made /\ p \in Files /\ MayRead(c, p))
  /\ Refuse("get", p, GetFailure(c, p))

GetOpens(c, p) ==
  /\ call[c].op = "idle"
  /\ made
  /\ p \in Files
  /\ MayRead(c, p)
  /\ call' = [call EXCEPT ![c] = [Idle EXCEPT !.op = "read", !.path = p,
                                    !.fd = link[p], !.alone = ~Writing(p)]]
  /\ answer' = NoAnswer
  /\ UNCHANGED <<config, fs, faults, settled>>

\* Text that does not parse is the answer as it stands.
GetReads(c) ==
  /\ call[c].op = "read"
  /\ answer' = Answer("get", call[c].path, disk[call[c].fd], call[c].alone)
  /\ call' = [call EXCEPT ![c] = Idle]
  /\ FilesHold(disk, link, call')
  /\ UNCHANGED <<config, made, dirs, link, faults, settled>>
-----------------------------------------------------------------------------
(* Set *)

SetFails(c, p) ==
  /\ call[c].op = "idle"
  /\ c \notin readOnly
  /\ ~made \/ Blocked(p)
  /\ Refuse("set", p, "error")

SetMakesDirs(c, p, s) ==
  /\ call[c].op = "idle"
  /\ c \notin readOnly
  /\ made
  /\ ~Blocked(p)
  /\ dirs' = dirs \cup Above(p)
  /\ call' = [Disturb(call, p) EXCEPT ![c] =
                [Idle EXCEPT !.op = "open", !.path = p, !.secret = s,
                             !.alone = ~Writing(p)]]
  /\ answer' = NoAnswer
  /\ UNCHANGED <<config, made, link, disk, insecure, faults, settled>>

\* A parent directory may have been removed since it was made.
CanCreate(p) == Above(p) \subseteq dirs /\ ~Blocked(p) /\ ~IsDir(p)

SetCannotOpen(c) ==
  LET p == call[c].path IN
  /\ call[c].op = "open"
  /\ ~CanCreate(p)
  /\ answer' = Answer("set", p, "error", call[c].alone)
  /\ call' = [call EXCEPT ![c] = Idle]
  /\ UNCHANGED <<config, fs, faults, settled>>

\* An existing file is truncated and keeps its mode, a new one is private.
SetOpens(c) ==
  LET p == call[c].path IN
  /\ call[c].op = "open"
  /\ CanCreate(p)
  /\ \E i \in IF p \in Files THEN {link[p]}
                            ELSE Inodes \ Live(link, call) :
       /\ link' = [link EXCEPT ![p] = i]
       /\ disk' = [disk EXCEPT ![i] = Truncated(@)]
       /\ call' = [call EXCEPT ![c].op = "write", ![c].fd = i]
  /\ answer' = NoAnswer
  /\ UNCHANGED <<config, made, dirs, insecure, faults, settled>>

\* The write ends the call; settled remembers it if nothing overlapped.
SetWrites(c) ==
  LET p == call[c].path
      s == call[c].secret IN
  /\ call[c].op = "write"
  /\ call' = [call EXCEPT ![c] = Idle]
  /\ \E new \in Overwritten(s, disk[call[c].fd]) :
       FilesHold([disk EXCEPT ![call[c].fd] = new], link, call')
  /\ settled' = [settled EXCEPT ![p] = IF call[c].alone THEN s ELSE Unknown]
  /\ answer' = Answer("set", p, "ok", call[c].alone)
  /\ UNCHANGED <<config, made, dirs, link, faults>>

\* The disk is full or the process dies: some of the secret is written.
SetStops(c) ==
  LET p == call[c].path IN
  /\ call[c].op = "write"
  /\ faults < MaxFaults
  /\ call' = [call EXCEPT ![c] = Idle]
  /\ \E new \in {disk[call[c].fd], Torn} :
       FilesHold([disk EXCEPT ![call[c].fd] = new], link, call')
  /\ settled' = [settled EXCEPT ![p] = Unknown]
  /\ answer' = Answer("set", p, "error", call[c].alone)
  /\ faults' = faults + 1
  /\ UNCHANGED <<config, made, dirs, link>>
-----------------------------------------------------------------------------
(* Delete *)

DeleteFails(c, p) ==
  /\ call[c].op = "idle"
  /\ c \notin readOnly
  /\ made
  /\ Blocked(p) \/ (IsDir(p) /\ ~EmptyDir(p))
  /\ Refuse("delete", p, "error")

\* An open file lives on without its name until the last reader or writer
\* closes it.
UnlinkedTree(p) ==
  [q \in Paths |-> IF q = p \/ <<p, q>> \in Inside THEN None ELSE link[q]]
Unlinked(p) == [link EXCEPT ![p] = None]

DeletesFile(c, p) ==
  /\ call[c].op = "idle"
  /\ c \notin readOnly
  /\ p \in Files
  /\ link' = Unlinked(p)
  /\ call' = Gone(Disturb(call, p), p)
  /\ FilesHold(disk, link', call)
  /\ settled' = [settled EXCEPT ![p] = IF Writing(p) THEN Unknown ELSE Absent]
  /\ answer' = Answer("delete", p, "ok", ~Writing(p))
  /\ UNCHANGED <<config, made, dirs, faults>>

DeletesNothing(c, p) ==
  /\ call[c].op = "idle"
  /\ c \notin readOnly
  /\ ~made \/ ~(Blocked(p) \/ Named(p))
  /\ call' = Disturb(call, p)
  /\ settled' = [settled EXCEPT ![p] = IF Writing(p) THEN Unknown ELSE Absent]
  /\ answer' = Answer("delete", p, "ok", ~Writing(p))
  /\ UNCHANGED <<config, fs, faults>>

\* Without an extension, Delete of a path removes an empty directory.
DeletesDir(c, p) ==
  /\ call[c].op = "idle"
  /\ c \notin readOnly
  /\ IsDir(p)
  /\ EmptyDir(p)
  /\ dirs' = dirs \ {p}
  /\ call' = Disturb(call, p)
  /\ settled' = [settled EXCEPT ![p] = IF Writing(p) THEN Unknown ELSE Absent]
  /\ answer' = Answer("delete", p, "ok", ~Writing(p))
  /\ UNCHANGED <<config, made, link, disk, insecure, faults>>
-----------------------------------------------------------------------------
(* Exists and List *)

Exists(p) ==
  CASE made /\ Blocked(p) -> "error"
    [] made /\ ~Blocked(p) /\ Named(p) -> "true"
    [] OTHER -> "false"

CallExists(c, p) ==
  /\ call[c].op = "idle"
  /\ Refuse("exists", p, Exists(p))

ListFails(c) ==
  /\ call[c].op = "idle"
  /\ ~made
  /\ answer' = Answer("list", None, "error", TRUE)
  /\ UNCHANGED <<config, fs, call, faults, settled>>

ListStarts(c) ==
  /\ call[c].op = "idle"
  /\ made
  /\ call' = [call EXCEPT ![c] = [Idle EXCEPT !.op = "list", !.todo = {Root},
                                    !.must = Files]]
  /\ answer' = NoAnswer
  /\ UNCHANGED <<config, fs, faults, settled>>

SubdirsNone(d) == {}
Subdirs(d) == Children(d) \cap dirs

\* Reading a directory yields names and further directories to read.
ListReads(c) ==
  /\ call[c].op = "list"
  /\ \E d \in call[c].todo :
       /\ d \in dirs \cup {Root}
       /\ call' = [call EXCEPT
                     ![c].todo = (@ \ {d}) \cup Subdirs(d),
                     ![c].names = @ \cup (Children(d) \cap Files)]
  /\ answer' = NoAnswer
  /\ UNCHANGED <<config, fs, faults, settled>>

\* A directory removed in the meantime makes the whole listing fail.
ListLosesDir(c) ==
  /\ call[c].op = "list"
  /\ ~(call[c].todo \subseteq dirs \cup {Root})
  /\ call' = [call EXCEPT ![c] = Idle]
  /\ answer' = Answer("list", None, "error", TRUE)
  /\ UNCHANGED <<config, fs, faults, settled>>

ListEnds(c) ==
  /\ call[c].op = "list"
  /\ call[c].todo = {}
  /\ call' = [call EXCEPT ![c] = Idle]
  /\ answer' = Answer("list", None, "names", TRUE)
  /\ UNCHANGED <<config, fs, faults, settled>>

-----------------------------------------------------------------------------
\* The process dies between two steps of a call that is not writing.
Dies(c) ==
  /\ call[c].op \in {"open", "read", "list"}
  /\ faults < MaxFaults
  /\ faults' = faults + 1
  /\ call' = [call EXCEPT ![c] = Idle]
  /\ FilesHold(disk, link, call')
  /\ answer' = NoAnswer
  /\ UNCHANGED <<config, made, dirs, link, settled>>

\* The directory may be missing, or hold secret files the user placed in it,
\* private or not.
Init ==
  /\ extension \in BOOLEAN
  /\ readOnly \in SUBSET Clients
  /\ made \in BOOLEAN
  /\ dirs = {}
  /\ \E placed \in {None} \cup {p \in Paths : made /\ Above(p) = {}},
        i \in Inodes, s \in Secrets :
       /\ link = [p \in Paths |-> IF p = placed THEN i ELSE None]
       /\ disk = [j \in Inodes |-> IF placed # None /\ j = i THEN s ELSE Empty]
       /\ insecure \in {{}, IF placed = None THEN {} ELSE {i}}
       /\ settled = [p \in Paths |-> IF p = placed THEN s ELSE Absent]
  /\ call = [c \in Clients |-> Idle]
  /\ faults = 0
  /\ answer = NoAnswer

Next ==
  \E c \in Clients :
    \/ New(c)
    \/ \E p \in Paths : GetFails(c, p) \/ GetOpens(c, p)
    \/ GetReads(c)
    \/ \E p \in Paths : SetFails(c, p)
    \/ \E p \in Paths, s \in Secrets : SetMakesDirs(c, p, s)
    \/ SetCannotOpen(c) \/ SetOpens(c) \/ SetWrites(c) \/ SetStops(c)
    \/ \E p \in Paths : \/ DeleteFails(c, p) \/ DeletesFile(c, p)
                        \/ DeletesNothing(c, p) \/ DeletesDir(c, p)
    \/ \E p \in Paths : CallExists(c, p)
    \/ ListFails(c) \/ ListStarts(c) \/ ListReads(c)
    \/ ListLosesDir(c) \/ ListEnds(c)
    \/ Dies(c)

Spec == Init /\ [][Next]_vars
-----------------------------------------------------------------------------
(* Properties *)

\* A path that calls left alone holds on disk exactly what the last of them
\* put there: neither a call on another path, nor a directory, nor a write to
\* a file that lost its name can reach it.
SettledOnDisk ==
  \A p \in Paths : settled[p] # Unknown /\ ~Writing(p) =>
    IF settled[p] = Absent THEN p \notin Files
                           ELSE p \in Files /\ disk[link[p]] = settled[p]

\* A Get that no change to its path overlaps answers with the last secret
\* set, unless the file is readable by others, and never with a secret that
\* was deleted, whatever happens to other paths in the meantime.  With an
\* extension, where directories are no secrets, Exists answers accordingly.
Undisturbed(op) ==
  answer.op = op /\ answer.alone /\ settled[answer.path] # Unknown

SettledReads ==
  /\ Undisturbed("get") =>
       IF settled[answer.path] = Absent
       THEN answer.result \in {"notFound", "invalidPath", "error"}
       ELSE answer.result \in {settled[answer.path], "insecure"}
  /\ Undisturbed("exists") /\ extension =>
       answer.result = IF settled[answer.path] = Absent THEN "false" ELSE "true"

\* A listing shows every secret that was there all the time it took, however
\* the directories change around it.
ListIsComplete ==
  [][\A c \in Clients :
       (call[c].op = "list" /\ call'[c].op = "idle"
          /\ answer'.result = "names") =>
         call[c].must \subseteq call[c].names]_vars
=============================================================================
