-------------------------- MODULE FileVault_proofs --------------------------
(***************************************************************************)
(* What the file provider keeps, for any number of clients, paths nested   *)
(* in any way, files and faults.                                           *)
(***************************************************************************)
EXTENDS FileVault, TLAPS

\* The call of c may change path p.
Writes(c, p) == call[c].op \in {"open", "write"} /\ call[c].path = p

\* A call knows its path, its secret and its file from the step that needs
\* them on.
CallsFormed ==
  \A c \in Clients :
    /\ call[c].op \in {"open", "write", "read"} => call[c].path \in Paths
    /\ call[c].op \in {"open", "write"} => call[c].secret \in Secrets /\ made
    /\ call[c].op \in {"write", "read"} => call[c].fd \in Inodes

\* A file has its parent directories, and where names are shared it has not
\* the name of a directory.
Tree ==
  /\ \A p \in Paths : link[p] # None => made /\ Above(p) \subseteq dirs
  /\ ~extension => \A p \in dirs : link[p] = None

\* No two paths name the same file, and a writer's file, if it has a name
\* left, has that of the writer's path.
LinksApart ==
  \A p, q \in Paths : link[p] # None /\ link[p] = link[q] => p = q

HandlesApart ==
  \A c \in Clients : \A q \in Paths :
    call[c].op = "write" /\ link[q] = call[c].fd => q = call[c].path

\* A call on a path that overlaps no other change of it is the only one that
\* may change it, works on the file that has its name, and has found it empty
\* if it writes.
AloneOn(c) ==
  /\ call[c].op \in {"open", "write", "read"} =>
       \A d \in Clients : d # c => ~Writes(d, call[c].path)
  /\ call[c].op \in {"write", "read"} => link[call[c].path] = call[c].fd
  /\ call[c].op = "write" => disk[call[c].fd] = Empty

AloneIsAlone == \A c \in Clients : call[c].alone => AloneOn(c)

\* Where no call has begun to write, what is settled is on disk: a call that
\* gives up before it opens the file has changed nothing.
Kept(p) ==
  IF settled[p] = Absent THEN link[p] = None
                         ELSE link[p] # None /\ disk[link[p]] = settled[p]

UnwrittenOnDisk ==
  \A p \in Paths :
    (/\ settled[p] # Unknown
     /\ \A c \in Clients : ~(call[c].op = "write" /\ call[c].path = p))
    => Kept(p)

\* What a listing must still show lies in a directory it has yet to read.
Listed(c) ==
  /\ \A p \in call[c].must : link[p] # None
  /\ \A p \in call[c].must \ call[c].names :
       \E d \in call[c].todo : d \in Above(p) \cup {Root}

ListingsGoOn == \A c \in Clients : call[c].op = "list" => Listed(c)

Inv ==
  /\ TypeOK /\ CallsFormed
  /\ Tree /\ LinksApart /\ HandlesApart /\ AloneIsAlone
  /\ UnwrittenOnDisk /\ ListingsGoOn
-----------------------------------------------------------------------------
(* Calls *)

\* A call after one of its parts is set.
LEMMA AloneSet ==
  ASSUME NEW x \in Calls, NEW b \in BOOLEAN
  PROVE  /\ [x EXCEPT !.alone = b] \in Calls
         /\ [x EXCEPT !.alone = b] =
              [op |-> x.op, path |-> x.path, secret |-> x.secret, fd |-> x.fd,
               todo |-> x.todo, names |-> x.names, must |-> x.must, alone |-> b]
BY DEF Calls

LEMMA MustSet ==
  ASSUME NEW x \in Calls, NEW m \in SUBSET Paths
  PROVE  /\ [x EXCEPT !.must = m] \in Calls
         /\ [x EXCEPT !.must = m] =
              [op |-> x.op, path |-> x.path, secret |-> x.secret, fd |-> x.fd,
               todo |-> x.todo, names |-> x.names, must |-> m, alone |-> x.alone]
BY DEF Calls

LEMMA IdleCall == Idle \in Calls
BY DEF Idle, Calls

\* Disturbing a path changes nothing but whether its calls are alone.
LEMMA Disturbed ==
  ASSUME TypeOK, NEW p \in Paths
  PROVE  /\ Disturb(call, p) \in [Clients -> Calls]
         /\ \A c \in Clients :
              LET x == Disturb(call, p)[c] IN
              /\ x.op = call[c].op /\ x.path = call[c].path
              /\ x.secret = call[c].secret /\ x.fd = call[c].fd
              /\ x.todo = call[c].todo /\ x.names = call[c].names
              /\ x.must = call[c].must
              /\ x.alone = (call[c].alone /\ call[c].path # p)
<1> SUFFICES ASSUME NEW c \in Clients
             PROVE  LET x == Disturb(call, p)[c] IN
                    /\ x \in Calls
                    /\ x.op = call[c].op /\ x.path = call[c].path
                    /\ x.secret = call[c].secret /\ x.fd = call[c].fd
                    /\ x.todo = call[c].todo /\ x.names = call[c].names
                    /\ x.must = call[c].must
                    /\ x.alone = (call[c].alone /\ call[c].path # p)
  BY DEF Disturb
<1>1. call[c] \in Calls /\ call[c].alone \in BOOLEAN
  BY DEF TypeOK, Calls
<1>2. CASE call[c].path = p
  <2>1. Disturb(call, p)[c] = [call[c] EXCEPT !.alone = FALSE]
    BY <1>2 DEF Disturb
  <2>2. (call[c].alone /\ call[c].path # p) = FALSE
    BY <1>2
  <2>3. /\ Disturb(call, p)[c] \in Calls
        /\ Disturb(call, p)[c] =
             [op |-> call[c].op, path |-> call[c].path,
              secret |-> call[c].secret, fd |-> call[c].fd,
              todo |-> call[c].todo, names |-> call[c].names,
              must |-> call[c].must, alone |-> FALSE]
    BY <1>1, <2>1, AloneSet
  <2>4. LET x == Disturb(call, p)[c] IN
        /\ x.op = call[c].op /\ x.path = call[c].path
        /\ x.secret = call[c].secret /\ x.fd = call[c].fd
        /\ x.todo = call[c].todo /\ x.names = call[c].names
        /\ x.must = call[c].must
        /\ x.alone = FALSE
    BY <2>3
  <2>5. Disturb(call, p)[c].alone = (call[c].alone /\ call[c].path # p)
    BY <2>2, <2>4, Zenon
  <2>. QED  BY <2>3, <2>4, <2>5, Zenon
<1>3. CASE call[c].path # p
  <2>1. Disturb(call, p)[c] = call[c]
    BY <1>3 DEF Disturb
  <2>. QED  BY <1>1, <1>3, <2>1
<1>. QED  BY <1>2, <1>3
-----------------------------------------------------------------------------
(* Steps that write nothing *)

\* A call that begins, goes on or ends without writing, while files that have
\* a name or are in use stay as they are.
LEMMA QuietKeeps ==
  ASSUME Inv, NEW c \in Clients, NEW x \in Calls,
         call' = [call EXCEPT ![c] = x],
         UNCHANGED <<config, made, dirs, link, settled>>,
         faults' \in 0 .. MaxFaults,
         disk' \in [Inodes -> Contents], insecure' \subseteq Inodes,
         \A i \in Live(link, call') : disk'[i] = disk[i],
         call[c].op # "write", x.op \in {"idle", "read", "list"},
         x.op = "read" => /\ x.path \in Paths /\ x.fd \in Inodes
                          /\ x.fd = link[x.path]
                          /\ x.alone => \A d \in Clients : ~Writes(d, x.path),
         x.op = "list" =>
           /\ \A p \in x.must : link[p] # None
           /\ \A p \in x.must \ x.names :
                \E d \in x.todo : d \in Above(p) \cup {Root}
  PROVE  Inv'
<1>1. call'[c] = x /\ \A d \in Clients : d # c => call'[d] = call[d]
  BY DEF Inv, TypeOK
<1>2. TypeOK'
  BY DEF Inv, TypeOK, config
<1>3. CallsFormed'
  BY <1>1 DEF Inv, CallsFormed
<1>4. Tree' /\ LinksApart'
  BY DEF Inv, Tree, LinksApart, config, Above
<1>5. HandlesApart'
  BY <1>1 DEF Inv, HandlesApart
<1>6. ASSUME NEW d \in Clients, call'[d].alone
      PROVE  AloneOn(d)'
  <2>1. CASE d = c
    BY <1>1, <1>6, <2>1 DEF AloneOn, Writes
  <2>2. CASE d # c
    <3>1. AloneOn(d) /\ call'[d] = call[d]
      BY <1>1, <1>6, <2>2 DEF Inv, AloneIsAlone
    <3>2. call[d].op = "write" => disk'[call[d].fd] = disk[call[d].fd]
      <4>1. call[d].op = "write" => call'[d].fd \in Live(link, call')
        BY <3>1, FileVaultConstants DEF Inv, CallsFormed, Live, Held
      <4>. QED  BY <3>1, <4>1
    <3>3. \A e \in Clients : \A p : Writes(e, p)' => Writes(e, p)
      BY <1>1 DEF Writes
    <3>. QED  BY <3>1, <3>2, <3>3 DEF AloneOn
  <2>. QED  BY <2>1, <2>2
<1>7. UnwrittenOnDisk'
  <2> SUFFICES ASSUME NEW p \in Paths, settled[p] # Unknown,
                      \A d \in Clients :
                        ~(call'[d].op = "write" /\ call'[d].path = p)
               PROVE  Kept(p)'
    BY DEF UnwrittenOnDisk
  <2>1. Kept(p)
    BY <1>1 DEF Inv, UnwrittenOnDisk
  <2>2. link[p] # None => disk'[link[p]] = disk[link[p]]
    BY DEF Live
  <2>. QED  BY <2>1, <2>2 DEF Kept
<1>8. ListingsGoOn'
  BY <1>1 DEF Inv, ListingsGoOn, Listed, Above
<1>. QED
  BY <1>2, <1>3, <1>4, <1>5, <1>6, <1>7, <1>8 DEF Inv, AloneIsAlone
-----------------------------------------------------------------------------
(* Delete *)

\* Calls after path p is removed under them.
Disturbing(p) ==
  /\ call' \in [Clients -> Calls]
  /\ \A c \in Clients :
       /\ call'[c].op = call[c].op /\ call'[c].path = call[c].path
       /\ call'[c].secret = call[c].secret /\ call'[c].fd = call[c].fd
       /\ call'[c].todo = call[c].todo /\ call'[c].names = call[c].names
       /\ call[c].op = "list" => call'[c].must \subseteq call[c].must \ {p}
       /\ call'[c].alone => call[c].alone /\ call[c].path # p

\* After a path lost its file, or had none, and calls on it are disturbed.
LEMMA RemovalKeeps ==
  ASSUME Inv, NEW p \in Paths,
         Disturbing(p),
         link' \in [Paths -> Inodes \cup {None}],
         link'[p] = None, \A q \in Paths \ {p} : link'[q] = link[q],
         dirs' \subseteq dirs,
         \A q \in Paths : link'[q] # None => Above(q) \subseteq dirs',
         disk' \in [Inodes -> Contents], insecure' \subseteq Inodes,
         \A q \in Paths : link'[q] # None => disk'[link'[q]] = disk[link'[q]],
         settled' = [settled EXCEPT ![p] = IF Writing(p) THEN Unknown ELSE Absent],
         UNCHANGED <<config, made, faults>>
  PROVE  Inv'
<1>1. TypeOK'
  BY DEF Inv, TypeOK, config, Disturbing
<1>2. CallsFormed'
  BY DEF Inv, CallsFormed, Disturbing
<1>3. \A q \in Paths : link'[q] # None => q # p /\ link'[q] = link[q]
  OBVIOUS
<1>4. Tree'
  BY <1>3 DEF Inv, Tree, Above, config, TypeOK
<1>5. LinksApart'
  BY <1>3 DEF Inv, LinksApart
<1>6. HandlesApart'
  <2> SUFFICES ASSUME NEW c \in Clients, NEW q \in Paths,
                      call'[c].op = "write", link'[q] = call'[c].fd
               PROVE  q = call'[c].path
    BY DEF HandlesApart
  <2>1. call[c].op = "write" /\ call[c].fd = call'[c].fd /\ call[c].fd # None
    BY FileVaultConstants DEF Inv, CallsFormed, Disturbing
  <2>. QED  BY <1>3, <2>1 DEF Inv, HandlesApart, Disturbing
<1>7. ASSUME NEW c \in Clients, call'[c].alone
      PROVE  AloneOn(c)'
  <2>1. AloneOn(c) /\ call[c].path # p
    BY <1>7 DEF Inv, AloneIsAlone, Disturbing
  <2>2. \A d \in Clients : \A q : Writes(d, q)' <=> Writes(d, q)
    BY DEF Writes, Disturbing
  <2>3. call[c].op \in {"write", "read"} =>
          link'[call[c].path] = call[c].fd /\ call[c].fd # None
    BY <2>1, FileVaultConstants DEF AloneOn, Inv, CallsFormed
  <2>4. call[c].op = "write" => disk'[call[c].fd] = disk[call[c].fd]
    BY <2>3 DEF Inv, CallsFormed
  <2>. QED  BY <2>1, <2>2, <2>3, <2>4 DEF AloneOn, Disturbing
<1>8. UnwrittenOnDisk'
  <2> SUFFICES ASSUME NEW q \in Paths, settled'[q] # Unknown,
                      \A c \in Clients :
                        ~(call'[c].op = "write" /\ call'[c].path = q)
               PROVE  Kept(q)'
    BY DEF UnwrittenOnDisk
  <2>1. CASE q = p
    BY <2>1 DEF Kept, Inv, TypeOK
  <2>2. CASE q # p
    <3>1. settled'[q] = settled[q] /\ Kept(q) /\ link'[q] = link[q]
      BY <2>2 DEF Inv, TypeOK, UnwrittenOnDisk, Disturbing
    <3>. QED  BY <3>1 DEF Kept
  <2>. QED  BY <2>1, <2>2
<1>9. ListingsGoOn'
  <2> SUFFICES ASSUME NEW c \in Clients, call'[c].op = "list"
               PROVE  Listed(c)'
    BY DEF ListingsGoOn
  <2>1. Listed(c) /\ call'[c].must \subseteq call[c].must \ {p}
    BY DEF Inv, ListingsGoOn, Disturbing
  <2>2. call[c].must \subseteq Paths
    BY DEF Inv, TypeOK, Calls
  <2>3. call'[c].todo = call[c].todo /\ call'[c].names = call[c].names
    BY DEF Disturbing
  <2>. QED  BY <2>1, <2>2, <2>3 DEF Listed, Above
<1>. QED
  BY <1>1, <1>2, <1>4, <1>5, <1>6, <1>7, <1>8, <1>9 DEF Inv, AloneIsAlone

LEMMA DeletesFileKeeps ==
  ASSUME Inv, NEW c \in Clients, NEW p \in Paths, DeletesFile(c, p)
  PROVE  Inv'
<1>1. ASSUME NEW d \in Clients
      PROVE  /\ call'[d] \in Calls
             /\ call'[d].op = call[d].op /\ call'[d].path = call[d].path
             /\ call'[d].secret = call[d].secret /\ call'[d].fd = call[d].fd
             /\ call'[d].todo = call[d].todo /\ call'[d].names = call[d].names
             /\ call'[d].must \subseteq call[d].must \ {p}
             /\ call'[d].alone => call[d].alone /\ call[d].path # p
  <2> DEFINE x == Disturb(call, p)[d]
  <2> DEFINE m == x.must \ {p}
  <2>1. /\ x \in Calls
        /\ x.op = call[d].op /\ x.path = call[d].path
        /\ x.secret = call[d].secret /\ x.fd = call[d].fd
        /\ x.todo = call[d].todo /\ x.names = call[d].names
        /\ x.must = call[d].must
        /\ x.alone => call[d].alone /\ call[d].path # p
    BY Disturbed DEF Inv
  <2>2. call'[d] = [x EXCEPT !.must = m]
    BY DEF DeletesFile, Gone
  <2>3. m \in SUBSET Paths /\ m = call[d].must \ {p}
    BY <2>1 DEF Calls
  <2> HIDE DEF x, m
  <2>4. /\ call'[d] \in Calls
        /\ call'[d] =
             [op |-> x.op, path |-> x.path, secret |-> x.secret, fd |-> x.fd,
              todo |-> x.todo, names |-> x.names, must |-> m,
              alone |-> x.alone]
    BY <2>1, <2>2, <2>3, MustSet
  <2>. QED  BY <2>1, <2>3, <2>4
<1>2. call' \in [Clients -> Calls]
  BY <1>1 DEF DeletesFile, Gone
<1>7. Disturbing(p)
  BY <1>1, <1>2 DEF Disturbing
<1>3. /\ link' \in [Paths -> Inodes \cup {None}]
      /\ link'[p] = None /\ \A q \in Paths \ {p} : link'[q] = link[q]
  BY DEF DeletesFile, Unlinked, Inv, TypeOK
<1>4. /\ disk' \in [Inodes -> Contents] /\ insecure' \subseteq Inodes
      /\ \A q \in Paths : link'[q] # None => disk'[link'[q]] = disk[link'[q]]
  BY <1>3 DEF DeletesFile, FilesHold, Live, Contents, Inv, TypeOK
<1>5. \A q \in Paths : link'[q] # None => Above(q) \subseteq dirs'
  BY <1>3 DEF DeletesFile, Inv, Tree
<1>. QED
  BY <1>3, <1>4, <1>5, <1>7, RemovalKeeps DEF DeletesFile

LEMMA DeletesNothingKeeps ==
  ASSUME Inv, NEW c \in Clients, NEW p \in Paths, DeletesNothing(c, p)
  PROVE  Inv'
<1>1. link[p] = None
  BY DEF DeletesNothing, Named, Files, Inv, Tree
<1>2. \A d \in Clients : call[d].op = "list" => p \notin call[d].must
  BY <1>1 DEF Inv, ListingsGoOn, Listed
<1>4. Disturbing(p)
  BY <1>2, Disturbed DEF Disturbing, DeletesNothing, Inv
<1>. QED
  BY <1>1, <1>4, RemovalKeeps DEF DeletesNothing, Inv, TypeOK, Tree, config, fs

LEMMA DeletesDirKeeps ==
  ASSUME Inv, NEW c \in Clients, NEW p \in Paths, DeletesDir(c, p)
  PROVE  Inv'
<1>1. link[p] = None
  BY DEF DeletesDir, IsDir, Inv, Tree
<1>2. \A d \in Clients : call[d].op = "list" => p \notin call[d].must
  BY <1>1 DEF Inv, ListingsGoOn, Listed
<1>3. \A q \in Paths : link[q] # None => Above(q) \subseteq dirs \ {p}
  BY DEF DeletesDir, EmptyDir, Files, Above, Inv, Tree
<1>4. Disturbing(p)
  BY <1>2, Disturbed DEF Disturbing, DeletesDir, Inv
<1>. QED
  BY <1>1, <1>3, <1>4, RemovalKeeps DEF DeletesDir, Inv, TypeOK
-----------------------------------------------------------------------------
(* Set *)

LEMMA SetMakesDirsKeeps ==
  ASSUME Inv, NEW c \in Clients, NEW p \in Paths, NEW s \in Secrets,
         SetMakesDirs(c, p, s)
  PROVE  Inv'
<1> DEFINE new == [Idle EXCEPT !.op = "open", !.path = p, !.secret = s,
                               !.alone = ~Writing(p)]
<1>1. /\ new \in Calls
      /\ new.op = "open" /\ new.path = p /\ new.secret = s
      /\ new.alone => ~Writing(p)
  BY DEF Idle, Calls
<1>2. call' = [Disturb(call, p) EXCEPT ![c] = new] /\ call[c].op = "idle"
  BY DEF SetMakesDirs
<1> HIDE DEF new
<1>3. /\ call'[c] = new
      /\ \A d \in Clients \ {c} :
           /\ call'[d] \in Calls
           /\ call'[d].op = call[d].op /\ call'[d].path = call[d].path
           /\ call'[d].secret = call[d].secret /\ call'[d].fd = call[d].fd
           /\ call'[d].todo = call[d].todo /\ call'[d].names = call[d].names
           /\ call'[d].must = call[d].must
           /\ call'[d].alone => call[d].alone /\ call[d].path # p
  BY <1>2, Disturbed DEF Inv
<1>4. /\ made /\ dirs' = dirs \cup Above(p)
      /\ ~extension => \A d \in Above(p) : link[d] = None
      /\ UNCHANGED <<extension, readOnly, made, link, disk, insecure, faults,
                     settled>>
  BY DEF SetMakesDirs, Blocked, Files, Above, config
<1>5. TypeOK'
  <2>1. call' \in [Clients -> Calls]
    BY <1>1, <1>2, <1>3, Disturbed DEF Inv
  <2>. QED  BY <1>4, <2>1 DEF Inv, TypeOK, Above
<1>6. CallsFormed'
  BY <1>1, <1>3, <1>4 DEF Inv, CallsFormed
<1>7. Tree' /\ LinksApart'
  BY <1>4 DEF Inv, Tree, LinksApart, Above
<1>8. HandlesApart'
  BY <1>1, <1>3, <1>4 DEF Inv, HandlesApart
<1>9. ASSUME NEW d \in Clients, call'[d].alone
      PROVE  AloneOn(d)'
  <2>1. CASE d = c
    BY <1>1, <1>3, <1>9, <2>1 DEF AloneOn, Writes, Writing
  <2>2. CASE d # c
    <3>1. AloneOn(d) /\ call[d].path # p
      BY <1>3, <1>9, <2>2 DEF Inv, AloneIsAlone
    <3>2. \A e \in Clients : Writes(e, call[d].path)' => Writes(e, call[d].path)
      BY <1>1, <1>3, <2>2, <3>1 DEF Writes
    <3>. QED  BY <1>3, <1>4, <2>2, <3>1, <3>2 DEF AloneOn
  <2>. QED  BY <2>1, <2>2
<1>10. UnwrittenOnDisk'
  BY <1>1, <1>2, <1>3, <1>4 DEF Inv, UnwrittenOnDisk, Kept
<1>11. ListingsGoOn'
  BY <1>1, <1>3, <1>4 DEF Inv, ListingsGoOn, Listed, Above
<1>. QED
  BY <1>5, <1>6, <1>7, <1>8, <1>9, <1>10, <1>11 DEF Inv, AloneIsAlone

LEMMA SetOpensKeeps ==
  ASSUME Inv, NEW c \in Clients, SetOpens(c)
  PROVE  Inv'
<1> DEFINE p == call[c].path
<1>1. PICK i \in IF p \in Files THEN {link[p]} ELSE Inodes \ Live(link, call) :
        /\ link' = [link EXCEPT ![p] = i]
        /\ disk' = [disk EXCEPT ![i] = Empty]
        /\ call' = [call EXCEPT ![c].op = "write", ![c].fd = i]
  BY DEF SetOpens, Truncated
<1>2. /\ call[c].op = "open" /\ p \in Paths /\ made /\ call[c].secret \in Secrets
      /\ Above(p) \subseteq dirs /\ (~extension => p \notin dirs)
      /\ UNCHANGED <<extension, readOnly, made, dirs, insecure, faults, settled>>
  BY DEF SetOpens, CanCreate, IsDir, Inv, CallsFormed, config
<1>3. i \in Inodes /\ (i = link[p] \/ i \notin Live(link, call))
  BY <1>1, <1>2 DEF Files, Inv, TypeOK
<1>4. \A q \in Paths \ {p} : link'[q] = link[q] /\ link[q] # i
  BY <1>1, <1>2, <1>3, FileVaultConstants DEF Inv, TypeOK, LinksApart, Live
<1>5. link'[p] = i /\ i # None
  BY <1>1, <1>2, <1>3, FileVaultConstants DEF Inv, TypeOK
<1> DEFINE x == call[c]
<1> DEFINE new == [x EXCEPT !.op = "write", !.fd = i]
<1>6. new = [op |-> "write", path |-> x.path, secret |-> x.secret, fd |-> i,
             todo |-> x.todo, names |-> x.names, must |-> x.must,
             alone |-> x.alone]
      /\ new \in Calls
  <2>1. x \in Calls
    BY DEF Inv, TypeOK
  <2>2. new = [x EXCEPT !.op = "write", !.fd = i]
    OBVIOUS
  <2> HIDE DEF x, new
  <2>3. new = [op |-> "write", path |-> x.path, secret |-> x.secret, fd |-> i,
               todo |-> x.todo, names |-> x.names, must |-> x.must,
               alone |-> x.alone]
    BY <2>1, <2>2 DEF Calls
  <2>. QED  BY <1>3, <2>1, <2>3 DEF Calls
<1>7. call' = [call EXCEPT ![c] = new]
  BY <1>1 DEF Inv, TypeOK
<1> HIDE DEF new, x
<1>8. /\ call'[c] = new /\ \A d \in Clients \ {c} : call'[d] = call[d]
      /\ call' \in [Clients -> Calls]
      /\ new.op = "write" /\ new.path = p /\ new.fd = i
      /\ new.secret = call[c].secret /\ new.alone = call[c].alone
  BY <1>6, <1>7 DEF Inv, TypeOK, x
<1> HIDE DEF p
<1>9. \A d \in Clients \ {c} :
        call[d].op = "write" => call[d].fd \in Live(link, call) /\ call[d].fd # None
  BY FileVaultConstants DEF Inv, CallsFormed, Live, Held
<1>10. TypeOK'
  BY <1>1, <1>2, <1>3, <1>8 DEF Inv, TypeOK, Contents
<1>11. CallsFormed'
  BY <1>2, <1>3, <1>8 DEF Inv, CallsFormed
<1>12. Tree'
  BY <1>2, <1>4, <1>5 DEF Inv, Tree, Above, TypeOK
<1>13. LinksApart'
  BY <1>4, <1>5 DEF Inv, LinksApart
<1>14. HandlesApart'
  <2> SUFFICES ASSUME NEW d \in Clients, NEW q \in Paths,
                      call'[d].op = "write", link'[q] = call'[d].fd
               PROVE  q = call'[d].path
    BY DEF HandlesApart
  <2>1. CASE d = c
    BY <1>4, <1>8, <2>1
  <2>2. CASE d # c
    BY <1>3, <1>4, <1>5, <1>8, <1>9, <2>2 DEF Inv, HandlesApart
  <2>. QED  BY <2>1, <2>2
<1>15. ASSUME NEW d \in Clients, call'[d].alone
       PROVE  AloneOn(d)'
  <2>0. AloneOn(d)
    BY <1>8, <1>15 DEF Inv, AloneIsAlone
  <2>1. \A e \in Clients, q \in Paths : Writes(e, q)' => Writes(e, q)
    BY <1>2, <1>8 DEF Writes, p
  <2>2. CASE d = c
    <3>1. disk'[i] = Empty
      BY <1>1, <1>3 DEF Inv, TypeOK
    <3>2. \A e \in Clients \ {c} : ~Writes(e, p)
      BY <1>2, <2>0, <2>2 DEF AloneOn, p
    <3>. QED  BY <1>2, <1>5, <1>8, <2>1, <2>2, <3>1, <3>2 DEF AloneOn
  <2>3. CASE d # c
    <3>1. call[d].op \in {"open", "write", "read"} =>
            call[d].path \in Paths \ {p}
      BY <1>2, <2>0, <2>3 DEF AloneOn, Writes, p, Inv, CallsFormed
    <3>2. call[d].op = "write" => disk'[call[d].fd] = Empty
      BY <1>1, <1>3, <2>0 DEF AloneOn, Inv, TypeOK, CallsFormed
    <3>. QED  BY <1>4, <1>8, <2>0, <2>1, <2>3, <3>1, <3>2 DEF AloneOn
  <2>. QED  BY <2>2, <2>3
<1>16. UnwrittenOnDisk'
  <2> SUFFICES ASSUME NEW q \in Paths, settled[q] # Unknown,
                      \A d \in Clients :
                        ~(call'[d].op = "write" /\ call'[d].path = q)
               PROVE  Kept(q)'
    BY <1>2 DEF UnwrittenOnDisk
  <2>1. q # p
    BY <1>8
  <2>2. Kept(q)
    BY <1>2, <1>8 DEF Inv, UnwrittenOnDisk
  <2>3. link[q] # None => disk'[link[q]] = disk[link[q]]
    BY <1>1, <1>4, <2>1 DEF Inv, TypeOK
  <2>. QED  BY <1>2, <1>4, <2>1, <2>2, <2>3 DEF Kept
<1>17. ListingsGoOn'
  <2>1. \A q \in Paths : link[q] # None => link'[q] # None
    BY <1>4, <1>5
  <2>2. \A d \in Clients : call[d].must \subseteq Paths
    BY DEF Inv, TypeOK, Calls
  <2>. QED  BY <1>8, <2>1, <2>2 DEF Inv, ListingsGoOn, Listed, Above
<1>. QED
  BY <1>10, <1>11, <1>12, <1>13, <1>14, <1>15, <1>16, <1>17
     DEF Inv, AloneIsAlone

\* A write that ends leaves something in its file.  Where the path counts as
\* settled then, it was alone and wrote all of it.
LEMMA WriteEndsKeeps ==
  ASSUME Inv, NEW c \in Clients, NEW new \in Contents,
         NEW v \in Secrets \cup {Unknown},
         call[c].op = "write",
         call' = [call EXCEPT ![c] = Idle],
         FilesHold([disk EXCEPT ![call[c].fd] = new], link, call'),
         settled' = [settled EXCEPT ![call[c].path] = v],
         v # Unknown => v \in Secrets /\ new = v /\ call[c].alone,
         faults' \in 0 .. MaxFaults,
         UNCHANGED <<config, made, dirs, link>>
  PROVE  Inv'
<1> DEFINE p == call[c].path
<1> DEFINE f == call[c].fd
<1>1. /\ p \in Paths /\ f \in Inodes
      /\ \A q \in Paths : link[q] = f => q = p
  BY DEF Inv, CallsFormed, HandlesApart
<1>2. /\ call'[c] = Idle /\ Idle.op = "idle" /\ ~Idle.alone
      /\ \A d \in Clients \ {c} : call'[d] = call[d]
  BY DEF Inv, TypeOK, Idle
<1>3. \A i \in Live(link, call') \ {None} :
        i \in Inodes => disk'[i] = IF i = f THEN new ELSE disk[i]
  BY DEF FilesHold, Inv, TypeOK
<1>4. TypeOK'
  <2>1. disk' \in [Inodes -> Contents] /\ insecure' \subseteq Inodes
    BY <1>1 DEF FilesHold, Contents, Inv, TypeOK
  <2>2. call' \in [Clients -> Calls]
    BY IdleCall DEF Inv, TypeOK
  <2>3. settled' \in [Paths -> Secrets \cup {Absent, Unknown}]
    BY DEF Inv, TypeOK
  <2>. QED  BY <2>1, <2>2, <2>3 DEF Inv, TypeOK, config
<1> HIDE DEF p, f
<1>5. CallsFormed'
  BY <1>2 DEF Inv, CallsFormed
<1>6. Tree' /\ LinksApart'
  BY DEF Inv, Tree, LinksApart, Above, config
<1>7. HandlesApart'
  BY <1>2 DEF Inv, HandlesApart
<1>8. ASSUME NEW d \in Clients, call'[d].alone
      PROVE  AloneOn(d)'
  <2>1. d # c /\ call'[d] = call[d] /\ AloneOn(d)
    BY <1>2, <1>8 DEF Inv, AloneIsAlone
  <2>2. \A e \in Clients : \A q : Writes(e, q)' => Writes(e, q)
    BY <1>2 DEF Writes
  <2>3. call[d].op = "write" => disk'[call[d].fd] = Empty
    <3> SUFFICES ASSUME call[d].op = "write"
                 PROVE  disk'[call[d].fd] = Empty
      OBVIOUS
    <3>1. call[d].fd \in Inodes /\ call[d].fd # None
      BY FileVaultConstants DEF Inv, CallsFormed
    <3>2. call[d].fd \in Live(link, call')
      BY <2>1, <3>1 DEF Live, Held
    <3>3. call[d].path \in Paths /\ call[d].path # p
      BY <2>1 DEF AloneOn, Writes, p, Inv, CallsFormed
    <3>4. call[d].fd # f
      BY <1>1, <2>1, <3>3 DEF AloneOn
    <3>. QED  BY <1>3, <2>1, <3>1, <3>2, <3>4 DEF AloneOn
  <2>. QED  BY <2>1, <2>2, <2>3 DEF AloneOn
<1>9. UnwrittenOnDisk'
  <2> SUFFICES ASSUME NEW q \in Paths, settled'[q] # Unknown,
                      \A d \in Clients :
                        ~(call'[d].op = "write" /\ call'[d].path = q)
               PROVE  Kept(q)'
    BY DEF UnwrittenOnDisk
  <2>1. link[q] # None =>
          disk'[link[q]] = IF link[q] = f THEN new ELSE disk[link[q]]
    BY <1>3 DEF Live, Inv, TypeOK
  <2>2. CASE q = p
    <3>1. settled'[q] = v /\ v # Absent /\ new = v /\ call[c].alone
      BY <1>1, <2>2, FileVaultConstants DEF Inv, TypeOK, p, Unknown, Absent
    <3>2. link[q] = f
      BY <2>2, <3>1 DEF Inv, AloneIsAlone, AloneOn, p, f
    <3>3. f # None
      BY <1>1, FileVaultConstants
    <3>. QED  BY <2>1, <3>1, <3>2, <3>3 DEF Kept
  <2>3. CASE q # p
    <3>1. settled'[q] = settled[q]
      BY <2>3 DEF Inv, TypeOK, p
    <3>2. \A d \in Clients : ~(call[d].op = "write" /\ call[d].path = q)
      BY <1>2, <2>3 DEF p
    <3>3. Kept(q) /\ link[q] # f
      BY <1>1, <2>3, <3>1, <3>2 DEF Inv, UnwrittenOnDisk
    <3>. QED  BY <2>1, <3>1, <3>3 DEF Kept
  <2>. QED  BY <2>2, <2>3
<1>10. ListingsGoOn'
  BY <1>2 DEF Inv, ListingsGoOn, Listed, Above
<1>. QED
  BY <1>4, <1>5, <1>6, <1>7, <1>8, <1>9, <1>10 DEF Inv, AloneIsAlone

LEMMA SetWritesKeeps ==
  ASSUME Inv, NEW c \in Clients, SetWrites(c)
  PROVE  Inv'
<1> DEFINE s == call[c].secret
<1> DEFINE f == call[c].fd
<1>1. PICK new \in Overwritten(s, disk[f]) :
        FilesHold([disk EXCEPT ![f] = new], link, call')
  BY DEF SetWrites
<1>2. s \in Secrets /\ f \in Inodes
  BY DEF SetWrites, Inv, CallsFormed
<1>3. new \in Contents
  BY <1>1, <1>2 DEF Overwritten, Contents
<1>4. call[c].alone => new = s
  <2>1. call[c].alone => disk[f] = Empty
    BY DEF SetWrites, Inv, AloneIsAlone, AloneOn
  <2>. QED  BY <1>1, <2>1 DEF Overwritten
<1> DEFINE v == IF call[c].alone THEN s ELSE Unknown
<1>5. /\ v \in Secrets \cup {Unknown}
      /\ v # Unknown => v \in Secrets /\ new = v /\ call[c].alone
  BY <1>2, <1>4
<1>6. settled' = [settled EXCEPT ![call[c].path] = v]
  BY DEF SetWrites
<1> HIDE DEF v
<1>. QED
  BY <1>1, <1>3, <1>5, <1>6, WriteEndsKeeps DEF SetWrites, Inv, TypeOK

LEMMA SetStopsKeeps ==
  ASSUME Inv, NEW c \in Clients, SetStops(c)
  PROVE  Inv'
<1> DEFINE f == call[c].fd
<1>1. PICK new \in {disk[f], Torn} :
        FilesHold([disk EXCEPT ![f] = new], link, call')
  BY DEF SetStops
<1>2. new \in Contents
  BY <1>1 DEF SetStops, Inv, CallsFormed, TypeOK, Contents
<1>3. faults' \in 0 .. MaxFaults
  BY FileVaultConstants DEF SetStops, Inv, TypeOK
<1>. QED
  BY <1>1, <1>2, <1>3, WriteEndsKeeps DEF SetStops
-----------------------------------------------------------------------------
(* Get, List and the rest *)

LEMMA IdleParts ==
  /\ Idle \in Calls /\ Idle.op = "idle" /\ ~Idle.alone
BY IdleCall DEF Idle

\* A step that gives up the files of a call that was not writing.
LEMMA ClosesKeeps ==
  ASSUME Inv, NEW c \in Clients, call[c].op # "write",
         call' = [call EXCEPT ![c] = Idle],
         FilesHold(disk, link, call') \/ UNCHANGED <<disk, insecure>>,
         faults' \in 0 .. MaxFaults,
         UNCHANGED <<config, made, dirs, link, settled>>
  PROVE  Inv'
<1>1. disk' \in [Inodes -> Contents] /\ insecure' \subseteq Inodes
  BY DEF FilesHold, Contents, Inv, TypeOK
<1>2. \A i \in Inodes : i \in Live(link, call') => disk'[i] = disk[i]
  BY DEF FilesHold
<1>3. \A i \in Live(link, call') : i \in Inodes
  <2>1. call' \in [Clients -> Calls]
    BY IdleParts DEF Inv, TypeOK
  <2>. QED  BY <2>1 DEF Live, Held, Calls, Inv, TypeOK
<1>. QED  BY <1>1, <1>2, <1>3, IdleParts, QuietKeeps

LEMMA GetOpensKeeps ==
  ASSUME Inv, NEW c \in Clients, NEW p \in Paths, GetOpens(c, p)
  PROVE  Inv'
<1> DEFINE x == [Idle EXCEPT !.op = "read", !.path = p, !.fd = link[p],
                             !.alone = ~Writing(p)]
<1>1. link[p] \in Inodes
  BY DEF GetOpens, Files, Inv, TypeOK
<1>2. /\ x \in Calls
      /\ x.op = "read" /\ x.path = p /\ x.fd = link[p]
      /\ x.alone => ~Writing(p)
  BY <1>1 DEF Idle, Calls
<1>3. x.alone => \A d \in Clients : ~Writes(d, p)
  BY <1>2 DEF Writing, Writes
<1>4. /\ call' = [call EXCEPT ![c] = x] /\ call[c].op = "idle"
      /\ UNCHANGED <<config, made, dirs, link, settled, disk, insecure, faults>>
  BY DEF GetOpens, fs
<1> HIDE DEF x
<1>5. /\ faults' \in 0 .. MaxFaults /\ disk' \in [Inodes -> Contents]
      /\ insecure' \subseteq Inodes
  BY <1>4 DEF Inv, TypeOK
<1>. QED
  BY <1>1, <1>2, <1>3, <1>4, <1>5, QuietKeeps

LEMMA ListStartsKeeps ==
  ASSUME Inv, NEW c \in Clients, ListStarts(c)
  PROVE  Inv'
<1> DEFINE x == [Idle EXCEPT !.op = "list", !.todo = {Root}, !.must = Files]
<1>1. /\ x \in Calls /\ x.op = "list"
      /\ x.todo = {Root} /\ x.names = {} /\ x.must = Files
  BY DEF Idle, Calls, Files
<1>2. /\ call' = [call EXCEPT ![c] = x] /\ call[c].op = "idle"
      /\ UNCHANGED <<config, made, dirs, link, settled, disk, insecure, faults>>
  BY DEF ListStarts, fs
<1> HIDE DEF x
<1>3. /\ faults' \in 0 .. MaxFaults /\ disk' \in [Inodes -> Contents]
      /\ insecure' \subseteq Inodes
  BY <1>2 DEF Inv, TypeOK
<1>4. \A p \in x.must : link[p] # None
  BY <1>1 DEF Files
<1>5. \A p \in x.must \ x.names : \E d \in x.todo : d \in Above(p) \cup {Root}
  BY <1>1
<1>. QED
  BY <1>1, <1>2, <1>3, <1>4, <1>5, QuietKeeps

\* Reading a directory finds every file in it, and the next directory on the
\* way to every other file further down.
LEMMA ListReadsKeeps ==
  ASSUME Inv, NEW c \in Clients, ListReads(c)
  PROVE  Inv'
<1>1. PICK d \in call[c].todo :
        /\ d \in dirs \cup {Root}
        /\ call' = [call EXCEPT
                      ![c].todo = (@ \ {d}) \cup Subdirs(d),
                      ![c].names = @ \cup (Children(d) \cap Files)]
  BY DEF ListReads
<1> DEFINE y == call[c]
<1> DEFINE todo == (y.todo \ {d}) \cup Subdirs(d)
<1> DEFINE names == y.names \cup (Children(d) \cap Files)
<1> DEFINE x == [y EXCEPT !.todo = todo, !.names = names]
<1>2. y \in Calls /\ y.op = "list" /\ d \in Paths \cup {Root}
  BY <1>1 DEF ListReads, Inv, TypeOK, Calls
<1>3. todo \in SUBSET (Paths \cup {Root}) /\ names \in SUBSET Paths
  BY <1>2 DEF Calls, Subdirs, Children, Files
<1>4. call' = [call EXCEPT ![c] = x]
  BY <1>1 DEF Inv, TypeOK
<1>5. x = [y EXCEPT !.todo = todo, !.names = names]
  OBVIOUS
<1>6. \A p \in y.must : link[p] # None
  BY <1>2 DEF Inv, ListingsGoOn, Listed
<1>7. ASSUME NEW p \in y.must \ names
      PROVE  \E e \in todo : e \in Above(p) \cup {Root}
  <2>1. /\ p \in Paths /\ p \in Files /\ Above(p) \subseteq dirs
        /\ p \notin Children(d)
    BY <1>2, <1>6, <1>7 DEF Calls, Files, Inv, Tree
  <2>2. PICK e \in y.todo : e \in Above(p) \cup {Root}
    BY <1>2, <1>7 DEF Inv, ListingsGoOn, Listed
  <2>3. CASE e # d
    BY <2>2, <2>3
  <2>4. CASE e = d
    <3>1. PICK n \in Children(d) : n \in Above(p) \cup {p}
      BY <2>1, <2>2, <2>4, PathsGoOn
    <3>2. n \in Subdirs(d) /\ n \in Above(p)
      BY <2>1, <3>1 DEF Subdirs
    <3>. QED  BY <3>2
  <2>. QED  BY <2>3, <2>4
<1> HIDE DEF x, y, todo, names
<1>8. x = [op |-> y.op, path |-> y.path, secret |-> y.secret, fd |-> y.fd,
           todo |-> todo, names |-> names, must |-> y.must, alone |-> y.alone]
  BY <1>2, <1>5 DEF Calls
<1>9. x \in Calls
  BY <1>2, <1>3, <1>8 DEF Calls
<1>10. UNCHANGED <<config, made, dirs, link, settled, disk, insecure, faults>>
  BY DEF ListReads, fs
<1>11. /\ faults' \in 0 .. MaxFaults /\ disk' \in [Inodes -> Contents]
       /\ insecure' \subseteq Inodes
  BY <1>10 DEF Inv, TypeOK
<1>12. call[c].op # "write" /\ x.op = "list"
  BY <1>2, <1>8 DEF y
<1>13. /\ \A p \in x.must : link[p] # None
       /\ \A p \in x.must \ x.names :
            \E e \in x.todo : e \in Above(p) \cup {Root}
  BY <1>6, <1>7, <1>8
<1>. QED
  BY <1>4, <1>9, <1>10, <1>11, <1>12, <1>13, QuietKeeps
-----------------------------------------------------------------------------
(* All steps *)

\* Nothing changes but the answer, or the directory is made.
LEMMA AnswerKeeps ==
  ASSUME Inv, made' = made \/ made' = TRUE,
         UNCHANGED <<config, dirs, link, disk, insecure, call, faults, settled>>
  PROVE  Inv'
<1>1. TypeOK'
  BY DEF Inv, TypeOK, config
<1>2. CallsFormed' /\ Tree' /\ LinksApart' /\ HandlesApart'
  BY DEF Inv, CallsFormed, Tree, LinksApart, HandlesApart, Above, config
<1>3. AloneIsAlone' /\ UnwrittenOnDisk' /\ ListingsGoOn'
  BY DEF Inv, AloneIsAlone, AloneOn, Writes, UnwrittenOnDisk, Kept,
         ListingsGoOn, Listed, Above
<1>. QED  BY <1>1, <1>2, <1>3 DEF Inv

LEMMA InvInit == Init => Inv
<1> SUFFICES ASSUME Init
             PROVE  Inv
  OBVIOUS
<1>1. PICK placed \in {None} \cup {p \in Paths : made /\ Above(p) = {}},
           i \in Inodes, s \in Secrets :
        /\ link = [p \in Paths |-> IF p = placed THEN i ELSE None]
        /\ disk = [j \in Inodes |-> IF placed # None /\ j = i THEN s ELSE Empty]
        /\ insecure \in {{}, IF placed = None THEN {} ELSE {i}}
        /\ settled = [p \in Paths |-> IF p = placed THEN s ELSE Absent]
  BY DEF Init
<1>2. \A c \in Clients : call[c] = Idle
  BY DEF Init
<1>3. TypeOK
  BY <1>1, IdleParts, FileVaultConstants DEF Init, TypeOK, Contents
<1>4. CallsFormed /\ HandlesApart /\ AloneIsAlone /\ ListingsGoOn
  BY <1>2, IdleParts DEF CallsFormed, HandlesApart, AloneIsAlone, ListingsGoOn
<1>5. Tree /\ LinksApart
  BY <1>1, FileVaultConstants DEF Init, Tree, LinksApart
<1>6. UnwrittenOnDisk
  BY <1>1, FileVaultConstants DEF UnwrittenOnDisk, Kept
<1>. QED  BY <1>3, <1>4, <1>5, <1>6 DEF Inv

LEMMA InvNext == Inv /\ [Next]_vars => Inv'
<1> SUFFICES ASSUME Inv, [Next]_vars
             PROVE  Inv'
  OBVIOUS
<1>1. ASSUME NEW c \in Clients,
             \/ \E p \in Paths : \/ GetFails(c, p) \/ SetFails(c, p)
                                 \/ DeleteFails(c, p) \/ CallExists(c, p)
             \/ New(c) \/ ListFails(c)
      PROVE  Inv'
  BY <1>1, AnswerKeeps
     DEF GetFails, SetFails, DeleteFails, CallExists, Refuse, New, ListFails, fs
<1>2. ASSUME NEW c \in Clients,
             GetReads(c) \/ Dies(c) \/ SetCannotOpen(c) \/ ListLosesDir(c)
               \/ ListEnds(c)
      PROVE  Inv'
  <2>1. faults' \in 0 .. MaxFaults
    <3>1. MaxFaults \in Nat /\ faults \in 0 .. MaxFaults
      BY FileVaultConstants DEF Inv, TypeOK
    <3>2. \/ faults' = faults
          \/ faults < MaxFaults /\ faults' = faults + 1
      BY <1>2 DEF GetReads, Dies, SetCannotOpen, ListLosesDir, ListEnds
    <3>. QED  BY <3>1, <3>2
  <2>. QED
    BY <1>2, <2>1, ClosesKeeps
       DEF GetReads, Dies, SetCannotOpen, ListLosesDir, ListEnds, fs
<1>3. ASSUME NEW c \in Clients,
             \/ \E p \in Paths : \/ GetOpens(c, p) \/ DeletesFile(c, p)
                                 \/ DeletesNothing(c, p) \/ DeletesDir(c, p)
             \/ \E p \in Paths, s \in Secrets : SetMakesDirs(c, p, s)
             \/ SetOpens(c) \/ SetWrites(c) \/ SetStops(c)
             \/ ListStarts(c) \/ ListReads(c)
      PROVE  Inv'
  BY <1>3, GetOpensKeeps, DeletesFileKeeps, DeletesNothingKeeps, DeletesDirKeeps,
     SetMakesDirsKeeps, SetOpensKeeps, SetWritesKeeps, SetStopsKeeps,
     ListStartsKeeps, ListReadsKeeps
<1>4. CASE UNCHANGED vars
  BY <1>4, AnswerKeeps DEF vars, fs
<1>. QED  BY <1>1, <1>2, <1>3, <1>4 DEF Next

\* The invariant holds in every state, wherever calls overlap or break off.
THEOREM Inductive == Spec => []Inv
BY InvInit, InvNext, PTL DEF Spec

\* Every variable has its type.
THEOREM TypeCorrect == Spec => []TypeOK
<1>1. Inv => TypeOK
  BY DEF Inv
<1>. QED  BY <1>1, Inductive, PTL

\* What calls that nothing overlapped have left at a path is what the disk
\* holds there, however calls on other paths and directories interleave.
THEOREM OnDiskCorrect == Spec => []SettledOnDisk
<1>1. Inv => SettledOnDisk
  BY DEF Inv, UnwrittenOnDisk, Kept, SettledOnDisk, Writing, Files
<1>. QED  BY <1>1, Inductive, PTL
-----------------------------------------------------------------------------
(* Answers *)

\* A path that has a file is neither blocked nor a directory.
LEMMA FileIsPlain ==
  ASSUME Inv, NEW p \in Paths, p \in Files
  PROVE  made /\ ~Blocked(p) /\ ~IsDir(p)
BY DEF Inv, Tree, Files, Blocked, IsDir, Above

\* Without a writer of it, a settled path holds what it should.
LEMMA SettledKept ==
  ASSUME Inv, NEW p \in Paths, settled[p] # Unknown, ~Writing(p)
  PROVE  Kept(p)
BY DEF Inv, UnwrittenOnDisk, Writing

LEMMA GetFailsRight ==
  ASSUME Inv, NEW c \in Clients, NEW p \in Paths, GetFails(c, p)
  PROVE  SettledReads'
<1>1. /\ answer'.op = "get" /\ answer'.path = p
      /\ answer'.result = GetFailure(c, p) /\ answer'.alone = ~Writing(p)
      /\ settled' = settled /\ ~(made /\ p \in Files /\ MayRead(c, p))
  BY DEF GetFails, Refuse, Answer
<1> SUFFICES ASSUME settled[p] # Unknown, ~Writing(p)
             PROVE  IF settled[p] = Absent
                    THEN GetFailure(c, p) \in {"notFound", "invalidPath", "error"}
                    ELSE GetFailure(c, p) \in {settled[p], "insecure"}
  BY <1>1 DEF SettledReads, Undisturbed
<1>2. CASE settled[p] = Absent
  <2>1. p \notin Files
    BY <1>2, SettledKept DEF Kept, Files
  <2>. QED  BY <1>2, <2>1 DEF GetFailure
<1>3. CASE settled[p] # Absent
  <2>1. p \in Files
    BY <1>3, SettledKept DEF Kept, Files
  <2>. QED  BY <1>1, <1>3, <2>1, FileIsPlain DEF GetFailure
<1>. QED  BY <1>2, <1>3

LEMMA GetReadsRight ==
  ASSUME Inv, NEW c \in Clients, GetReads(c)
  PROVE  SettledReads'
<1> DEFINE p == call[c].path
<1>1. /\ answer'.op = "get" /\ answer'.path = p
      /\ answer'.result = disk[call[c].fd] /\ answer'.alone = call[c].alone
      /\ settled' = settled /\ call[c].op = "read" /\ p \in Paths
  BY DEF GetReads, Answer, Inv, CallsFormed
<1> SUFFICES ASSUME settled[p] # Unknown, call[c].alone
             PROVE  settled[p] # Absent /\ disk[call[c].fd] = settled[p]
  BY <1>1 DEF SettledReads, Undisturbed
<1>2. AloneOn(c) /\ call[c].fd # None
  BY <1>1, FileVaultConstants DEF Inv, AloneIsAlone, CallsFormed
<1>3. ~Writing(p)
  BY <1>1, <1>2 DEF AloneOn, Writes, Writing
<1>4. Kept(p)
  BY <1>1, <1>3, SettledKept
<1>. QED  BY <1>1, <1>2, <1>4 DEF Kept, AloneOn

LEMMA ExistsRight ==
  ASSUME Inv, NEW c \in Clients, NEW p \in Paths, CallExists(c, p)
  PROVE  SettledReads'
<1>1. /\ answer'.op = "exists" /\ answer'.path = p
      /\ answer'.result = Exists(p) /\ answer'.alone = ~Writing(p)
      /\ settled' = settled /\ extension' = extension
  BY DEF CallExists, Refuse, Answer, config
<1> SUFFICES ASSUME settled[p] # Unknown, ~Writing(p), extension
             PROVE  Exists(p) = IF settled[p] = Absent THEN "false" ELSE "true"
  BY <1>1 DEF SettledReads, Undisturbed
<1>2. Kept(p) /\ ~Blocked(p) /\ (Named(p) <=> p \in Files)
  BY SettledKept DEF Blocked, Named, IsDir
<1>. QED  BY <1>2, FileIsPlain DEF Kept, Exists, Files

\* A Get that nothing overlaps answers what was set last or, unless the file
\* is readable by others, nothing else; and Exists agrees.
THEOREM ReadsCorrect == Spec => []SettledReads
<1>1. Init => SettledReads
  BY DEF Init, NoAnswer, SettledReads, Undisturbed
<1>2. Inv /\ SettledReads /\ [Next]_vars => SettledReads'
  <2> SUFFICES ASSUME Inv, SettledReads, [Next]_vars
               PROVE  SettledReads'
    OBVIOUS
  <2>1. ASSUME answer'.op \notin {"get", "exists"}
        PROVE  SettledReads'
    BY <2>1 DEF SettledReads, Undisturbed
  <2>2. ASSUME NEW c \in Clients,
               \/ New(c) \/ ListFails(c)
               \/ \E p \in Paths : SetFails(c, p) \/ DeleteFails(c, p)
        PROVE  answer'.op \notin {"get", "exists"}
    BY <2>2 DEF New, ListFails, SetFails, DeleteFails, Refuse, Answer, NoAnswer
  <2>3. ASSUME NEW c \in Clients,
               \/ \E p \in Paths : \/ GetOpens(c, p) \/ DeletesFile(c, p)
                                   \/ DeletesNothing(c, p) \/ DeletesDir(c, p)
               \/ \E p \in Paths, s \in Secrets : SetMakesDirs(c, p, s)
        PROVE  answer'.op \notin {"get", "exists"}
    <3>1. answer' \in {NoAnswer}
                      \cup {Answer("delete", p, "ok", ~Writing(p)) : p \in Paths}
      BY <2>3 DEF GetOpens, DeletesFile, DeletesNothing, DeletesDir, SetMakesDirs
    <3>. QED  BY <3>1 DEF Answer, NoAnswer
  <2>4. ASSUME NEW c \in Clients,
               \/ SetCannotOpen(c) \/ SetOpens(c) \/ SetWrites(c) \/ SetStops(c)
               \/ ListStarts(c) \/ ListReads(c) \/ ListLosesDir(c)
               \/ ListEnds(c) \/ Dies(c)
        PROVE  answer'.op \notin {"get", "exists"}
    BY <2>4 DEF SetCannotOpen, SetOpens, SetWrites, SetStops, ListStarts,
                ListReads, ListLosesDir, ListEnds, Dies, Answer, NoAnswer
  <2>5. CASE UNCHANGED vars
    BY <2>5 DEF vars, config, SettledReads, Undisturbed
  <2>. QED
    BY <2>1, <2>2, <2>3, <2>4, <2>5, GetFailsRight, GetReadsRight, ExistsRight
       DEF Next
<1>. QED  BY <1>1, <1>2, Inductive, PTL DEF Spec

\* A listing that succeeds shows every secret that was there from its start to
\* its end, in directories however deep, made and removed around it.
THEOREM ListsComplete == Spec => ListIsComplete
<1>1. ASSUME Inv, Next, NEW c \in Clients,
             call[c].op = "list", call'[c].op = "idle",
             answer'.result = "names"
      PROVE  call[c].must \subseteq call[c].names
  <2>1. ASSUME NEW d \in Clients,
               \/ \E p \in Paths : \/ GetFails(d, p) \/ SetFails(d, p)
                                   \/ DeleteFails(d, p) \/ CallExists(d, p)
               \/ New(d) \/ ListFails(d)
        PROVE  call' = call
    BY <2>1 DEF GetFails, SetFails, DeleteFails, CallExists, Refuse, New, ListFails
  <2>2. ASSUME NEW d \in Clients, NEW p \in Paths,
               \/ DeletesFile(d, p) \/ DeletesNothing(d, p) \/ DeletesDir(d, p)
               \/ \E s \in Secrets : SetMakesDirs(d, p, s)
        PROVE  call'[c].op # "idle"
    <3>1. CASE \E s \in Secrets : SetMakesDirs(d, p, s)
      <4>1. d # c /\ call'[c] = Disturb(call, p)[c]
        BY <1>1, <3>1, Disturbed DEF SetMakesDirs, Inv
      <4>. QED  BY <1>1, <4>1, Disturbed DEF Inv
    <3>2. CASE DeletesNothing(d, p) \/ DeletesDir(d, p)
      BY <1>1, <3>2, Disturbed DEF DeletesNothing, DeletesDir, Inv
    <3>3. CASE DeletesFile(d, p)
      <4>1. call'[c] = [Disturb(call, p)[c] EXCEPT !.must = @ \ {p}]
        BY <3>3 DEF DeletesFile, Gone
      <4>2. Disturb(call, p)[c] \in Calls /\ Disturb(call, p)[c].op = "list"
        BY <1>1, Disturbed DEF Inv
      <4>. QED  BY <4>1, <4>2 DEF Calls
    <3>. QED  BY <2>2, <3>1, <3>2, <3>3
  <2>3. ASSUME NEW d \in Clients,
               \/ \E p \in Paths : GetOpens(d, p)
               \/ GetReads(d) \/ Dies(d) \/ SetCannotOpen(d) \/ SetOpens(d)
               \/ SetWrites(d) \/ SetStops(d) \/ ListStarts(d) \/ ListReads(d)
        PROVE  call'[c].op # "idle" \/ answer'.result # "names"
    <3>1. d = c => ListReads(d) \/ Dies(d)
      BY <1>1, <2>3 DEF GetOpens, GetReads, SetCannotOpen, SetOpens, SetWrites,
                        SetStops, ListStarts
    <3>2. CASE d # c
      BY <1>1, <2>3, <3>2
         DEF GetOpens, GetReads, SetCannotOpen, SetOpens, SetWrites, SetStops,
             ListStarts, ListReads, Dies, Inv, TypeOK
    <3>3. ListReads(d) \/ Dies(d) => answer' = NoAnswer
      BY DEF ListReads, Dies
    <3>. QED  BY <1>1, <3>1, <3>2, <3>3 DEF NoAnswer
  <2>4. ASSUME NEW d \in Clients, ListLosesDir(d)
        PROVE  answer'.result # "names"
    BY <2>4 DEF ListLosesDir, Answer
  <2>5. PICK d \in Clients : ListEnds(d)
    BY <1>1, <2>1, <2>2, <2>3, <2>4 DEF Next
  <2>6. d = c
    BY <1>1, <2>5 DEF ListEnds, Inv, TypeOK
  <2>. QED  BY <1>1, <2>5, <2>6 DEF Inv, ListingsGoOn, Listed, ListEnds
<1>2. Inv /\ [Next]_vars =>
        [\A c \in Clients :
           (call[c].op = "list" /\ call'[c].op = "idle"
              /\ answer'.result = "names") =>
             call[c].must \subseteq call[c].names]_vars
  BY <1>1
<1>. QED  BY <1>2, Inductive, PTL DEF Spec, ListIsComplete
=============================================================================
