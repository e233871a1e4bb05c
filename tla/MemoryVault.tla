----------------------------- MODULE MemoryVault -----------------------------
(***************************************************************************)
(* The memory provider (providers/memory/memory.go) and the secrets its    *)
(* callers hold.  A secret is a Go struct with references to maps and      *)
(* slices.  The provider gives away and takes in copies of its secrets;    *)
(* copySecret duplicates some of those references (ValueBytes, Fields,     *)
(* Tags, Labels), here the part "fields", and copies the others as they    *)
(* are (Extra, the timestamps), here the part "extra".  What a reference   *)
(* leads to is in the heap; callers change the maps of secrets they hold.  *)
(*                                                                         *)
(* Every operation runs under Provider.mu and is one action.  An operation *)
(* on a closed provider is refused and changes nothing.                    *)
(***************************************************************************)
CONSTANTS
  Paths,
  Values,   \* contents of a map or slice
  Refs,     \* references; bound: how many are in use at once
  Holders,  \* places where callers keep a secret
  Nil

VARIABLES
  secrets,  \* the provider's map
  closed,   \* Close was called
  held,     \* the secrets callers hold
  heap      \* what each reference leads to; Nil for one not in use

vars == <<secrets, closed, held, heap>>

Secrets == [fields : Refs \cup {Nil}, extra : Refs \cup {Nil}]

ASSUME MemoryConstants ==
  /\ Nil \notin Refs
  /\ Nil \notin Values
  /\ Nil \notin Secrets
  /\ Paths \cap Holders = {}

Slots == Paths \cup Holders

At(store, hands, x) == IF x \in Paths THEN store[x] ELSE hands[x]

TypeOK ==
  /\ secrets \in [Paths -> Secrets \cup {Nil}]
  /\ closed \in BOOLEAN
  /\ held \in [Holders -> Secrets \cup {Nil}]
  /\ heap \in [Refs -> Values \cup {Nil}]

NoSecrets == [p \in Paths |-> Nil]

Reaches(s, r) == s # Nil /\ (s.fields = r \/ s.extra = r)
InUse(store, hands, r) ==
  \/ \E p \in Paths : Reaches(store[p], r)
  \/ \E h \in Holders : Reaches(hands[h], r)
Free == {r \in Refs : ~InUse(secrets, held, r)}
Fresh == CHOOSE r \in Free : TRUE

\* The garbage collector takes what nobody reaches.
Holds(contents) ==
  heap' = [r \in Refs |-> IF InUse(secrets', held', r) THEN contents[r]
                                                     ELSE Nil]
-----------------------------------------------------------------------------
(* Callers *)

\* Assigning through a nil map first makes one.
Mutate(h, part, v) ==
  /\ held[h] # Nil
  /\ IF held[h][part] = Nil
     THEN /\ Free # {}
          /\ held' = [held EXCEPT ![h][part] = Fresh]
          /\ UNCHANGED <<secrets, closed>>
          /\ Holds([heap EXCEPT ![Fresh] = v])
     ELSE /\ heap' = [heap EXCEPT ![held[h][part]] = v]
          /\ UNCHANGED <<secrets, closed, held>>

MakeSecret(h) ==
  /\ held[h] = Nil
  /\ held' = [held EXCEPT ![h] = [fields |-> Nil, extra |-> Nil]]
  /\ UNCHANGED <<secrets, closed, heap>>

DropSecret(h) ==
  /\ held[h] # Nil
  /\ held' = [held EXCEPT ![h] = Nil]
  /\ UNCHANGED <<secrets, closed>>
  /\ Holds(heap)
-----------------------------------------------------------------------------
(* The provider *)

\* A copy of secret s, and the heap that goes with it.
CopyAlias(s) == s
Copy(s) == IF s.fields = Nil THEN s ELSE [s EXCEPT !.fields = Fresh]
HeapWithCopy(s) ==
  IF s.fields = Nil THEN heap ELSE [heap EXCEPT ![Fresh] = heap[s.fields]]

CanCopy(s) == s # Nil /\ (s.fields = Nil \/ Free # {})

OpenAlways == TRUE
Open == ~closed

Get(p, h) ==
  /\ Open
  /\ held[h] = Nil
  /\ CanCopy(secrets[p])
  /\ held' = [held EXCEPT ![h] = Copy(secrets[p])]
  /\ UNCHANGED <<secrets, closed>>
  /\ Holds(HeapWithCopy(secrets[p]))

Set(p, h) ==
  /\ Open
  /\ CanCopy(held[h])
  /\ secrets' = [secrets EXCEPT ![p] = Copy(held[h])]
  /\ UNCHANGED <<closed, held>>
  /\ Holds(HeapWithCopy(held[h]))

Delete(p) ==
  /\ Open
  /\ secrets' = [secrets EXCEPT ![p] = Nil]
  /\ UNCHANGED <<closed, held>>
  /\ Holds(heap)

Clear ==
  /\ secrets' = NoSecrets
  /\ UNCHANGED <<closed, held>>
  /\ Holds(heap)

Close ==
  /\ closed' = TRUE
  /\ secrets' = NoSecrets
  /\ UNCHANGED held
  /\ Holds(heap)
-----------------------------------------------------------------------------
\* New, or NewWithSecrets, whose secrets have neither fields nor extra.
Init ==
  /\ secrets \in [Paths -> {Nil, [fields |-> Nil, extra |-> Nil]}]
  /\ closed = FALSE
  /\ held = [h \in Holders |-> Nil]
  /\ heap = [r \in Refs |-> Nil]

Next ==
  \/ \E h \in Holders :
       \/ \E part \in {"fields", "extra"}, v \in Values : Mutate(h, part, v)
       \/ MakeSecret(h)
       \/ DropSecret(h)
       \/ \E p \in Paths : Get(p, h) \/ Set(p, h)
  \/ \E p \in Paths : Delete(p)
  \/ Clear
  \/ Close

Spec == Init /\ [][Next]_vars
-----------------------------------------------------------------------------
(* Properties *)

Owned(x) == At(secrets, held, x)

\* No two secrets, wherever they are, share a map that copySecret duplicates:
\* not the provider's and a caller's, and not those of two callers.
Separate ==
  \A x, y \in Slots :
    /\ (x # y /\ Owned(x) # Nil /\ Owned(x).fields # Nil) =>
         ~Reaches(Owned(y), Owned(x).fields)
    /\ (Owned(x) # Nil /\ Owned(x).fields # Nil) =>
         Owned(x).extra # Owned(x).fields

\* What a caller can read through the duplicated parts of a stored secret.
Content(r) == IF r = Nil THEN Nil ELSE heap[r]
CopiedContent(s) == IF s = Nil THEN Nil ELSE [fields |-> Content(s.fields)]

Copied == INSTANCE VaultMap WITH
  secrets <- [p \in Paths |-> CopiedContent(secrets[p])],
  Secrets <- [fields : Values \cup {Nil}]

\* As far as the duplicated parts go, the provider is the map of VaultMap:
\* whatever callers do with secrets they passed in or got out, only Set,
\* Delete, Clear and Close change what is stored, and nothing after Close.
IsAMap == Copied!Spec
=============================================================================
