-------------------------- MODULE MemoryVault_proofs --------------------------
(***************************************************************************)
(* Theorems about MemoryVault, for any paths, values, callers and          *)
(* references: no map that copySecret duplicates is ever shared            *)
(* (Separate), and so the provider is the map of VaultMap as far as those  *)
(* maps go.                                                                *)
(*                                                                         *)
(* An operation gives one slot, a path or a caller's hand, a new secret or *)
(* empties slots.  OneChanges says what keeps Separate then, and           *)
(* FreshReached that a fresh reference meets the condition.                *)
(***************************************************************************)
EXTENDS MemoryVault, TLAPS

USE MemoryConstants

Inv == TypeOK /\ Separate

\* A fresh reference is a reference that no secret reaches.
LEMMA FreshReached ==
  ASSUME Free # {}
  PROVE  /\ Fresh \in Refs
         /\ Fresh # Nil
         /\ \A x \in Slots : ~Reaches(Owned(x), Fresh)
<1>1. Fresh \in Free
  BY Zenon DEF Fresh
<1>2. Fresh \in Refs /\ ~InUse(secrets, held, Fresh)
  BY <1>1 DEF Free
<1> QED
  BY <1>2 DEF InUse, Slots, Owned, At

\* The secrets of all slots have their type.
LEMMA OwnedType ==
  ASSUME TypeOK, NEW x \in Slots
  PROVE  Owned(x) \in Secrets \cup {Nil}
BY DEF TypeOK, Slots, Owned, At

\* If one slot changes and the others keep their secrets or lose them, the
\* secrets stay separate as long as the new one is separate from the others.
LEMMA OneChanges ==
  ASSUME Separate,
         NEW z \in Slots,
         \A x \in Slots \ {z} : Owned(x)' = Owned(x) \/ Owned(x)' = Nil,
         Owned(z)' # Nil /\ Owned(z)'.fields # Nil =>
           /\ \A y \in Slots \ {z} : ~Reaches(Owned(y), Owned(z)'.fields)
           /\ Owned(z)'.extra # Owned(z)'.fields,
         \A x \in Slots \ {z} :
           Owned(x) # Nil /\ Owned(x).fields # Nil =>
             ~Reaches(Owned(z)', Owned(x).fields)
  PROVE  Separate'
<1> SUFFICES ASSUME NEW x \in Slots, NEW y \in Slots,
                    Owned(x)' # Nil, Owned(x)'.fields # Nil
             PROVE  /\ x # y => ~Reaches(Owned(y)', Owned(x)'.fields)
                    /\ Owned(x)'.extra # Owned(x)'.fields
  BY DEF Separate, Reaches
<1>1. CASE x = z
  BY <1>1 DEF Reaches
<1>2. CASE x # z
  <2>1. Owned(x)' = Owned(x)
    BY <1>2
  <2>2. CASE y = z
    BY <1>2, <2>1, <2>2 DEF Separate
  <2>3. CASE y # z
    BY <1>2, <2>1, <2>3 DEF Separate, Reaches
  <2> QED
    BY <2>2, <2>3
<1> QED
  BY <1>1, <1>2

\* Slots that only lose their secrets stay separate.
LEMMA NoneChanges ==
  ASSUME Separate,
         \A x \in Slots : Owned(x)' = Owned(x) \/ Owned(x)' = Nil
  PROVE  Separate'
BY DEF Separate, Reaches
-----------------------------------------------------------------------------
(* Type correctness *)

\* A heap keeps its type when the unreachable is collected.
LEMMA HoldsType ==
  ASSUME NEW contents \in [Refs -> Values \cup {Nil}], Holds(contents)
  PROVE  heap' \in [Refs -> Values \cup {Nil}]
BY DEF Holds

\* A copy has the type of a secret and its heap the type of a heap.
LEMMA CopyType ==
  ASSUME TypeOK, NEW s \in Secrets, CanCopy(s)
  PROVE  /\ Copy(s) \in Secrets
         /\ HeapWithCopy(s) \in [Refs -> Values \cup {Nil}]
<1>1. CASE s.fields = Nil
  BY <1>1 DEF Copy, HeapWithCopy, TypeOK
<1>2. CASE s.fields # Nil
  <2>1. Fresh \in Refs
    BY <1>2, FreshReached DEF CanCopy
  <2>2. s.fields \in Refs
    BY <1>2 DEF Secrets
  <2> QED
    BY <1>2, <2>1, <2>2 DEF Copy, HeapWithCopy, TypeOK, Secrets
<1> QED
  BY <1>1, <1>2

\* Every step keeps the types.
LEMMA TypeStep == TypeOK /\ [Next]_vars => TypeOK'
<1> SUFFICES ASSUME TypeOK, [Next]_vars PROVE TypeOK'
  OBVIOUS
<1> USE DEF TypeOK
<1>1. ASSUME NEW h \in Holders, NEW part \in {"fields", "extra"},
             NEW v \in Values, Mutate(h, part, v)
      PROVE  TypeOK'
  <2>1. CASE held[h][part] = Nil
    <3>1. Fresh \in Refs
      BY <1>1, <2>1, FreshReached DEF Mutate
    <3>2. [held[h] EXCEPT ![part] = Fresh] \in Secrets
      BY <1>1, <3>1 DEF Mutate, Secrets
    <3>3. held' = [held EXCEPT ![h] = [held[h] EXCEPT ![part] = Fresh]]
      BY <1>1, <2>1 DEF Mutate
    <3>4. held' \in [Holders -> Secrets \cup {Nil}]
      BY <3>2, <3>3
    <3>5. heap' \in [Refs -> Values \cup {Nil}]
      BY <1>1, <2>1, <3>1, HoldsType DEF Mutate
    <3> QED
      BY <1>1, <2>1, <3>4, <3>5 DEF Mutate
  <2>2. CASE held[h][part] # Nil
    BY <1>1, <2>2 DEF Mutate
  <2> QED
    BY <2>1, <2>2
<1>2. ASSUME NEW h \in Holders, MakeSecret(h)
      PROVE  TypeOK'
  BY <1>2 DEF MakeSecret, Secrets
<1>3. ASSUME NEW h \in Holders, DropSecret(h)
      PROVE  TypeOK'
  BY <1>3, HoldsType DEF DropSecret
<1>4. ASSUME NEW h \in Holders, NEW p \in Paths, Get(p, h)
      PROVE  TypeOK'
  <2>1. secrets[p] \in Secrets /\ CanCopy(secrets[p])
    BY <1>4 DEF Get, CanCopy
  <2>2. /\ Copy(secrets[p]) \in Secrets
        /\ HeapWithCopy(secrets[p]) \in [Refs -> Values \cup {Nil}]
    BY <2>1, CopyType
  <2> QED
    BY <1>4, <2>2, HoldsType DEF Get
<1>5. ASSUME NEW h \in Holders, NEW p \in Paths, Set(p, h)
      PROVE  TypeOK'
  <2>1. held[h] \in Secrets /\ CanCopy(held[h])
    BY <1>5 DEF Set, CanCopy
  <2>2. /\ Copy(held[h]) \in Secrets
        /\ HeapWithCopy(held[h]) \in [Refs -> Values \cup {Nil}]
    BY <2>1, CopyType
  <2> QED
    BY <1>5, <2>2, HoldsType DEF Set
<1>6. ASSUME NEW p \in Paths, Delete(p)
      PROVE  TypeOK'
  BY <1>6, HoldsType DEF Delete
<1>7. CASE Clear
  BY <1>7, HoldsType DEF Clear, NoSecrets
<1>8. CASE Close
  BY <1>8, HoldsType DEF Close, NoSecrets
<1>9. CASE UNCHANGED vars
  BY <1>9 DEF vars
<1> QED
  BY <1>1, <1>2, <1>3, <1>4, <1>5, <1>6, <1>7, <1>8, <1>9 DEF Next

\* Init has the types.
LEMMA TypeInit == Init => TypeOK
<1>1. [fields |-> Nil, extra |-> Nil] \in Secrets
  BY DEF Secrets
<1> QED
  BY <1>1 DEF Init, TypeOK

\* Every variable of the provider and of its callers has its type.
THEOREM TypeCorrect == Spec => []TypeOK
BY TypeInit, TypeStep, PTL DEF Spec
-----------------------------------------------------------------------------
(* Separate *)

\* The copy of a stored or held secret may be put in any slot z: apart from
\* what was in z it shares none of the duplicated maps.
LEMMA CopySeparate ==
  ASSUME TypeOK, Separate,
         NEW z \in Slots, NEW w \in Slots, w # z,
         CanCopy(Owned(w))
  PROVE  LET c == Copy(Owned(w)) IN
           /\ c.fields # Nil =>
                /\ \A y \in Slots \ {z} : ~Reaches(Owned(y), c.fields)
                /\ c.extra # c.fields
           /\ \A x \in Slots \ {z} :
                Owned(x) # Nil /\ Owned(x).fields # Nil =>
                  ~Reaches(c, Owned(x).fields)
<1> DEFINE s == Owned(w)
           c == Copy(s)
<1>1. s \in Secrets
  BY OwnedType DEF CanCopy
<1>2. CASE s.fields = Nil
  <2>1. c = s
    BY <1>2 DEF Copy
  <2> QED
    BY <1>1, <1>2, <2>1 DEF Separate, Reaches
<1>3. CASE s.fields # Nil
  <2>1. /\ Fresh # Nil
        /\ \A x \in Slots : ~Reaches(Owned(x), Fresh)
    BY <1>3, FreshReached DEF CanCopy
  <2>2. c.fields = Fresh /\ c.extra = s.extra
    BY <1>1, <1>3 DEF Copy, Secrets
  <2>3. s.extra # Fresh
    BY <2>1 DEF Reaches, CanCopy
  <2>4. ASSUME NEW x \in Slots \ {z}, Owned(x) # Nil, Owned(x).fields # Nil
        PROVE  ~Reaches(c, Owned(x).fields)
    <3>1. Owned(x).fields # Fresh
      BY <2>1, <2>4 DEF Reaches
    <3>2. Owned(x).fields # s.extra
      BY <2>4 DEF Separate, Reaches, CanCopy
    <3> QED
      BY <2>2, <3>1, <3>2 DEF Reaches
  <2> QED
    BY <2>1, <2>2, <2>3, <2>4
<1> QED
  BY <1>2, <1>3

\* Every step keeps the secrets separate.
LEMMA SeparateStep == Inv /\ [Next]_vars => Separate'
<1> SUFFICES ASSUME TypeOK, Separate, [Next]_vars PROVE Separate'
  BY DEF Inv
<1> USE DEF Slots, Owned, At
<1>1. ASSUME NEW h \in Holders, NEW part \in {"fields", "extra"},
             NEW v \in Values, Mutate(h, part, v)
      PROVE  Separate'
  <2>1. CASE held[h][part] # Nil
    BY <1>1, <2>1, NoneChanges DEF Mutate
  <2>2. CASE held[h][part] = Nil
    <3>1. /\ Fresh # Nil
          /\ \A x \in Slots : ~Reaches(Owned(x), Fresh)
      BY <1>1, <2>2, FreshReached DEF Mutate
    <3>2. \A x \in Slots \ {h} : Owned(x)' = Owned(x)
      BY <1>1, <2>2 DEF Mutate, TypeOK
    <3>3. /\ h \in Slots /\ Owned(h) = held[h] /\ held[h] \in Secrets
          /\ Owned(h)' = [held[h] EXCEPT ![part] = Fresh]
      BY <1>1, <2>2 DEF Mutate, TypeOK
    <3>4. CASE part = "fields"
      <4>1. Owned(h)'.fields = Fresh /\ Owned(h)'.extra = Owned(h).extra
        BY <3>3, <3>4 DEF Secrets
      <4>2. Owned(h) # Nil
        BY <3>3
      <4> HIDE DEF Slots, Owned, At
      <4>3. Owned(h)'.fields # Nil =>
              /\ \A y \in Slots \ {h} : ~Reaches(Owned(y), Owned(h)'.fields)
              /\ Owned(h)'.extra # Owned(h)'.fields
        BY <3>1, <3>3, <4>1, <4>2 DEF Separate, Reaches
      <4>4. \A x \in Slots \ {h} :
              Owned(x) # Nil /\ Owned(x).fields # Nil =>
                ~Reaches(Owned(h)', Owned(x).fields)
        BY <3>1, <3>3, <4>1, <4>2 DEF Separate, Reaches
      <4> QED
        BY <3>2, <3>3, <4>3, <4>4, OneChanges
    <3>5. CASE part = "extra"
      <4>1. Owned(h)'.extra = Fresh /\ Owned(h)'.fields = Owned(h).fields
        BY <3>3, <3>5 DEF Secrets
      <4>2. Owned(h) # Nil
        BY <3>3
      <4> HIDE DEF Slots, Owned, At
      <4>3. Owned(h)'.fields # Nil =>
              /\ \A y \in Slots \ {h} : ~Reaches(Owned(y), Owned(h)'.fields)
              /\ Owned(h)'.extra # Owned(h)'.fields
        BY <3>1, <3>3, <4>1, <4>2 DEF Separate, Reaches
      <4>4. \A x \in Slots \ {h} :
              Owned(x) # Nil /\ Owned(x).fields # Nil =>
                ~Reaches(Owned(h)', Owned(x).fields)
        BY <3>1, <3>3, <4>1, <4>2 DEF Separate, Reaches
      <4> QED
        BY <3>2, <3>3, <4>3, <4>4, OneChanges
    <3> QED
      BY <3>4, <3>5
  <2> QED
    BY <2>1, <2>2
<1>2. ASSUME NEW h \in Holders, MakeSecret(h)
      PROVE  Separate'
  <2>1. \A x \in Slots \ {h} : Owned(x)' = Owned(x)
    BY <1>2 DEF MakeSecret, TypeOK
  <2>2. h \in Slots /\ Owned(h)' = [fields |-> Nil, extra |-> Nil]
    BY <1>2 DEF MakeSecret, TypeOK
  <2> HIDE DEF Slots, Owned, At
  <2> QED
    BY <2>1, <2>2, OneChanges DEF Reaches
<1>3. ASSUME NEW h \in Holders, DropSecret(h)
      PROVE  Separate'
  BY <1>3, NoneChanges DEF DropSecret, TypeOK
<1>4. ASSUME NEW h \in Holders, NEW p \in Paths, Get(p, h)
      PROVE  Separate'
  <2>1. \A x \in Slots \ {h} : Owned(x)' = Owned(x)
    BY <1>4 DEF Get, TypeOK
  <2>2. /\ h \in Slots /\ p \in Slots /\ p # h
        /\ Owned(p) = secrets[p] /\ CanCopy(Owned(p))
        /\ Owned(h)' = Copy(Owned(p))
    BY <1>4 DEF Get, TypeOK
  <2> HIDE DEF Slots, Owned, At
  <2>3. /\ Owned(h)'.fields # Nil =>
             /\ \A y \in Slots \ {h} : ~Reaches(Owned(y), Owned(h)'.fields)
             /\ Owned(h)'.extra # Owned(h)'.fields
        /\ \A x \in Slots \ {h} :
             Owned(x) # Nil /\ Owned(x).fields # Nil =>
               ~Reaches(Owned(h)', Owned(x).fields)
    BY <2>2, CopySeparate
  <2> QED
    BY <2>1, <2>2, <2>3, OneChanges
<1>5. ASSUME NEW h \in Holders, NEW p \in Paths, Set(p, h)
      PROVE  Separate'
  <2>1. \A x \in Slots \ {p} : Owned(x)' = Owned(x)
    BY <1>5 DEF Set, TypeOK
  <2>2. /\ h \in Slots /\ p \in Slots /\ p # h
        /\ Owned(h) = held[h] /\ CanCopy(Owned(h))
        /\ Owned(p)' = Copy(Owned(h))
    BY <1>5 DEF Set, TypeOK
  <2> HIDE DEF Slots, Owned, At
  <2>3. /\ Owned(p)'.fields # Nil =>
             /\ \A y \in Slots \ {p} : ~Reaches(Owned(y), Owned(p)'.fields)
             /\ Owned(p)'.extra # Owned(p)'.fields
        /\ \A x \in Slots \ {p} :
             Owned(x) # Nil /\ Owned(x).fields # Nil =>
               ~Reaches(Owned(p)', Owned(x).fields)
    BY <2>2, CopySeparate
  <2> QED
    BY <2>1, <2>2, <2>3, OneChanges
<1>6. ASSUME NEW p \in Paths, Delete(p)
      PROVE  Separate'
  BY <1>6, NoneChanges DEF Delete, TypeOK
<1>7. CASE Clear
  BY <1>7, NoneChanges DEF Clear, NoSecrets
<1>8. CASE Close
  BY <1>8, NoneChanges DEF Close, NoSecrets
<1>9. CASE UNCHANGED vars
  BY <1>9, NoneChanges DEF vars
<1> QED
  BY <1>1, <1>2, <1>3, <1>4, <1>5, <1>6, <1>7, <1>8, <1>9 DEF Next

\* Init keeps nothing that could be shared.
LEMMA InvInit == Init => Inv
BY TypeInit DEF Init, Inv, Separate, Reaches, Slots, Owned, At

\* The types and Separate together are inductive.
LEMMA InvStep == Inv /\ [Next]_vars => Inv'
BY TypeStep, SeparateStep DEF Inv

LEMMA Inductive == Spec => []Inv
BY InvInit, InvStep, PTL DEF Spec

\* No two secrets, stored or held, share a map that copySecret duplicates.
THEOREM SeparateCorrect == Spec => []Separate
<1>1. Inv => Separate
  BY DEF Inv
<1> QED
  BY <1>1, Inductive, PTL
-----------------------------------------------------------------------------
(* The provider implements VaultMap *)

\* What can be read of path p through the duplicated parts.
Shown(p) == CopiedContent(secrets[p])

\* If the heap keeps what the stored secret of p refers to, and the secret
\* stays, p shows the same as before.
LEMMA ShownStays ==
  ASSUME TypeOK, NEW p \in Paths,
         secrets'[p] = secrets[p],
         secrets[p] # Nil /\ secrets[p].fields # Nil =>
           heap'[secrets[p].fields] = heap[secrets[p].fields]
  PROVE  Shown(p)' = Shown(p)
BY DEF Shown, CopiedContent, Content

\* Collecting the unreachable, after a change to the heap that leaves alone
\* what the stored secret of p refers to, does not change what p shows.
LEMMA HoldsShown ==
  ASSUME TypeOK, NEW p \in Paths, NEW contents, Holds(contents),
         secrets'[p] = secrets[p],
         secrets[p] # Nil /\ secrets[p].fields # Nil =>
           contents[secrets[p].fields] = heap[secrets[p].fields]
  PROVE  Shown(p)' = Shown(p)
<1>1. CASE secrets[p] # Nil /\ secrets[p].fields # Nil
  <2>1. secrets[p].fields \in Refs
    BY <1>1 DEF TypeOK, Secrets
  <2>2. InUse(secrets', held', secrets[p].fields)
    BY <1>1 DEF InUse, Reaches
  <2>3. heap'[secrets[p].fields] = contents[secrets[p].fields]
    BY <2>1, <2>2 DEF Holds
  <2> QED
    BY <1>1, <2>3, ShownStays
<1>2. CASE ~(secrets[p] # Nil /\ secrets[p].fields # Nil)
  BY <1>2, ShownStays
<1> QED
  BY <1>1, <1>2

\* Copying a secret leaves alone what other references lead to.
LEMMA CopyLeavesAlone ==
  ASSUME TypeOK, NEW s, CanCopy(s), NEW p \in Paths,
         secrets[p] # Nil, secrets[p].fields # Nil
  PROVE  HeapWithCopy(s)[secrets[p].fields] = heap[secrets[p].fields]
<1>1. CASE s.fields = Nil
  BY <1>1 DEF HeapWithCopy
<1>2. CASE s.fields # Nil
  <2>1. ~Reaches(Owned(p), Fresh)
    BY <1>2, FreshReached DEF CanCopy, Slots
  <2>2. secrets[p].fields # Fresh /\ secrets[p].fields \in Refs
    BY <2>1 DEF Owned, At, Reaches, TypeOK, Secrets
  <2> QED
    BY <1>2, <2>2 DEF HeapWithCopy, TypeOK
<1> QED
  BY <1>1, <1>2

\* Get, and whatever callers do to the secrets they hold, show nothing new.
LEMMA CallersKeep ==
  ASSUME Inv, NEW h \in Holders,
         \/ \E part \in {"fields", "extra"}, v \in Values : Mutate(h, part, v)
         \/ MakeSecret(h)
         \/ DropSecret(h)
         \/ \E p \in Paths : Get(p, h),
         NEW q \in Paths
  PROVE  Shown(q)' = Shown(q)
<1> USE DEF Inv
<1> secrets[q] # Nil /\ secrets[q].fields # Nil =>
      secrets[q].fields \in Refs
  BY DEF TypeOK, Secrets
<1>1. ASSUME NEW part \in {"fields", "extra"}, NEW v \in Values,
             Mutate(h, part, v)
      PROVE  Shown(q)' = Shown(q)
  <2>1. CASE held[h][part] = Nil
    <3>1. Fresh \in Refs /\ ~Reaches(Owned(q), Fresh)
      BY <1>1, <2>1, FreshReached DEF Mutate, Slots
    <3>2. secrets[q] # Nil /\ secrets[q].fields # Nil =>
            [heap EXCEPT ![Fresh] = v][secrets[q].fields]
              = heap[secrets[q].fields]
      BY <3>1 DEF Owned, At, Reaches, TypeOK
    <3> QED
      BY <1>1, <2>1, <3>2, HoldsShown DEF Mutate
  <2>2. CASE held[h][part] # Nil
    <3>1. h \in Slots /\ q \in Slots /\ h # q
          /\ Owned(h) = held[h] /\ Owned(q) = secrets[q]
      BY DEF Slots, Owned, At
    <3>2. secrets[q] # Nil /\ secrets[q].fields # Nil =>
            held[h][part] # secrets[q].fields
      <4>1. CASE part = "fields"
        BY <1>1, <2>2, <3>1, <4>1 DEF Mutate, Separate, Reaches
      <4>2. CASE part = "extra"
        BY <1>1, <2>2, <3>1, <4>2 DEF Mutate, Separate, Reaches
      <4> QED
        BY <4>1, <4>2
    <3>3. secrets[q] # Nil /\ secrets[q].fields # Nil =>
            heap'[secrets[q].fields] = heap[secrets[q].fields]
      BY <1>1, <2>2, <3>2 DEF Mutate, TypeOK
    <3> QED
      BY <1>1, <2>2, <3>3, ShownStays DEF Mutate
  <2> QED
    BY <2>1, <2>2
<1>2. CASE MakeSecret(h)
  BY <1>2, ShownStays DEF MakeSecret
<1>3. CASE DropSecret(h)
  BY <1>3, HoldsShown DEF DropSecret
<1>4. ASSUME NEW p \in Paths, Get(p, h)
      PROVE  Shown(q)' = Shown(q)
  BY <1>4, HoldsShown, CopyLeavesAlone DEF Get
<1> QED
  BY <1>1, <1>2, <1>3, <1>4

\* Set shows at p what the caller's secret shows, and no other change.
LEMMA SetShows ==
  ASSUME Inv, NEW p \in Paths, NEW h \in Holders, Set(p, h)
  PROVE  /\ Shown(p)' = CopiedContent(held[h])
         /\ CopiedContent(held[h]) \in [fields : Values \cup {Nil}]
         /\ \A q \in Paths \ {p} : Shown(q)' = Shown(q)
<1> USE DEF Inv
<1>1. held[h] \in Secrets /\ CanCopy(held[h])
  BY DEF Set, TypeOK, CanCopy
<1>2. CopiedContent(held[h]) \in [fields : Values \cup {Nil}]
  BY <1>1 DEF CopiedContent, Content, TypeOK, Secrets, CanCopy
<1>3. \A q \in Paths \ {p} : Shown(q)' = Shown(q)
  <2> SUFFICES ASSUME NEW q \in Paths, q # p
               PROVE  Shown(q)' = Shown(q)
    OBVIOUS
  <2>1. secrets'[q] = secrets[q]
    BY DEF Set, TypeOK
  <2> QED
    BY <1>1, <2>1, HoldsShown, CopyLeavesAlone DEF Set
<1>4. secrets'[p] = Copy(held[h])
  BY DEF Set, TypeOK
<1>5. CASE held[h].fields = Nil
  BY <1>1, <1>2, <1>3, <1>4, <1>5
     DEF Copy, Shown, CopiedContent, Content
<1>6. CASE held[h].fields # Nil
  <2>1. Fresh \in Refs /\ Fresh # Nil
    BY <1>1, <1>6, FreshReached DEF CanCopy
  <2>2. /\ secrets'[p] # Nil
        /\ secrets'[p].fields = Fresh
    BY <1>1, <1>4, <1>6, <2>1, CopyType DEF Copy, Secrets
  <2>3. InUse(secrets', held', Fresh)
    BY <2>2 DEF InUse, Reaches
  <2>4. heap'[Fresh] = HeapWithCopy(held[h])[Fresh]
    BY <2>1, <2>3 DEF Set, Holds
  <2>5. heap'[Fresh] = heap[held[h].fields]
    BY <1>6, <2>1, <2>4 DEF HeapWithCopy, TypeOK
  <2> QED
    BY <1>1, <1>2, <1>3, <1>6, <2>1, <2>2, <2>5
       DEF Shown, CopiedContent, Content, CanCopy
<1> QED
  BY <1>2, <1>3, <1>5, <1>6

\* Every step is one of the abstract map, or changes nothing there.
LEMMA StepsImplement == Inv /\ [Next]_vars => [Copied!Next]_(Copied!vars)
<1> SUFFICES ASSUME Inv, [Next]_vars PROVE [Copied!Next]_(Copied!vars)
  OBVIOUS
<1> DEFINE map == [p \in Paths |-> Shown(p)]
<1>1. ASSUME \A q \in Paths : Shown(q)' = Shown(q), UNCHANGED closed
      PROVE  UNCHANGED Copied!vars
  BY <1>1 DEF Copied!vars, Shown
<1>2. ASSUME NEW h \in Holders,
             \/ \E part \in {"fields", "extra"}, v \in Values :
                  Mutate(h, part, v)
             \/ MakeSecret(h)
             \/ DropSecret(h)
             \/ \E p \in Paths : Get(p, h)
      PROVE  UNCHANGED Copied!vars
  <2>1. \A q \in Paths : Shown(q)' = Shown(q)
    BY <1>2, CallersKeep
  <2>2. UNCHANGED closed
    BY <1>2 DEF Mutate, MakeSecret, DropSecret, Get
  <2> QED
    BY <1>1, <2>1, <2>2
<1>3. ASSUME NEW p \in Paths, NEW h \in Holders, Set(p, h)
      PROVE  Copied!Next
  <2> DEFINE s == CopiedContent(held[h])
  <2>1. /\ Shown(p)' = s
        /\ s \in [fields : Values \cup {Nil}]
        /\ \A q \in Paths \ {p} : Shown(q)' = Shown(q)
    BY <1>3, SetShows
  <2>2. map' = [map EXCEPT ![p] = s]
    BY <2>1
  <2>3. ~closed /\ UNCHANGED closed
    BY <1>3 DEF Set, Open
  <2>4. Copied!Set(p, s)
    BY <2>2, <2>3 DEF Copied!Set, Shown
  <2> QED
    BY <2>1, <2>4 DEF Copied!Next
<1>4. ASSUME NEW p \in Paths, Delete(p)
      PROVE  Copied!Next
  <2>1. \A q \in Paths : secrets'[q] = IF q = p THEN Nil ELSE secrets[q]
    BY <1>4 DEF Delete, Inv, TypeOK
  <2>2. \A q \in Paths \ {p} : Shown(q)' = Shown(q)
    BY <1>4, <2>1, HoldsShown DEF Delete, Inv
  <2>3. Shown(p)' = Nil
    BY <2>1 DEF Shown, CopiedContent
  <2>4. map' = [map EXCEPT ![p] = Nil]
    BY <2>2, <2>3
  <2>5. ~closed /\ UNCHANGED closed
    BY <1>4 DEF Delete, Open
  <2>6. Copied!Delete(p)
    BY <2>4, <2>5 DEF Copied!Delete, Shown
  <2> QED
    BY <2>6 DEF Copied!Next
<1>5. ASSUME secrets' = NoSecrets
      PROVE  map' = Copied!NoSecrets
  BY <1>5 DEF NoSecrets, Copied!NoSecrets, Shown, CopiedContent
<1>6. CASE Clear
  BY <1>5, <1>6 DEF Clear, Copied!Clear, Copied!Next, Shown
<1>7. CASE Close
  BY <1>5, <1>7 DEF Close, Copied!Close, Copied!Next, Shown
<1>8. CASE UNCHANGED vars
  <2>1. \A q \in Paths : Shown(q)' = Shown(q)
    BY <1>8 DEF vars, Shown, CopiedContent, Content
  <2> QED
    BY <1>1, <1>8, <2>1 DEF vars
<1> QED
  BY <1>2, <1>3, <1>4, <1>6, <1>7, <1>8 DEF Next

\* What New and NewWithSecrets make is a map, too.
LEMMA InitImplements == Init => Copied!Init
<1> SUFFICES ASSUME Init PROVE Copied!Init
  OBVIOUS
<1>1. \A p \in Paths :
        CopiedContent(secrets[p]) \in [fields : Values \cup {Nil}] \cup {Nil}
  BY DEF Init, CopiedContent, Content
<1> QED
  BY <1>1 DEF Init, Copied!Init

\* As far as copySecret duplicates a secret the memory provider is the map of
\* VaultMap: only Set, Delete, Clear and Close change what it stores.
THEOREM Implements == Spec => IsAMap
<1>1. Spec => [][Copied!Next]_(Copied!vars)
  BY Inductive, StepsImplement, PTL DEF Spec
<1> QED
  BY <1>1, InitImplements, PTL DEF Spec, IsAMap, Copied!Spec
=============================================================================
