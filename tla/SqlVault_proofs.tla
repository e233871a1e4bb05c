-------------------------- MODULE SqlVault_proofs --------------------------
(***************************************************************************)
(* Proofs about SqlVault: what the providers that share a table promise    *)
(* holds for every database, any number of providers, keys, paths and      *)
(* values.                                                                 *)
(*                                                                         *)
(* The argument is one about names.  What the database holds under a name  *)
(* is at all times among the rows possible there; a statement that waits,  *)
(* or that its caller gave up, made its row possible when it was sent; and *)
(* what an acknowledged statement makes the only possible row is the row   *)
(* the table holds, provided no other statement for the name was about     *)
(* while it was under way.                                                 *)
(***************************************************************************)
EXTENDS SqlVault, TLAPS

\* Rows carry the key_id of the key they were sealed with.
Tagged(row) == row # Nil => row.keyId = row.key

RowsTagged ==
  /\ \A q \in Paths : Tagged(table[q])
  /\ \A c \in Providers : call[c] # Nil => Tagged(call[c].stmt.row)
  /\ \A s \in late : Tagged(s.row)

\* What the table holds under a name is possible there,
HeldIsPossible ==
  \A p \in Paths :
    /\ Stored(p) = {} => Nil \in possible[p]
    /\ \A q \in Stored(p) : table[q] \in possible[p]

\* and so is what a statement that was sent may still put there.
SentIsPossible ==
  \A p \in Paths :
    /\ \A c \in Providers :
         call[c] # Nil /\ SameName(call[c].stmt.path, p) =>
           call[c].stmt.row \in possible[p]
    /\ \A s \in late : SameName(s.path, p) => s.row \in possible[p]

\* A call marked so is alone with its name, and once its statement was run,
\* the table holds its row there.
Holds(p, row) ==
  /\ row = Nil => Stored(p) = {}
  /\ row # Nil => Stored(p) # {} /\ \A q \in Stored(p) : table[q] = row

AloneIsLast ==
  \A c \in Providers : call[c] # Nil /\ call[c].alone =>
    /\ Alone(c, call[c].stmt.path)
    /\ call[c].run => Holds(call[c].stmt.path, call[c].stmt.row)

Inv ==
  TypeOK /\ RowsTagged /\ HeldIsPossible /\ SentIsPossible /\ AloneIsLast
-----------------------------------------------------------------------------
(* Names *)

\* A database that takes some paths for one name partitions the paths.
LEMMA SameNameIsEquivalence ==
  ASSUME NEW p \in Paths, NEW q \in Paths, NEW r \in Paths
  PROVE  /\ SameName(p, p)
         /\ SameName(p, q) => SameName(q, p)
         /\ SameName(p, q) /\ SameName(q, r) => SameName(p, r)
  BY DEF SameName

\* It does so in the same way all the time.
LEMMA NamesStay ==
  ASSUME database' = database
  PROVE  \A p, q \in Paths : SameName(p, q)' <=> SameName(p, q)
  BY DEF SameName

\* A name has at most one row.
OneRow ==
  \A p, q \in Paths :
    table[p] # Nil /\ table[q] # Nil /\ SameName(p, q) => p = q

LEMMA StoredOnce ==
  ASSUME OneRow, NEW p \in Paths, NEW q \in Stored(p), NEW r \in Stored(p)
  PROVE  q = r
  <1>1. /\ q \in Paths /\ r \in Paths /\ table[q] # Nil /\ table[r] # Nil
        /\ SameName(q, p) /\ SameName(r, p)
    BY DEF Stored
  <1>2. SameName(q, r)
    BY <1>1, SameNameIsEquivalence
  <1> QED
    BY <1>1, <1>2 DEF OneRow

\* Running a statement makes its row the one the table holds under its name,
\* whatever it held there, and touches no other name.
LEMMA RunDoesIt ==
  ASSUME TypeOK, NEW stmt \in Statements, Run(stmt), database' = database
  PROVE  /\ table' \in [Paths -> Rows \cup {Nil}]
         /\ OneRow'
         /\ \A p \in Paths : SameName(stmt.path, p) => Holds(p, stmt.row)'
         /\ \A p \in Paths : ~SameName(stmt.path, p) =>
              Stored(p)' = Stored(p) /\ \A q \in Stored(p) : table'[q] = table[q]
         /\ \A q \in Paths : table'[q] \in {table[q], Nil, stmt.row}
  <1> DEFINE path == stmt.path
             row  == stmt.row
  <1>1. path \in Paths /\ row \in Rows \cup {Nil}
    BY DEF Statements
  <1>2. table \in [Paths -> Rows \cup {Nil}] /\ OneRow
    BY DEF TypeOK, OneRow
  <1>3. \A p, q \in Paths : SameName(p, q)' <=> SameName(p, q)
    BY NamesStay
  <1>4. \A p \in Paths : /\ Stored(p) \subseteq Paths
                         /\ \A q \in Paths : q \in Stored(p) <=>
                              table[q] # Nil /\ SameName(q, p)
    BY DEF Stored
  <1>5. \A p \in Paths : /\ Stored(p)' \subseteq Paths
                         /\ \A q \in Paths : q \in Stored(p)' <=>
                              table'[q] # Nil /\ SameName(q, p)
    BY <1>3 DEF Stored
  <1>6. CASE row = Nil
    <2>1. table' = [q \in Paths |-> IF q \in Stored(path) THEN Nil ELSE table[q]]
      BY <1>6 DEF Run, Deleted
    <2>2. \A q \in Paths :
            table'[q] = IF q \in Stored(path) THEN Nil ELSE table[q]
      BY <2>1
    <2>3. table' \in [Paths -> Rows \cup {Nil}]
      BY <1>2, <2>1
    <2>4. OneRow'
      BY <1>2, <1>3, <2>2 DEF OneRow
    <2>5. ASSUME NEW p \in Paths, SameName(path, p)
          PROVE  Holds(p, row)'
      <3>1. ASSUME NEW q \in Paths, q \in Stored(p)' PROVE FALSE
        <4>1. table'[q] # Nil /\ SameName(q, p)
          BY <1>5, <3>1
        <4>2. SameName(q, path)
          BY <1>1, <2>5, <4>1, SameNameIsEquivalence
        <4>3. q \notin Stored(path)
          BY <2>2, <4>1
        <4>4. table[q] # Nil
          BY <2>2, <4>1, <4>3
        <4> QED
          BY <1>1, <1>4, <4>2, <4>3, <4>4
      <3>2. Stored(p)' = {}
        BY <1>5, <3>1
      <3> QED
        BY <1>6, <3>2 DEF Holds
    <2>6. ASSUME NEW p \in Paths, ~SameName(path, p)
          PROVE  Stored(p)' = Stored(p) /\ \A q \in Stored(p) : table'[q] = table[q]
      <3>1. ASSUME NEW q \in Paths, SameName(q, p)
            PROVE  q \notin Stored(path)
        BY <1>1, <1>4, <2>6, <3>1, SameNameIsEquivalence
      <3>2. \A q \in Paths : SameName(q, p) => table'[q] = table[q]
        BY <2>2, <3>1
      <3> QED
        BY <1>4, <1>5, <3>2
    <2> QED
      BY <2>2, <2>3, <2>4, <2>5, <2>6
  <1>7. CASE row # Nil /\ Stored(path) = {}
    <2>1. table' = [table EXCEPT ![path] = row]
      BY <1>7 DEF Run, Upserted
    <2>2. \A q \in Paths : table'[q] = IF q = path THEN row ELSE table[q]
      BY <1>2, <2>1
    <2>3. table' \in [Paths -> Rows \cup {Nil}]
      BY <1>1, <1>2, <2>1
    <2>4. \A q \in Paths : table[q] # Nil => ~SameName(q, path)
      BY <1>1, <1>4, <1>7
    <2>5. OneRow'
      <3>1. SUFFICES ASSUME NEW q \in Paths, NEW r \in Paths, q # r,
                            table'[q] # Nil, table'[r] # Nil, SameName(q, r)
                     PROVE  FALSE
        BY <1>3 DEF OneRow
      <3>2. SameName(r, q)
        BY <3>1, SameNameIsEquivalence
      <3>3. CASE q = path
        BY <2>2, <2>4, <3>1, <3>2, <3>3
      <3>4. CASE r = path
        BY <2>2, <2>4, <3>1, <3>4
      <3>5. CASE q # path /\ r # path
        BY <1>2, <2>2, <3>1, <3>5 DEF OneRow
      <3> QED
        BY <3>3, <3>4, <3>5
    <2>6. ASSUME NEW p \in Paths, SameName(path, p)
          PROVE  Holds(p, row)'
      <3>1. path \in Stored(p)'
        BY <1>1, <1>5, <1>7, <2>2, <2>6
      <3>2. ASSUME NEW q \in Stored(p)' PROVE table'[q] = row
        <4>1. q \in Paths /\ table'[q] # Nil /\ SameName(q, p)
          BY <1>5, <3>2
        <4>2. SameName(q, path)
          BY <1>1, <2>6, <4>1, SameNameIsEquivalence
        <4> QED
          BY <2>2, <2>4, <4>1, <4>2
      <3> QED
        BY <1>7, <3>1, <3>2 DEF Holds
    <2>7. ASSUME NEW p \in Paths, ~SameName(path, p)
          PROVE  Stored(p)' = Stored(p) /\ \A q \in Stored(p) : table'[q] = table[q]
      <3>1. \A q \in Paths : SameName(q, p) => q # path
        BY <2>7
      <3>2. \A q \in Paths : SameName(q, p) => table'[q] = table[q]
        BY <2>2, <3>1
      <3> QED
        BY <1>4, <1>5, <3>2
    <2> QED
      BY <2>2, <2>3, <2>5, <2>6, <2>7
  <1>8. CASE row # Nil /\ Stored(path) # {}
    <2>1. table' = [q \in Paths |-> IF q \in Stored(path) THEN row ELSE table[q]]
      BY <1>8 DEF Run, Upserted
    <2>2. \A q \in Paths :
            table'[q] = IF q \in Stored(path) THEN row ELSE table[q]
      BY <2>1
    <2>3. table' \in [Paths -> Rows \cup {Nil}]
      BY <1>1, <1>2, <2>1
    <2>4. \A q \in Paths : table'[q] # Nil <=> table[q] # Nil
      BY <1>1, <1>4, <1>8, <2>2
    <2>5. OneRow'
      BY <1>2, <1>3, <2>4 DEF OneRow
    <2>6. \A p \in Paths : Stored(p)' = Stored(p)
      BY <1>4, <1>5, <2>4
    <2>7. ASSUME NEW p \in Paths, SameName(path, p)
          PROVE  Holds(p, row)'
      <3>1. Stored(p) = Stored(path)
        <4>1. \A q \in Paths : SameName(q, p) <=> SameName(q, path)
          BY <1>1, <2>7, SameNameIsEquivalence
        <4> QED
          BY <1>1, <1>4, <4>1
      <3>2. \A q \in Stored(p)' : table'[q] = row
        BY <1>4, <2>2, <2>6, <3>1
      <3>3. Stored(p)' # {}
        BY <1>8, <2>6, <3>1
      <3> QED
        BY <1>8, <3>2, <3>3 DEF Holds
    <2>8. ASSUME NEW p \in Paths, ~SameName(path, p)
          PROVE  Stored(p)' = Stored(p) /\ \A q \in Stored(p) : table'[q] = table[q]
      <3>1. ASSUME NEW q \in Paths, SameName(q, p)
            PROVE  q \notin Stored(path)
        BY <1>1, <1>4, <2>8, <3>1, SameNameIsEquivalence
      <3>2. \A q \in Stored(p) : table'[q] = table[q]
        BY <1>4, <2>2, <3>1
      <3> QED
        BY <2>6, <3>2
    <2> QED
      BY <2>2, <2>3, <2>5, <2>7, <2>8
  <1> QED
    BY <1>6, <1>7, <1>8
-----------------------------------------------------------------------------
(* Steps *)

LEMMA InitInv ==
  ASSUME SqlConstants, Init
  PROVE  Inv
  <1>1. TypeOK
    BY DEF SqlConstants, Init, TypeOK
  <1>2. RowsTagged
    BY DEF Init, RowsTagged, Tagged
  <1>3. HeldIsPossible
    BY DEF Init, HeldIsPossible, Stored
  <1>4. SentIsPossible
    BY DEF Init, SentIsPossible
  <1>5. AloneIsLast
    BY DEF Init, AloneIsLast
  <1> QED
    BY <1>1, <1>2, <1>3, <1>4, <1>5 DEF Inv

\* What a statement a caller has sent is made of.
LEMMA SentStatement ==
  ASSUME SqlConstants, TypeOK, NEW c \in Providers, call[c] # Nil
  PROVE  /\ call[c] \in Calls
         /\ call[c].stmt \in Statements
         /\ call[c].stmt.path \in Paths
         /\ call[c].stmt.row \in Rows \cup {Nil}
         /\ call[c].run \in BOOLEAN /\ call[c].alone \in BOOLEAN
  BY DEF TypeOK, Calls, Statements

\* The table and its names stay the same.
LEMMA TableStays ==
  ASSUME UNCHANGED <<database, table>>
  PROVE  /\ \A p, q \in Paths : SameName(p, q)' <=> SameName(p, q)
         /\ \A p \in Paths : Stored(p)' = Stored(p)
         /\ OneRow => OneRow'
  <1>1. \A p, q \in Paths : SameName(p, q)' <=> SameName(p, q)
    BY NamesStay
  <1> QED
    BY <1>1 DEF Stored, OneRow

\* A statement that the database runs, of a caller or of one who gave up.
LEMMA RunKeeps ==
  ASSUME SqlConstants, Inv, NEW stmt \in Statements, Run(stmt), Tagged(stmt.row),
         UNCHANGED <<database, created, possible>>,
         \A p \in Paths : SameName(stmt.path, p) => stmt.row \in possible[p]
  PROVE  /\ \A q \in Paths : Tagged(table'[q])
         /\ HeldIsPossible'
         /\ ~created' => table' = [p \in Paths |-> Nil]
  <1>1. /\ table' \in [Paths -> Rows \cup {Nil}]
        /\ \A p \in Paths : SameName(stmt.path, p) => Holds(p, stmt.row)'
        /\ \A p \in Paths : ~SameName(stmt.path, p) =>
             Stored(p)' = Stored(p) /\ \A q \in Stored(p) : table'[q] = table[q]
        /\ \A q \in Paths : table'[q] \in {table[q], Nil, stmt.row}
    BY RunDoesIt DEF Inv
  <1>2. \A q \in Paths : Tagged(table'[q])
    BY <1>1 DEF Inv, RowsTagged, Tagged
  <1>3. ASSUME NEW p \in Paths
        PROVE  /\ Stored(p)' = {} => Nil \in possible[p]
               /\ \A q \in Stored(p)' : table'[q] \in possible[p]
    <2>1. CASE SameName(stmt.path, p)
      BY <1>1, <2>1 DEF Holds
    <2>2. CASE ~SameName(stmt.path, p)
      BY <1>1, <2>2 DEF Inv, HeldIsPossible
    <2> QED
      BY <2>1, <2>2
  <1>4. HeldIsPossible'
    BY <1>3 DEF HeldIsPossible
  <1>5. created'
    BY DEF Run
  <1> QED
    BY <1>2, <1>4, <1>5

LEMMA SendKeeps ==
  ASSUME SqlConstants, Inv, NEW c \in Providers, NEW p \in Paths,
         NEW row \in Rows \cup {Nil}, Tagged(row), Send(c, p, row)
  PROVE  Inv'
  <1> DEFINE new == [stmt |-> [path |-> p, row |-> row], run |-> FALSE,
                     alone |-> Alone(c, p)]
             less(d) == [call[d] EXCEPT !.alone = FALSE]
  <1>1. /\ TypeOK /\ RowsTagged /\ HeldIsPossible /\ SentIsPossible
        /\ AloneIsLast
    BY DEF Inv
  <1>2. /\ UNCHANGED <<database, created, table, late, faults>>
        /\ call[c] = Nil
    BY DEF Send
  <1>3. /\ \A q, r \in Paths : SameName(q, r)' <=> SameName(q, r)
        /\ \A q \in Paths : Stored(q)' = Stored(q)
        /\ OneRow => OneRow'
    BY <1>2, TableStays
  <1>4. Alone(c, p) \in BOOLEAN
    BY DEF Alone
  <1>5. /\ new \in Calls /\ new.stmt = [path |-> p, row |-> row]
        /\ new.stmt.path = p /\ new.stmt.row = row
        /\ new.run = FALSE /\ (new.alone <=> Alone(c, p))
    BY <1>4 DEF Calls, Statements
  <1>6. /\ call' = [d \in Providers |->
              IF d = c THEN new
              ELSE IF d \in Rivals(c, p) THEN less(d) ELSE call[d]]
        /\ possible' = [q \in Paths |->
              possible[q] \cup (IF SameName(p, q) THEN {row} ELSE {})]
    BY DEF Send
  <1>7. ASSUME NEW d \in Providers, call[d] # Nil
        PROVE  /\ less(d) \in Calls /\ less(d) # Nil
               /\ less(d).stmt = call[d].stmt /\ less(d).run = call[d].run
               /\ less(d).alone = FALSE
    BY <1>1, <1>7, SentStatement DEF Calls, SqlConstants
  <1>8. new # Nil
    BY <1>5 DEF SqlConstants
  <1> HIDE DEF new, less
  <1>9. /\ call'[c] = new
        /\ \A d \in Providers \ {c} :
             call'[d] = IF d \in Rivals(c, p) THEN less(d) ELSE call[d]
    BY <1>6
  <1>10. ASSUME NEW d \in Providers \ {c}
         PROVE  /\ call'[d] \in Calls \cup {Nil}
                /\ call'[d] # Nil <=> call[d] # Nil
                /\ call[d] # Nil => /\ call'[d].stmt = call[d].stmt
                                    /\ call'[d].run = call[d].run
                /\ call[d] # Nil /\ call'[d].alone =>
                     call[d].alone /\ ~SameName(call[d].stmt.path, p)
    <2>1. d \in Rivals(c, p) <=> call[d] # Nil /\ SameName(call[d].stmt.path, p)
      BY DEF Rivals
    <2>2. call[d] \in Calls \cup {Nil}
      BY <1>1 DEF TypeOK
    <2>3. CASE d \in Rivals(c, p)
      BY <1>7, <1>9, <2>1, <2>3
    <2>4. CASE d \notin Rivals(c, p)
      BY <1>9, <2>1, <2>2, <2>4
    <2> QED
      BY <2>3, <2>4
  <1>11. TypeOK'
    <2>1. call' \in [Providers -> Calls \cup {Nil}]
      <3>1. \A d \in Providers : call'[d] \in Calls \cup {Nil}
        BY <1>5, <1>9, <1>10
      <3>2. DOMAIN call' = Providers /\ call' = [d \in Providers |-> call'[d]]
        BY <1>6
      <3> QED
        BY <3>1, <3>2
    <2>2. possible' \in [Paths -> SUBSET (Rows \cup {Nil})]
      BY <1>1, <1>6 DEF TypeOK
    <2>3. OneRow'
      BY <1>1, <1>3 DEF TypeOK, OneRow
    <2> QED
      BY <1>1, <1>2, <2>1, <2>2, <2>3 DEF TypeOK, OneRow
  <1>12. RowsTagged'
    BY <1>1, <1>2, <1>5, <1>9, <1>10 DEF RowsTagged
  <1>13. \A q \in Paths : /\ possible[q] \subseteq possible'[q]
                          /\ SameName(p, q) => row \in possible'[q]
    BY <1>6
  <1>14. HeldIsPossible'
    BY <1>1, <1>2, <1>3, <1>13 DEF HeldIsPossible
  <1>15. SentIsPossible'
    <2>1. SUFFICES ASSUME NEW q \in Paths
                   PROVE  /\ \A d \in Providers :
                               call'[d] # Nil /\ SameName(call[d].stmt.path, q)'
                                 => call'[d].stmt.row \in possible'[q]
                          /\ \A s \in late : SameName(s.path, q)' =>
                               s.row \in possible'[q]
      BY <1>2 DEF SentIsPossible
    <2>2. ASSUME NEW d \in Providers, call'[d] # Nil,
                 SameName(call[d].stmt.path, q)'
          PROVE  call'[d].stmt.row \in possible'[q]
      <3>1. CASE d = c
        BY <1>3, <1>5, <1>9, <1>13, <2>2, <3>1
      <3>2. CASE d # c
        <4>1. /\ call[d] # Nil /\ call'[d].stmt = call[d].stmt
              /\ call[d].stmt.path \in Paths
          BY <1>1, <1>10, <2>2, <3>2, SentStatement
        <4>2. SameName(call[d].stmt.path, q)
          BY <1>3, <2>2, <4>1
        <4> QED
          BY <1>1, <1>13, <4>1, <4>2 DEF SentIsPossible
      <3> QED
        BY <3>1, <3>2
    <2>3. ASSUME NEW s \in late, SameName(s.path, q)'
          PROVE  s.row \in possible'[q]
      <3>1. s.path \in Paths
        BY <1>1 DEF TypeOK, Statements
      <3> QED
        BY <1>1, <1>3, <1>13, <2>3, <3>1 DEF SentIsPossible
    <2> QED
      BY <2>2, <2>3
  <1>16. AloneIsLast'
    <2>1. SUFFICES ASSUME NEW d \in Providers, call'[d] # Nil, call'[d].alone
                   PROVE  /\ Alone(d, call[d].stmt.path)'
                          /\ call'[d].run =>
                               Holds(call[d].stmt.path, call[d].stmt.row)'
      BY DEF AloneIsLast
    <2>2. CASE d = c
      <3>1. Rivals(c, p) = {} /\ ~\E s \in late : SameName(s.path, p)
        BY <1>5, <1>9, <2>1, <2>2 DEF Alone
      <3>2. ASSUME NEW e \in Rivals(c, p)' PROVE FALSE
        <4>1. /\ e \in Providers \ {c} /\ call'[e] # Nil
              /\ SameName(call[e].stmt.path, p)'
          BY DEF Rivals
        <4>2. /\ call[e] # Nil /\ call'[e].stmt = call[e].stmt
              /\ call[e].stmt.path \in Paths
          BY <1>1, <1>10, <4>1, SentStatement
        <4> QED
          BY <1>3, <3>1, <4>1, <4>2 DEF Rivals
      <3>3. ~\E s \in late : SameName(s.path, p)'
        <4>1. \A s \in late : s.path \in Paths
          BY <1>1 DEF TypeOK, Statements
        <4> QED
          BY <1>3, <3>1, <4>1
      <3>4. Alone(c, p)'
        BY <1>2, <3>2, <3>3 DEF Alone
      <3> QED
        BY <1>5, <1>9, <2>2, <3>4
    <2>3. CASE d # c
      <3>1. /\ call[d] # Nil /\ call[d].alone
            /\ call'[d].stmt = call[d].stmt /\ call'[d].run = call[d].run
            /\ ~SameName(call[d].stmt.path, p)
            /\ call[d].stmt.path \in Paths
        BY <1>1, <1>10, <2>1, <2>3, SentStatement
      <3> DEFINE path == call[d].stmt.path
      <3>2. /\ Rivals(d, path) = {} /\ ~\E s \in late : SameName(s.path, path)
            /\ call[d].run => Holds(path, call[d].stmt.row)
        BY <1>1, <3>1 DEF AloneIsLast, Alone
      <3>3. ASSUME NEW e \in Providers \ {d}, call'[e] # Nil,
                   SameName(call[e].stmt.path, path)'
            PROVE  FALSE
        <4>1. CASE e = c
          BY <1>3, <1>5, <1>9, <3>1, <3>3, <4>1, SameNameIsEquivalence
        <4>2. CASE e # c
          <5>1. /\ call[e] # Nil /\ call'[e].stmt = call[e].stmt
                /\ call[e].stmt.path \in Paths
            BY <1>1, <1>10, <3>3, <4>2, SentStatement
          <5> QED
            BY <1>3, <3>1, <3>2, <3>3, <5>1 DEF Rivals
        <4> QED
          BY <4>1, <4>2
      <3>4. ~\E s \in late : SameName(s.path, path)'
        <4>1. \A s \in late : s.path \in Paths
          BY <1>1 DEF TypeOK, Statements
        <4> QED
          BY <1>3, <3>1, <3>2, <4>1
      <3>5. Alone(d, call[d].stmt.path)'
        BY <1>2, <3>1, <3>3, <3>4 DEF Alone, Rivals
      <3>6. Holds(path, call[d].stmt.row) =>
              Holds(call[d].stmt.path, call[d].stmt.row)'
        BY <1>2, <1>3, <3>1 DEF Holds
      <3> QED
        BY <3>1, <3>2, <3>5, <3>6
    <2> QED
      BY <2>2, <2>3
  <1> QED
    BY <1>11, <1>12, <1>14, <1>15, <1>16 DEF Inv

LEMMA ExecuteKeeps ==
  ASSUME SqlConstants, Inv, NEW c \in Providers, Execute(c)
  PROVE  Inv'
  <1> DEFINE new == [call[c] EXCEPT !.run = TRUE]
  <1>1. /\ TypeOK /\ RowsTagged /\ HeldIsPossible /\ SentIsPossible
        /\ AloneIsLast
    BY DEF Inv
  <1> PICK stmt \in Statements : stmt = call[c].stmt
    BY <1>1, SentStatement DEF Execute
  <1>2. /\ call[c] # Nil /\ ~call[c].run
        /\ Run(stmt)
        /\ UNCHANGED <<database, created, late, faults, possible>>
        /\ call' = [call EXCEPT ![c] = new]
    BY DEF Execute
  <1>3. /\ stmt \in Statements /\ stmt.path \in Paths
        /\ stmt.row \in Rows \cup {Nil} /\ Tagged(stmt.row)
    BY <1>1, <1>2, SentStatement DEF RowsTagged
  <1>4. /\ new \in Calls /\ new # Nil /\ new.stmt = stmt /\ new.run = TRUE
        /\ new.alone = call[c].alone
    BY <1>1, <1>2, SentStatement DEF Calls, SqlConstants
  <1> HIDE DEF new
  <1>5. /\ \A d \in Providers : call'[d] = IF d = c THEN new ELSE call[d]
        /\ call' \in [Providers -> Calls \cup {Nil}]
    BY <1>1, <1>2, <1>4 DEF TypeOK
  <1>6. \A d \in Providers : /\ call'[d] # Nil <=> call[d] # Nil
                             /\ call[d] # Nil => call'[d].stmt = call[d].stmt
                             /\ call'[d].alone = call[d].alone
    BY <1>2, <1>4, <1>5
  <1>7. \A p, q \in Paths : SameName(p, q)' <=> SameName(p, q)
    BY <1>2, NamesStay
  <1>8. /\ table' \in [Paths -> Rows \cup {Nil}]
        /\ OneRow'
        /\ \A p \in Paths : SameName(stmt.path, p) => Holds(p, stmt.row)'
        /\ \A p \in Paths : ~SameName(stmt.path, p) =>
             Stored(p)' = Stored(p) /\ \A q \in Stored(p) : table'[q] = table[q]
    BY <1>1, <1>2, <1>3, RunDoesIt
  <1>9. /\ \A q \in Paths : Tagged(table'[q])
        /\ HeldIsPossible'
        /\ ~created' => table' = [p \in Paths |-> Nil]
    <2>1. \A p \in Paths : SameName(stmt.path, p) => stmt.row \in possible[p]
      BY <1>1, <1>2 DEF SentIsPossible
    <2> QED
      BY <1>2, <1>3, <2>1, RunKeeps
  <1>10. TypeOK'
    BY <1>1, <1>2, <1>5, <1>8, <1>9 DEF TypeOK, OneRow
  <1>11. RowsTagged'
    BY <1>1, <1>2, <1>6, <1>9 DEF RowsTagged
  <1>12. SentIsPossible'
    <2>1. SUFFICES ASSUME NEW q \in Paths
                   PROVE  /\ \A d \in Providers :
                               call'[d] # Nil /\ SameName(call[d].stmt.path, q)'
                                 => call'[d].stmt.row \in possible[q]
                          /\ \A s \in late : SameName(s.path, q)' =>
                               s.row \in possible[q]
      BY <1>2 DEF SentIsPossible
    <2>2. ASSUME NEW d \in Providers, call'[d] # Nil,
                 SameName(call[d].stmt.path, q)'
          PROVE  call'[d].stmt.row \in possible[q]
      <3>1. /\ call[d] # Nil /\ call'[d].stmt = call[d].stmt
            /\ call[d].stmt.path \in Paths
        BY <1>1, <1>6, <2>2, SentStatement
      <3> QED
        BY <1>1, <1>7, <2>2, <3>1 DEF SentIsPossible
    <2>3. ASSUME NEW s \in late, SameName(s.path, q)'
          PROVE  s.row \in possible[q]
      <3>1. s.path \in Paths
        BY <1>1 DEF TypeOK, Statements
      <3> QED
        BY <1>1, <1>7, <2>3, <3>1 DEF SentIsPossible
    <2> QED
      BY <2>2, <2>3
  <1>13. AloneIsLast'
    <2>1. SUFFICES ASSUME NEW d \in Providers, call'[d] # Nil, call'[d].alone
                   PROVE  /\ Alone(d, call[d].stmt.path)'
                          /\ call'[d].run =>
                               Holds(call[d].stmt.path, call[d].stmt.row)'
      BY DEF AloneIsLast
    <2> DEFINE path == call[d].stmt.path
    <2>2. /\ call[d] # Nil /\ call[d].alone /\ call'[d].stmt = call[d].stmt
          /\ path \in Paths
          /\ Rivals(d, path) = {} /\ ~\E s \in late : SameName(s.path, path)
          /\ call[d].run => Holds(path, call[d].stmt.row)
      BY <1>1, <1>6, <2>1, SentStatement DEF AloneIsLast, Alone
    <2>3. Alone(d, path)'
      <3>1. ASSUME NEW e \in Providers \ {d}, call'[e] # Nil,
                   SameName(call[e].stmt.path, path)'
            PROVE  FALSE
        <4>1. /\ call[e] # Nil /\ call'[e].stmt = call[e].stmt
              /\ call[e].stmt.path \in Paths
          BY <1>1, <1>6, <3>1, SentStatement
        <4> QED
          BY <1>7, <2>2, <3>1, <4>1 DEF Rivals
      <3>2. ~\E s \in late : SameName(s.path, path)'
        <4>1. \A s \in late : s.path \in Paths
          BY <1>1 DEF TypeOK, Statements
        <4> QED
          BY <1>7, <2>2, <4>1
      <3> QED
        BY <1>2, <2>2, <3>1, <3>2 DEF Alone, Rivals
    <2>4. ASSUME call'[d].run PROVE Holds(call[d].stmt.path, call[d].stmt.row)'
      <3>1. CASE d = c
        <4>1. SameName(path, path)
          BY <2>2, SameNameIsEquivalence
        <4>2. Holds(path, stmt.row)'
          BY <1>8, <2>2, <3>1, <4>1
        <4> QED
          BY <2>2, <3>1, <4>2 DEF Holds
      <3>2. CASE d # c
        <4>1. call[d].run
          BY <1>5, <2>4, <3>2
        <4>2. ~SameName(stmt.path, path)
          BY <1>2, <2>2, <3>2 DEF Rivals
        <4>3. Stored(path)' = Stored(path)
              /\ \A q \in Stored(path) : table'[q] = table[q]
          BY <1>8, <2>2, <4>2
        <4> QED
          BY <2>2, <4>1, <4>3 DEF Holds
      <3> QED
        BY <3>1, <3>2
    <2> QED
      BY <2>2, <2>3, <2>4
  <1> QED
    BY <1>9, <1>10, <1>11, <1>12, <1>13 DEF Inv

\* A call ends; late and possible may change with it.
LEMMA EndKeeps ==
  ASSUME SqlConstants, Inv, NEW c \in Providers, call[c] # Nil,
         call' = [call EXCEPT ![c] = Nil],
         UNCHANGED <<database, created, table>>,
         late' \subseteq late \cup {call[c].stmt},
         faults' \in 0 .. MaxFaults,
         possible' \in [Paths -> SUBSET (Rows \cup {Nil})],
         HeldIsPossible',
         \A p \in Paths :
           /\ \A d \in Providers \ {c} :
                call[d] # Nil /\ SameName(call[d].stmt.path, p) =>
                  call[d].stmt.row \in possible'[p]
           /\ \A s \in late' : SameName(s.path, p) => s.row \in possible'[p]
  PROVE  Inv'
  <1>1. TypeOK /\ RowsTagged /\ SentIsPossible /\ AloneIsLast
    BY DEF Inv
  <1>2. /\ call'[c] = Nil
        /\ \A d \in Providers \ {c} : call'[d] = call[d]
        /\ call' \in [Providers -> Calls \cup {Nil}]
    BY <1>1 DEF TypeOK
  <1>3. /\ \A p, q \in Paths : SameName(p, q)' <=> SameName(p, q)
        /\ \A p \in Paths : Stored(p)' = Stored(p)
        /\ OneRow => OneRow'
    BY TableStays
  <1>4. call[c].stmt \in Statements /\ Tagged(call[c].stmt.row)
    BY <1>1, SentStatement DEF RowsTagged
  <1>5. late' \subseteq Statements /\ \A s \in late' : s.path \in Paths
    BY <1>1, <1>4 DEF TypeOK, Statements
  <1>6. TypeOK'
    BY <1>1, <1>2, <1>3, <1>5 DEF TypeOK, OneRow
  <1>7. RowsTagged'
    BY <1>1, <1>2, <1>4 DEF RowsTagged
  <1>8. SentIsPossible'
    <2>1. SUFFICES ASSUME NEW q \in Paths
                   PROVE  /\ \A d \in Providers :
                               call'[d] # Nil /\ SameName(call[d].stmt.path, q)'
                                 => call'[d].stmt.row \in possible'[q]
                          /\ \A s \in late' : SameName(s.path, q)' =>
                               s.row \in possible'[q]
      BY DEF SentIsPossible
    <2>2. ASSUME NEW d \in Providers, call'[d] # Nil,
                 SameName(call[d].stmt.path, q)'
          PROVE  call'[d].stmt.row \in possible'[q]
      <3>1. /\ d # c /\ call[d] # Nil /\ call'[d] = call[d]
            /\ call[d].stmt.path \in Paths
        BY <1>1, <1>2, <2>2, SentStatement
      <3> QED
        BY <1>3, <2>2, <3>1
    <2>3. ASSUME NEW s \in late', SameName(s.path, q)'
          PROVE  s.row \in possible'[q]
      BY <1>3, <1>5, <2>3
    <2> QED
      BY <2>2, <2>3
  <1>9. AloneIsLast'
    <2>1. SUFFICES ASSUME NEW d \in Providers, call'[d] # Nil, call'[d].alone
                   PROVE  /\ Alone(d, call[d].stmt.path)'
                          /\ call'[d].run =>
                               Holds(call[d].stmt.path, call[d].stmt.row)'
      BY DEF AloneIsLast
    <2> DEFINE path == call[d].stmt.path
    <2>2. /\ d # c /\ call'[d] = call[d] /\ call[d] # Nil /\ call[d].alone
          /\ path \in Paths
          /\ Rivals(d, path) = {} /\ ~\E s \in late : SameName(s.path, path)
          /\ call[d].run => Holds(path, call[d].stmt.row)
      BY <1>1, <1>2, <2>1, SentStatement DEF AloneIsLast, Alone
    <2>3. ASSUME NEW e \in Providers \ {d}, call'[e] # Nil,
                 SameName(call[e].stmt.path, path)'
          PROVE  FALSE
      <3>1. /\ call[e] # Nil /\ call'[e] = call[e]
            /\ call[e].stmt.path \in Paths
        BY <1>1, <1>2, <2>3, SentStatement
      <3> QED
        BY <1>3, <2>2, <2>3, <3>1 DEF Rivals
    <2>4. ~SameName(call[c].stmt.path, path)
      BY <2>2 DEF Rivals
    <2>5. ~\E s \in late' : SameName(s.path, path)'
      BY <1>3, <1>5, <2>2, <2>4
    <2>6. Alone(d, path)'
      BY <2>2, <2>3, <2>5 DEF Alone, Rivals
    <2>7. Holds(path, call[d].stmt.row) =>
            Holds(call[d].stmt.path, call[d].stmt.row)'
      BY <1>3, <2>2 DEF Holds
    <2> QED
      BY <2>2, <2>6, <2>7
  <1> QED
    BY <1>6, <1>7, <1>8, <1>9 DEF Inv

LEMMA ReturnKeeps ==
  ASSUME SqlConstants, Inv, NEW c \in Providers, Return(c)
  PROVE  Inv'
  <1> DEFINE path == call[c].stmt.path
             row  == call[c].stmt.row
  <1>1. /\ TypeOK /\ RowsTagged /\ HeldIsPossible /\ SentIsPossible
        /\ AloneIsLast
    BY DEF Inv
  <1>2. /\ call[c] # Nil /\ call[c].run
        /\ call' = [call EXCEPT ![c] = Nil]
        /\ possible' = [q \in Paths |->
             IF call[c].alone /\ SameName(path, q) THEN {row} ELSE possible[q]]
        /\ UNCHANGED <<database, created, table, late, faults>>
    BY DEF Return
  <1>3. path \in Paths /\ row \in Rows \cup {Nil}
    BY <1>1, <1>2, SentStatement
  <1>4. possible' \in [Paths -> SUBSET (Rows \cup {Nil})]
    BY <1>1, <1>2, <1>3 DEF TypeOK
  <1>5. \A p \in Paths : Stored(p)' = Stored(p)
    BY <1>2, TableStays
  <1>6. HeldIsPossible'
    <2>1. SUFFICES ASSUME NEW p \in Paths
                   PROVE  /\ Stored(p) = {} => Nil \in possible'[p]
                          /\ \A q \in Stored(p) : table[q] \in possible'[p]
      BY <1>2, <1>5 DEF HeldIsPossible
    <2>2. CASE call[c].alone /\ SameName(path, p)
      <3>1. Stored(p) = Stored(path)
        <4>1. \A q \in Paths : SameName(q, p) <=> SameName(q, path)
          BY <1>3, <2>2, SameNameIsEquivalence
        <4> QED
          BY <4>1 DEF Stored
      <3>2. Holds(path, row)
        BY <1>1, <1>2, <2>2 DEF AloneIsLast
      <3>3. possible'[p] = {row}
        BY <1>2, <2>2
      <3> QED
        BY <3>1, <3>2, <3>3 DEF Holds
    <2>3. CASE ~(call[c].alone /\ SameName(path, p))
      <3>1. possible'[p] = possible[p]
        BY <1>2, <2>3
      <3> QED
        BY <1>1, <3>1 DEF HeldIsPossible
    <2> QED
      BY <2>2, <2>3
  <1>7. ASSUME NEW p \in Paths
        PROVE  /\ \A d \in Providers \ {c} :
                    call[d] # Nil /\ SameName(call[d].stmt.path, p) =>
                      call[d].stmt.row \in possible'[p]
               /\ \A s \in late' : SameName(s.path, p) =>
                    s.row \in possible'[p]
    <2>1. CASE call[c].alone /\ SameName(path, p)
      <3>1. Rivals(c, path) = {} /\ ~\E s \in late : SameName(s.path, path)
        BY <1>1, <1>2, <2>1 DEF AloneIsLast, Alone
      <3>2. \A q \in Paths : SameName(q, p) => SameName(q, path)
        BY <1>3, <2>1, SameNameIsEquivalence
      <3>3. \A d \in Providers : call[d] # Nil => call[d].stmt.path \in Paths
        BY <1>1, SentStatement
      <3>4. \A s \in late : s.path \in Paths
        BY <1>1 DEF TypeOK, Statements
      <3> QED
        BY <1>2, <3>1, <3>2, <3>3, <3>4 DEF Rivals
    <2>2. CASE ~(call[c].alone /\ SameName(path, p))
      <3>1. possible'[p] = possible[p]
        BY <1>2, <2>2
      <3> QED
        BY <1>1, <1>2, <3>1 DEF SentIsPossible
    <2> QED
      BY <2>1, <2>2
  <1>8. faults' \in 0 .. MaxFaults
    BY <1>1, <1>2 DEF TypeOK
  <1> QED
    BY <1>2, <1>4, <1>6, <1>7, <1>8, EndKeeps

LEMMA FailKeeps ==
  ASSUME SqlConstants, Inv, NEW c \in Providers, Fail(c)
  PROVE  Inv'
  <1>1. TypeOK /\ HeldIsPossible /\ SentIsPossible
    BY DEF Inv
  <1>2. /\ call[c] # Nil
        /\ call' = [call EXCEPT ![c] = Nil]
        /\ UNCHANGED <<database, created, table, possible>>
        /\ late' \subseteq late \cup {call[c].stmt}
    BY DEF Fail
  <1>3. faults' \in 0 .. MaxFaults
    BY <1>1 DEF Fail, TypeOK, SqlConstants
  <1>4. HeldIsPossible'
    BY <1>1, <1>2, TableStays DEF HeldIsPossible
  <1>5. possible' \in [Paths -> SUBSET (Rows \cup {Nil})]
    BY <1>1, <1>2 DEF TypeOK
  <1>6. ASSUME NEW p \in Paths
        PROVE  /\ \A d \in Providers \ {c} :
                    call[d] # Nil /\ SameName(call[d].stmt.path, p) =>
                      call[d].stmt.row \in possible'[p]
               /\ \A s \in late' : SameName(s.path, p) =>
                    s.row \in possible'[p]
    BY <1>1, <1>2 DEF SentIsPossible
  <1> QED
    BY <1>2, <1>3, <1>4, <1>5, <1>6, EndKeeps

LEMMA RunLateKeeps ==
  ASSUME SqlConstants, Inv, NEW stmt \in late, RunLate(stmt)
  PROVE  Inv'
  <1>1. /\ TypeOK /\ RowsTagged /\ HeldIsPossible /\ SentIsPossible
        /\ AloneIsLast
    BY DEF Inv
  <1>2. /\ Run(stmt) /\ late' = late \ {stmt}
        /\ UNCHANGED <<database, created, call, faults, possible>>
    BY DEF RunLate
  <1>3. /\ stmt \in Statements /\ stmt.path \in Paths /\ Tagged(stmt.row)
        /\ \A s \in late : s.path \in Paths
    BY <1>1 DEF TypeOK, Statements, RowsTagged
  <1>4. \A p, q \in Paths : SameName(p, q)' <=> SameName(p, q)
    BY <1>2, NamesStay
  <1>5. /\ table' \in [Paths -> Rows \cup {Nil}]
        /\ OneRow'
        /\ \A p \in Paths : ~SameName(stmt.path, p) =>
             Stored(p)' = Stored(p) /\ \A q \in Stored(p) : table'[q] = table[q]
    BY <1>1, <1>2, <1>3, RunDoesIt
  <1>6. /\ \A q \in Paths : Tagged(table'[q])
        /\ HeldIsPossible'
        /\ ~created' => table' = [p \in Paths |-> Nil]
    <2>1. \A p \in Paths : SameName(stmt.path, p) => stmt.row \in possible[p]
      BY <1>1 DEF SentIsPossible
    <2> QED
      BY <1>2, <1>3, <2>1, RunKeeps
  <1>7. TypeOK'
    BY <1>1, <1>2, <1>5, <1>6 DEF TypeOK, OneRow
  <1>8. RowsTagged'
    BY <1>1, <1>2, <1>6 DEF RowsTagged
  <1>9. \A d \in Providers : call[d] # Nil => call[d].stmt.path \in Paths
    BY <1>1, SentStatement
  <1>10. SentIsPossible'
    <2>1. SUFFICES ASSUME NEW q \in Paths
                   PROVE  /\ \A d \in Providers :
                               call[d] # Nil /\ SameName(call[d].stmt.path, q)'
                                 => call[d].stmt.row \in possible[q]
                          /\ \A s \in late : SameName(s.path, q)' =>
                               s.row \in possible[q]
      BY <1>2 DEF SentIsPossible
    <2>2. \A d \in Providers : call[d] # Nil /\ SameName(call[d].stmt.path, q)'
            => SameName(call[d].stmt.path, q)
      BY <1>2, <1>4, <1>9
    <2>3. \A s \in late : SameName(s.path, q)' => SameName(s.path, q)
      BY <1>3, <1>4
    <2> QED
      BY <1>1, <2>2, <2>3 DEF SentIsPossible
  <1>11. AloneIsLast'
    <2>1. SUFFICES ASSUME NEW d \in Providers, call[d] # Nil, call[d].alone
                   PROVE  /\ Alone(d, call[d].stmt.path)'
                          /\ call[d].run =>
                               Holds(call[d].stmt.path, call[d].stmt.row)'
      BY <1>2 DEF AloneIsLast
    <2> DEFINE path == call[d].stmt.path
    <2>2. /\ path \in Paths
          /\ Rivals(d, path) = {} /\ ~\E s \in late : SameName(s.path, path)
          /\ call[d].run => Holds(path, call[d].stmt.row)
      BY <1>1, <1>9, <2>1 DEF AloneIsLast, Alone
    <2>3. \A e \in Providers \ {d} :
            call[e] # Nil => ~SameName(call[e].stmt.path, path)'
      BY <1>2, <1>4, <1>9, <2>2 DEF Rivals
    <2>4. ~\E s \in late' : SameName(s.path, path)'
      BY <1>2, <1>3, <1>4, <2>2
    <2>5. Alone(d, path)'
      BY <1>2, <2>3, <2>4 DEF Alone, Rivals
    <2>6. Stored(path)' = Stored(path)
          /\ \A q \in Stored(path) : table'[q] = table[q]
      BY <1>2, <1>5, <2>2
    <2>7. Holds(path, call[d].stmt.row) => Holds(path, call[d].stmt.row)'
      BY <1>2, <2>6 DEF Holds
    <2> QED
      BY <2>2, <2>5, <2>7
  <1> QED
    BY <1>6, <1>7, <1>8, <1>10, <1>11 DEF Inv

\* Creating the table, or nothing.
LEMMA CreatedKeeps ==
  ASSUME SqlConstants, Inv, created' \in {TRUE, created},
         UNCHANGED <<database, table, call, late, faults, possible>>
  PROVE  Inv'
  <1>1. /\ TypeOK /\ RowsTagged /\ HeldIsPossible /\ SentIsPossible
        /\ AloneIsLast
    BY DEF Inv
  <1>2. TypeOK'
    BY <1>1 DEF TypeOK, SameName, Folded
  <1>3. RowsTagged'
    BY <1>1 DEF RowsTagged
  <1>4. HeldIsPossible'
    BY <1>1 DEF HeldIsPossible, Stored, SameName, Folded
  <1>5. SentIsPossible'
    BY <1>1 DEF SentIsPossible, SameName, Folded
  <1>6. AloneIsLast'
    BY <1>1 DEF AloneIsLast, Alone, Rivals, Holds, Stored, SameName, Folded
  <1> QED
    BY <1>2, <1>3, <1>4, <1>5, <1>6 DEF Inv

\* Every step keeps the invariant.
LEMMA StepInv ==
  ASSUME SqlConstants, Inv, [Next]_vars
  PROVE  Inv'
  <1>1. ASSUME NEW c \in Providers, NEW p \in Paths, Delete(c, p)
        PROVE  Inv'
    <2>1. Tagged(Nil)
      BY DEF Tagged
    <2> QED
      BY <1>1, <2>1, SendKeeps DEF Delete
  <1>2. ASSUME NEW c \in Providers, NEW p \in Paths, NEW v \in Values,
               Set(c, p, v)
        PROVE  Inv'
    <2>1. Sealed(c, p, v) \in Rows
      BY DEF Sealed, Rows, Keys
    <2>2. Tagged(Sealed(c, p, v))
      BY DEF Sealed, Tagged
    <2> QED
      BY <1>2, <2>1, <2>2, SendKeeps DEF Set
  <1>3. ASSUME NEW c \in Providers, Execute(c)
        PROVE  Inv'
    BY <1>3, ExecuteKeeps
  <1>4. ASSUME NEW c \in Providers, Return(c)
        PROVE  Inv'
    BY <1>4, ReturnKeeps
  <1>5. ASSUME NEW c \in Providers, Fail(c)
        PROVE  Inv'
    BY <1>5, FailKeeps
  <1>6. ASSUME NEW c \in Providers, Migrate(c)
        PROVE  Inv'
    <2>1. /\ created' \in {TRUE, created}
          /\ UNCHANGED <<database, table, call, late, faults, possible>>
      BY <1>6 DEF Migrate
    <2> QED
      BY <2>1, CreatedKeeps
  <1>7. ASSUME NEW stmt \in late, RunLate(stmt)
        PROVE  Inv'
    BY <1>7, RunLateKeeps
  <1>8. CASE UNCHANGED vars
    <2>1. /\ created' \in {TRUE, created}
          /\ UNCHANGED <<database, table, call, late, faults, possible>>
      BY <1>8 DEF vars
    <2> QED
      BY <2>1, CreatedKeeps
  <1> QED
    BY <1>1, <1>2, <1>3, <1>4, <1>5, <1>6, <1>7, <1>8 DEF Next

\* The invariant holds in every state, whatever the order of the calls and
\* wherever a connection breaks.
THEOREM Inductive == Spec => []Inv
  <1>1. Init => Inv
    BY InitInv, SqlConstants
  <1>2. Inv /\ [Next]_vars => Inv'
    BY StepInv, SqlConstants
  <1> QED
    BY <1>1, <1>2, PTL DEF Spec
-----------------------------------------------------------------------------
(* What callers rely on *)

\* Get reads the one row the database holds under the name of its path.
LEMMA GetCases ==
  ASSUME SqlConstants, Inv, NEW c \in Providers, NEW p \in Paths
  PROVE  \/ Get(c, p) = "noTable"
         \/ Get(c, p) = "notFound" /\ Stored(p) = {}
         \/ /\ created
            /\ \E q \in Stored(p) : /\ Opens(c, p, table[q])
                                   /\ Get(c, p) = table[q].value
                                   /\ table[q].value \in Values
         \/ /\ Get(c, p) = "cannotDecrypt"
            /\ \E q \in Stored(p) : ~Opens(c, p, table[q])
  <1> DEFINE q == CHOOSE r \in Stored(p) : TRUE
  <1>1. CASE ~created
    BY <1>1 DEF Get
  <1>2. CASE created /\ Stored(p) = {}
    BY <1>2 DEF Get
  <1>3. CASE created /\ Stored(p) # {}
    <2>1. q \in Stored(p)
      BY <1>3
    <2>2. Get(c, p) = IF Opens(c, p, table[q]) THEN table[q].value
                                               ELSE "cannotDecrypt"
      BY <1>3 DEF Get
    <2>3. table[q].value \in Values
      BY <2>1 DEF Inv, TypeOK, Stored, Rows
    <2> HIDE DEF q
    <2> QED
      BY <1>3, <2>1, <2>2, <2>3
  <1> QED
    BY <1>1, <1>2, <1>3

LEMMA ReadRow ==
  ASSUME SqlConstants, Inv, NEW c \in Providers, NEW p \in Paths,
         Get(c, p) \in Values
  PROVE  /\ created
         /\ \E q \in Stored(p) : Opens(c, p, table[q]) /\ Get(c, p) = table[q].value
  <1>1. Get(c, p) \notin {"notFound", "cannotDecrypt", "noTable"}
    BY DEF SqlConstants
  <1> QED
    BY <1>1, GetCases

\* Every variable has its type, and no name of the database has two rows,
\* however statements for its spellings interleave.
THEOREM TypeCorrect == Spec => []TypeOK
  <1>1. Inv => TypeOK
    BY DEF Inv
  <1> QED
    BY <1>1, Inductive, PTL

\* A secret that Get answers was set under that path with that key, and no
\* acknowledged write to the name has come after.
THEOREM ReadsCorrect == Spec => []ReadsAreRight
  <1>1. ASSUME SqlConstants, Inv
        PROVE  ReadsAreRight
    <2>1. SUFFICES ASSUME NEW c \in Providers, NEW p \in Paths,
                          Get(c, p) \in Values
                   PROVE  /\ Sealed(c, p, Get(c, p)) \in possible[p]
                          /\ \A q \in Stored(p) :
                               table[q] = Sealed(c, p, Get(c, p))
      BY DEF ReadsAreRight
    <2>2. PICK q \in Stored(p) :
            Opens(c, p, table[q]) /\ Get(c, p) = table[q].value
      BY <1>1, <2>1, ReadRow
    <2>3. /\ q \in Paths /\ table[q] \in Rows /\ table[q].keyId = table[q].key
          /\ table[q] \in possible[p]
      BY <1>1 DEF Inv, TypeOK, Stored, RowsTagged, Tagged, HeldIsPossible
    <2>4. table[q] = Sealed(c, p, Get(c, p))
      BY <2>2, <2>3 DEF Opens, Sealed, Rows
    <2>5. OneRow
      BY <1>1 DEF Inv, TypeOK, OneRow
    <2> QED
      BY <2>3, <2>4, <2>5, StoredOnce
  <1> QED
    BY <1>1, SqlConstants, Inductive, PTL

\* What was acknowledged is answered until another write to the name may
\* have taken its place.
THEOREM WritesStay == Spec => []NothingLost
  <1>1. ASSUME SqlConstants, Inv
        PROVE  NothingLost
    <2>1. ASSUME NEW c \in Providers, NEW p \in Paths, Get(c, p) = "notFound"
          PROVE  Nil \in possible[p]
      <3>1. Stored(p) = {}
        BY <1>1, <2>1, GetCases DEF SqlConstants
      <3> QED
        BY <1>1, <3>1 DEF Inv, HeldIsPossible
    <2>2. ASSUME NEW c \in Providers, NEW p \in Paths,
                 Get(c, p) = "cannotDecrypt"
          PROVE  \E row \in possible[p] : row # Nil /\ ~Opens(c, p, row)
      <3>1. PICK q \in Stored(p) : ~Opens(c, p, table[q])
        BY <1>1, <2>2, GetCases DEF SqlConstants
      <3>2. table[q] \in possible[p] /\ table[q] # Nil
        BY <1>1 DEF Inv, HeldIsPossible, Stored
      <3> QED
        BY <3>1, <3>2
    <2> QED
      BY <2>1, <2>2 DEF NothingLost
  <1> QED
    BY <1>1, SqlConstants, Inductive, PTL

\* LIKE finds every path of a name by a prefix of one: a database that
\* takes two spellings for one path does not tell them apart in patterns.
LEMMA LikeFindsName ==
  ASSUME SqlConstants, NEW p \in Paths, NEW q \in Paths, SameName(q, p),
         NEW prefix \in Prefixes, Len(prefix) <= Len(p),
         prefix = SubSeq(p, 1, Len(prefix)),
         \A i \in DOMAIN prefix : ~IsEscape(prefix[i])
  PROVE  Like(prefix, q)
  <1> DEFINE n       == Len(prefix)
             pattern == Append(prefix, "%")
             at      == [i \in DOMAIN q |-> IF i <= n THEN i ELSE n + 1]
  <1>1. /\ p \in Seq(DOMAIN Lower) /\ q \in Seq(DOMAIN Lower)
        /\ prefix \in Seq(DOMAIN Lower)
    BY DEF SqlConstants
  <1>2. /\ DOMAIN p = 1 .. Len(p) /\ DOMAIN q = 1 .. Len(q)
        /\ DOMAIN prefix = 1 .. n
        /\ Len(p) \in Nat /\ Len(q) \in Nat /\ n \in Nat
    BY <1>1
  <1>3. \A i \in 1 .. n : prefix[i] = p[i]
    BY <1>1, <1>2
  <1>4. Len(q) = Len(p) /\ \A i \in 1 .. n : SameLetter(prefix[i], q[i])
    <2>1. CASE q = p
      BY <1>2, <1>3, <2>1 DEF SameLetter
    <2>2. CASE database = "mysql" /\ Folded(q) = Folded(p)
      <3>1. DOMAIN q = DOMAIN p
        BY <2>2 DEF Folded
      <3>2. Len(q) = Len(p)
        <4>1. ASSUME NEW k \in Nat, NEW l \in Nat, k < l PROVE 1 .. k # 1 .. l
          <5>1. l \in 1 .. l /\ l \notin 1 .. k
            BY <4>1
          <5> QED
            BY <5>1
        <4>2. 1 .. Len(q) = 1 .. Len(p)
          BY <1>2, <3>1
        <4>3. ~(Len(q) < Len(p)) /\ ~(Len(p) < Len(q))
          BY <1>2, <4>1, <4>2
        <4>4. Len(q) \in Nat /\ Len(p) \in Nat
          BY <1>2
        <4> QED
          BY <4>3, <4>4
      <3>3. \A i \in DOMAIN p : Folded(p)[i] = Lower[p[i]]
        BY DEF Folded
      <3>4. \A i \in DOMAIN q : Folded(q)[i] = Lower[q[i]]
        BY DEF Folded
      <3>5. \A i \in DOMAIN p : Lower[p[i]] = Lower[q[i]]
        BY <2>2, <3>1, <3>3, <3>4
      <3> QED
        BY <1>2, <1>3, <2>2, <3>2, <3>5 DEF SameLetter
    <2> QED
      BY <2>1, <2>2 DEF SameName
  <1>5. /\ DOMAIN pattern = 1 .. n + 1
        /\ \A k \in 1 .. n : pattern[k] = prefix[k]
        /\ pattern[n + 1] = "%"
    BY <1>1, <1>2
  <1>6. \A k \in DOMAIN pattern : ~IsEscape(pattern[k])
    <2>1. ~IsEscape(pattern[n + 1])
      BY <1>5 DEF IsEscape
    <2> QED
      BY <1>2, <1>5, <2>1
  <1> HIDE DEF pattern, n
  <1>7. \A k \in DOMAIN pattern : ~Escaped(pattern, k)
    <2>1. SUFFICES ASSUME NEW k \in DOMAIN pattern, NEW j \in 1 .. k - 1,
                          \A i \in j .. k - 1 : IsEscape(pattern[i])
                   PROVE  FALSE
      BY DEF Escaped
    <2>2. j \in j .. k - 1 /\ j \in DOMAIN pattern
      BY <1>2, <1>5, <2>1
    <2> QED
      BY <1>6, <2>1, <2>2
  <1> DEFINE Escapes == {k \in DOMAIN pattern :
                           IsEscape(pattern[k]) /\ ~Escaped(pattern, k)}
             AnyRun == {k \in DOMAIN pattern :
                           pattern[k] = "%" /\ ~Escaped(pattern, k)}
  <1>8. Escapes = {} /\ n + 1 \in AnyRun
    BY <1>2, <1>5, <1>6, <1>7
  <1>9. at \in [DOMAIN q -> DOMAIN pattern \ Escapes]
    BY <1>2, <1>5, <1>8
  <1>10. \A i, j \in DOMAIN q : i < j => at[i] <= at[j]
    BY <1>2
  <1>11. ASSUME NEW k \in DOMAIN pattern \ (Escapes \cup AnyRun)
         PROVE  \E i \in DOMAIN q : /\ Fits(pattern, k, q[i])
                                    /\ \A j \in DOMAIN q : at[j] = k <=> j = i
    <2>1. k \in 1 .. n /\ k \in DOMAIN q
      BY <1>2, <1>4, <1>5, <1>8
    <2>2. Fits(pattern, k, q[k])
      BY <1>4, <1>5, <2>1 DEF Fits
    <2>3. \A j \in DOMAIN q : at[j] = k <=> j = k
      BY <1>2, <2>1
    <2> QED
      BY <2>1, <2>2, <2>3
  <1>12. Matches(pattern, q)
    BY <1>9, <1>10, <1>11 DEF Matches
  <1> QED
    BY <1>12 DEF Like, pattern

\* A secret that can be read is listed under every prefix of its path that
\* holds no escape of LIKE.
THEOREM ListsComplete == Spec => []ListIsComplete
  <1>1. ASSUME SqlConstants, Inv
        PROVE  ListIsComplete
    <2>1. SUFFICES ASSUME NEW c \in Providers, NEW p \in Paths,
                          NEW prefix \in Prefixes, Get(c, p) \in Values,
                          Len(prefix) <= Len(p),
                          prefix = SubSeq(p, 1, Len(prefix)),
                          \A i \in DOMAIN prefix : ~IsEscape(prefix[i])
                   PROVE  \E q \in List(prefix) : SameName(q, p)
      BY DEF ListIsComplete
    <2>2. created /\ \E q \in Stored(p) : TRUE
      BY <1>1, <2>1, ReadRow
    <2>3. PICK q \in Stored(p) : TRUE
      BY <2>2
    <2>4. q \in Paths /\ table[q] # Nil /\ SameName(q, p)
      BY DEF Stored
    <2>5. Like(prefix, q)
      BY <1>1, <2>1, <2>4, LikeFindsName
    <2> QED
      BY <2>2, <2>4, <2>5 DEF List
  <1> QED
    BY <1>1, SqlConstants, Inductive, PTL
=============================================================================
