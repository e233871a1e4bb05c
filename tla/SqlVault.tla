------------------------------ MODULE SqlVault ------------------------------
(***************************************************************************)
(* The SQL provider (providers/sqlstore/sqlstore.go): one row per secret,  *)
(* sealed under the provider's key with the path as associated data.       *)
(* Providers with keys of their own share a table, and none keeps any      *)
(* state: each call is one statement.  A writing call is cut where the     *)
(* database runs it and where the caller hears of it; in between the       *)
(* connection may break, so that a call fails though its statement was     *)
(* run, or will be run later.  Reading calls change nothing and are        *)
(* operators.                                                              *)
(*                                                                         *)
(* Whether two paths that differ in case are one key of the table is up to *)
(* the database, and so is whether LIKE tells them apart.  Paths are       *)
(* sequences of letters, because List hands its prefix to LIKE as it is:   *)
(* there "_" stands for every letter, "%" for every run of letters, and on *)
(* PostgreSQL and MySQL a backslash makes the letter after it stand for    *)
(* itself.                                                                 *)
(***************************************************************************)
EXTENDS Naturals, Sequences

CONSTANTS
  Providers,
  KeyOf,      \* Config.EncryptionKey; Config.KeyID names it
  ReadOnly,   \* providers made with Config.ReadOnly
  Migrating,  \* providers made with Config.AutoMigrate
  Paths, Prefixes,
  Lower,      \* the lower-case form of each letter
  Values,
  Nil,        \* no row, no call
  MaxFaults   \* bound: calls that fail

Keys == {KeyOf[c] : c \in Providers}
Databases == {"postgres", "sqlite", "mysql"}

Rows == [aad : Paths, key : Keys, keyId : Keys, value : Values]
Statements == [path : Paths, row : Rows \cup {Nil}]
Calls == [stmt : Statements, run : BOOLEAN, alone : BOOLEAN]

ASSUME SqlConstants ==
  /\ ReadOnly \subseteq Providers
  /\ Migrating \subseteq Providers
  /\ KeyOf \in [Providers -> Keys]
  /\ Paths \cup Prefixes \subseteq Seq(DOMAIN Lower)
  /\ Nil \notin Rows
  /\ Nil \notin Calls
  /\ {"notFound", "cannotDecrypt", "noTable"} \cap Values = {}
  /\ MaxFaults \in Nat

VARIABLES
  database,   \* which database it is
  created,    \* the table exists
  table,      \* the row stored under each path
  call,       \* the writing call of each provider
  late,       \* statements given up by their callers and not yet run
  faults,
  possible    \* history: per path, the rows its callers may expect there

vars == <<database, created, table, call, late, faults, possible>>
-----------------------------------------------------------------------------
(* The database *)

Folded(p) == [i \in DOMAIN p |-> Lower[p[i]]]

\* path = ?  and the primary key.
SameName(p, q) == p = q \/ (database = "mysql" /\ Folded(p) = Folded(q))

\* path LIKE prefix%
SameLetter(a, b) == a = b \/ (database # "postgres" /\ Lower[a] = Lower[b])
IsEscape(a) == database # "sqlite" /\ a = "\\"

\* A letter stands for itself after an odd number of escapes.
Escaped(pattern, k) ==
  \E j \in 1 .. k - 1 :
    /\ (k - j) % 2 = 1
    /\ \A i \in j .. k - 1 : IsEscape(pattern[i])
    /\ j > 1 => ~IsEscape(pattern[j - 1])

Fits(pattern, k, a) ==
  \/ SameLetter(pattern[k], a)
  \/ pattern[k] = "_" /\ ~Escaped(pattern, k)

\* The letters of p are laid out, in order, over those of the pattern.
Matches(pattern, p) ==
  LET Escapes == {k \in DOMAIN pattern :
                    IsEscape(pattern[k]) /\ ~Escaped(pattern, k)}
      AnyRun == {k \in DOMAIN pattern :
                    pattern[k] = "%" /\ ~Escaped(pattern, k)}
  IN \E at \in [DOMAIN p -> DOMAIN pattern \ Escapes] :
       /\ \A i, j \in DOMAIN p : i < j => at[i] <= at[j]
       /\ \A k \in DOMAIN pattern \ (Escapes \cup AnyRun) :
            \E i \in DOMAIN p : /\ Fits(pattern, k, p[i])
                               /\ \A j \in DOMAIN p : at[j] = k <=> j = i

LikeWhole(prefix, p) == Matches(prefix, p)
Like(prefix, p) == Matches(Append(prefix, "%"), p)

StoredAsSpelt(p) == {q \in Paths : table[q] # Nil /\ q = p}
Stored(p) == {q \in Paths : table[q] # Nil /\ SameName(q, p)}

\* An upsert keeps the path a row was first stored under.
Upserted(p, row) ==
  IF Stored(p) = {}
  THEN [table EXCEPT ![p] = row]
  ELSE [q \in Paths |-> IF q \in Stored(p) THEN row ELSE table[q]]

Deleted(p) == [q \in Paths |-> IF q \in Stored(p) THEN Nil ELSE table[q]]

Run(stmt) ==
  /\ created
  /\ table' = IF stmt.row = Nil THEN Deleted(stmt.path)
                                ELSE Upserted(stmt.path, stmt.row)
-----------------------------------------------------------------------------
(* Calls that read *)

OpensUnbound(c, p, row) == row.key = KeyOf[c]
Opens(c, p, row) == row.key = KeyOf[c] /\ row.aad = p

Get(c, p) ==
  CASE ~created -> "noTable"
    [] created /\ Stored(p) = {} -> "notFound"
    [] created /\ Stored(p) # {} ->
         LET row == table[CHOOSE q \in Stored(p) : TRUE]
         IN  IF Opens(c, p, row) THEN row.value ELSE "cannotDecrypt"

List(prefix) == {q \in Paths : created /\ table[q] # Nil /\ Like(prefix, q)}
-----------------------------------------------------------------------------
(* Calls that write *)

\* Statements that may be run while another for the same name is.
Rivals(c, p) ==
  {d \in Providers \ {c} : call[d] # Nil /\ SameName(call[d].stmt.path, p)}
Alone(c, p) == Rivals(c, p) = {} /\ ~\E s \in late : SameName(s.path, p)

\* A caller sends a statement for path p.
Send(c, p, row) ==
  /\ c \notin ReadOnly
  /\ call[c] = Nil
  /\ call' = [d \in Providers |->
       IF d = c
       THEN [stmt |-> [path |-> p, row |-> row], run |-> FALSE,
             alone |-> Alone(c, p)]
       ELSE IF d \in Rivals(c, p) THEN [call[d] EXCEPT !.alone = FALSE]
                                  ELSE call[d]]
  /\ possible' = [q \in Paths |->
       possible[q] \cup (IF SameName(p, q) THEN {row} ELSE {})]
  /\ UNCHANGED <<database, created, table, late, faults>>

Sealed(c, p, v) ==
  [aad |-> p, key |-> KeyOf[c], keyId |-> KeyOf[c], value |-> v]

Set(c, p, v) == Send(c, p, Sealed(c, p, v))
Delete(c, p) == Send(c, p, Nil)

\* The database runs the statement ...
Execute(c) ==
  /\ call[c] # Nil /\ ~call[c].run
  /\ Run(call[c].stmt)
  /\ call' = [call EXCEPT ![c].run = TRUE]
  /\ UNCHANGED <<database, created, late, faults, possible>>

\* ... and the caller is told that it did.
Return(c) ==
  /\ call[c] # Nil /\ call[c].run
  /\ call' = [call EXCEPT ![c] = Nil]
  /\ possible' = [q \in Paths |->
       IF call[c].alone /\ SameName(call[c].stmt.path, q)
       THEN {call[c].stmt.row} ELSE possible[q]]
  /\ UNCHANGED <<database, created, table, late, faults>>

\* The caller gets an error: the table is missing, or its context is done or
\* the connection broke before the statement was run or after it.
Fail(c) ==
  /\ call[c] # Nil
  /\ call' = [call EXCEPT ![c] = Nil]
  /\ \/ ~created /\ UNCHANGED <<late, faults>>
     \/ /\ faults < MaxFaults
        /\ faults' = faults + 1
        /\ late' \in {late} \cup (IF call[c].run THEN {}
                                  ELSE {late \cup {call[c].stmt}})
  /\ UNCHANGED <<database, created, table, possible>>

\* A statement whose caller gave up is run all the same.
RunLate(stmt) ==
  /\ Run(stmt)
  /\ late' = late \ {stmt}
  /\ UNCHANGED <<database, created, call, faults, possible>>

\* New with AutoMigrate: CREATE TABLE IF NOT EXISTS.
MigrateAnew(c) ==
  /\ c \in Migrating
  /\ call[c] = Nil
  /\ created' = TRUE
  /\ table' = [p \in Paths |-> Nil]
  /\ UNCHANGED <<database, call, late, faults, possible>>
Migrate(c) ==
  /\ c \in Migrating
  /\ call[c] = Nil
  /\ created' = TRUE
  /\ UNCHANGED <<database, table, call, late, faults, possible>>
-----------------------------------------------------------------------------
Init ==
  /\ database \in Databases
  /\ created \in BOOLEAN
  /\ table = [p \in Paths |-> Nil]
  /\ call = [c \in Providers |-> Nil]
  /\ late = {} /\ faults = 0
  /\ possible = [p \in Paths |-> {Nil}]

Next ==
  \/ \E c \in Providers, p \in Paths : Delete(c, p)
  \/ \E c \in Providers, p \in Paths, v \in Values : Set(c, p, v)
  \/ \E c \in Providers : Execute(c) \/ Return(c) \/ Fail(c) \/ Migrate(c)
  \/ \E stmt \in late : RunLate(stmt)

Spec == Init /\ [][Next]_vars
-----------------------------------------------------------------------------
(* Properties *)

\* Every variable has its type, rows need a table, and no name has two rows:
\* what PRIMARY KEY says of the names the database takes for one.
TypeOK ==
  /\ database \in Databases /\ created \in BOOLEAN
  /\ table \in [Paths -> Rows \cup {Nil}]
  /\ call \in [Providers -> Calls \cup {Nil}]
  /\ late \subseteq Statements
  /\ faults \in 0..MaxFaults
  /\ possible \in [Paths -> SUBSET (Rows \cup {Nil})]
  /\ ~created => table = [p \in Paths |-> Nil]
  /\ \A p, q \in Paths :
       table[p] # Nil /\ table[q] # Nil /\ SameName(p, q) => p = q

\* A secret that Get answers was set under that very path with that key, and
\* is the last one acknowledged or one not settled yet: a row that another
\* spelling of the path or another key has taken over is refused.  The key_id
\* that comes with it is that of the key it was sealed with.
ReadsAreRight ==
  \A c \in Providers, p \in Paths :
    Get(c, p) \in Values =>
      /\ Sealed(c, p, Get(c, p)) \in possible[p]
      /\ \A q \in Stored(p) : table[q] = Sealed(c, p, Get(c, p))

\* An acknowledged write stays until another write to the name: "notFound"
\* is answered only if a delete may have come last, and "cannotDecrypt"
\* only if a write with another key or under another spelling may have.
NothingLost ==
  \A c \in Providers, p \in Paths :
    /\ Get(c, p) = "notFound" => Nil \in possible[p]
    /\ Get(c, p) = "cannotDecrypt" =>
         \E row \in possible[p] : row # Nil /\ ~Opens(c, p, row)

\* A secret that can be read is listed under every prefix of its path that
\* LIKE does not take for an escape, if not under the spelling it was last
\* set with.
ListIsComplete ==
  \A c \in Providers, p \in Paths, prefix \in Prefixes :
    /\ Get(c, p) \in Values
    /\ Len(prefix) <= Len(p) /\ prefix = SubSeq(p, 1, Len(prefix))
    /\ \A i \in DOMAIN prefix : ~IsEscape(prefix[i])
    => \E q \in List(prefix) : SameName(q, p)
=============================================================================
