------------------------------ MODULE Resolver ------------------------------
(***************************************************************************)
(* Resolving references (resolver.go): a map from URI schemes to vaults    *)
(* under a mutex, into which goroutines register vaults while others       *)
(* resolve references through them.  A resolution holds the mutex only     *)
(* while it looks its vault up; the call into the vault, which may take    *)
(* arbitrarily long, comes after.  Close holds it while it closes one      *)
(* vault after the other.                                                  *)
(*                                                                         *)
(* The vaults are anyone's: clients (client.go) pass their calls on to     *)
(* them, so that they change and close under the resolver's feet, and      *)
(* services that may fail.  Of a vault remain what its Get answers for     *)
(* each path and whether it is closed.                                     *)
(*                                                                         *)
(* References are sequences of letters, because how they are taken apart   *)
(* (vault/types.go) decides which vault is asked for what.                 *)
(***************************************************************************)
EXTENDS Naturals, Sequences, FiniteSets, Functions

CONSTANTS
  Resolvers, Registrars,  \* goroutines that resolve, and others
  Letters, Schemes,  \* a scheme is one letter
  Vaults,
  Closable,   \* vaults that answer nothing any more when closed (the
              \* memory provider); Close of the others does nothing
  Slow,       \* vaults whose Get need never return
  Paths, Field,  \* sequences of letters without "#"
  ValueName,  \* the field name "value"
  Secrets,    \* [value, field]; field is None if the secret has no such field
  Plain,      \* texts that are no references, some of which look so
  Asks,       \* what is asked of one call: sets of texts
  None,       \* nobody, nothing; for a vault, that there is no secret
  Error,      \* any other error of a vault
  MaxChanges  \* bound: changes of vaults

VARIABLES
  writer, readers,  \* Resolver.mu
  providers,        \* Resolver.providers
  holds, closed,    \* the vaults: what they answer, which are closed
  changes,
  call,             \* the call of each caller
  seenProviders,    \* history, per caller: what Resolver.providers held
  seenSecrets       \* since its call began, and what a vault answered
                    \* while the call was at it

mu == <<writer, readers>>
vaults == <<holds, closed, changes>>
state == <<mu, providers, vaults, call>>
seen == <<seenProviders, seenSecrets>>
vars == <<mu, providers, vaults, call, seen>>

Separator == <<":", "/", "/">>
Refs == [scheme : Schemes, path : Paths, field : {<<>>, Field, ValueName}]
Text(ref) ==
  <<ref.scheme>> \o Separator \o ref.path
    \o (IF ref.field = <<>> THEN <<>> ELSE <<"#">> \o ref.field)
Texts == {Text(ref) : ref \in Refs} \cup Plain

Callers == Resolvers \cup Registrars

Idle == [op |-> "none", pc |-> "idle", asked |-> {}, todo |-> {},
         text |-> None, vault |-> None, got |-> {}]
Failed == [Idle EXCEPT !.pc = "failed"]

ASSUME ResolverConstants ==
  /\ Closable \subseteq Vaults /\ Slow \subseteq Vaults
  /\ None \notin Vaults \cup Callers \cup Secrets /\ Error \notin Secrets
  /\ \A p \in Paths \cup {Field, ValueName} : "#" \notin Range(p) /\ p # <<>>
  /\ Field # ValueName
  /\ Schemes \cap {":", "/", "#"} = {}
  /\ Schemes \cup {":", "/", "#"} \subseteq Letters
  /\ Paths \cup {Field, ValueName} \cup Plain \subseteq Seq(Letters)
  /\ Asks \subseteq SUBSET Texts
  /\ Plain \cap {Text(ref) : ref \in Refs} = {}
  /\ MaxChanges \in Nat
-----------------------------------------------------------------------------
(* References *)

Positions(letter, s) == {i \in DOMAIN s : s[i] = letter}
First(S) == CHOOSE i \in S : \A j \in S : i <= j
Last(S) == CHOOSE i \in S : \A j \in S : i >= j

\* Everything before the first colon; no colon, no scheme.
SchemeUpToLast(s) ==
  IF Positions(":", s) = {} THEN <<>>
  ELSE SubSeq(s, 1, Last(Positions(":", s)) - 1)
Scheme(s) ==
  IF Positions(":", s) = {} THEN <<>>
  ELSE SubSeq(s, 1, First(Positions(":", s)) - 1)

\* Everything after the first "://", up to the first "#" that follows.
Path(s) ==
  LET starts == {i \in 1..(Len(s) - 2) : SubSeq(s, i, i + 2) = Separator}
      path   == SubSeq(s, First(starts) + 3, Len(s))
  IN  IF starts = {} THEN s
      ELSE IF Positions("#", path) = {} THEN path
      ELSE SubSeq(path, 1, First(Positions("#", path)) - 1)

\* Everything after the last "#".
Fragment(s) ==
  IF Positions("#", s) = {} THEN <<>>
  ELSE SubSeq(s, Last(Positions("#", s)) + 1, Len(s))

IsSecretRef(s) == Scheme(s) # <<>> /\ Len(s) > Len(Scheme(s)) + 3

\* Vaults keep no secret under what is left of a text that is no reference.
ASSUME PlainTexts == \A s \in Plain : Path(s) \notin Paths

\* The value without a fragment or for that of its name, else the field; one
\* that is not there is empty.
Revealed(secret, fragment) ==
  CASE fragment \in {<<>>, ValueName} -> secret.value
    [] fragment = Field /\ secret.field # None -> secret.field
    [] OTHER -> ""
-----------------------------------------------------------------------------
(* Vaults, as the clients that own them use them *)

Held(v, p) ==
  CASE v \in closed -> Error
    [] v \notin closed /\ p \notin Paths -> None
    [] OTHER -> holds[v][p]

\* Set or Delete, or the service begins or ceases to fail.
VaultChanges(v, p, answer) ==
  /\ changes < MaxChanges
  /\ v \notin closed
  /\ holds[v][p] # answer
  /\ holds' = [holds EXCEPT ![v][p] = answer]
  /\ changes' = changes + 1
  /\ UNCHANGED <<mu, providers, closed, call>>

ClientCloses(v) ==
  /\ changes < MaxChanges
  /\ v \in Closable \ closed
  /\ closed' = closed \cup {v}
  /\ changes' = changes + 1
  /\ UNCHANGED <<mu, providers, holds, call>>
-----------------------------------------------------------------------------
(* Resolving *)

\* ResolveAll ("all") and ResolveMap ("map"); the others are one of these
\* for one text.  A Go map is walked in any order.
Resolve(c, op, texts) ==
  /\ call[c] \in {Idle, Failed}
  /\ call' = [call EXCEPT ![c] =
       [Idle EXCEPT !.op = op, !.pc = "next", !.todo = texts, !.asked = texts]]
  /\ UNCHANGED <<mu, providers, vaults>>

\* The next text is passed through, refused, or taken to the mutex.
Take(c, s) ==
  /\ call[c].pc = "next" /\ s \in call[c].todo
  /\ LET next == [call[c] EXCEPT !.todo = @ \ {s}, !.text = s]
     IN  call' = [call EXCEPT ![c] =
           CASE call[c].op = "map" /\ ~IsSecretRef(s) ->
                  [next EXCEPT !.got = @ \cup {<<s, s>>}]
             [] call[c].op = "all" /\ Scheme(s) = <<>> -> Failed
             [] OTHER -> [next EXCEPT !.pc = "rlock"]]
  /\ UNCHANGED <<mu, providers, vaults>>

RLock(c) ==
  /\ call[c].pc = "rlock"
  /\ writer = None
  /\ readers' = readers \cup {c}
  /\ call' = [call EXCEPT ![c].pc = "lookup"]
  /\ UNCHANGED <<writer, providers, vaults>>

\* The vault registered for the scheme of a text, if there is one.
Registered(s) ==
  IF Len(Scheme(s)) = 1 /\ Scheme(s)[1] \in Schemes
  THEN providers[Scheme(s)[1]] ELSE None

\* One failure fails the whole call.
FailSkips(c) == call' = [call EXCEPT ![c].pc = "next"]
Fail(c) == call' = [call EXCEPT ![c] = Failed]

LookUpKeepsLock(c) ==
  /\ call[c].pc = "lookup"
  /\ LET v == Registered(call[c].text)
     IN  IF v = None
         THEN Fail(c) /\ readers' = readers \ {c}
         ELSE /\ call' = [call EXCEPT ![c].pc = "get", ![c].vault = v]
              /\ UNCHANGED readers
  /\ UNCHANGED <<writer, providers, vaults>>
LookUp(c) ==
  /\ call[c].pc = "lookup"
  /\ readers' = readers \ {c}
  /\ LET v == Registered(call[c].text)
     IN  IF v = None
         THEN Fail(c)
         ELSE call' = [call EXCEPT ![c].pc = "get", ![c].vault = v]
  /\ UNCHANGED <<writer, providers, vaults>>

\* The vault answers, whatever has taken its place in the map since.
Get(c) ==
  /\ call[c].pc = "get"
  /\ LET s == call[c].text
         secret == Held(call[c].vault, Path(s))
     IN  IF secret \in {None, Error}
         THEN Fail(c)
         ELSE call' = [call EXCEPT ![c].pc = "next",
                ![c].got = @ \cup {<<s, Revealed(secret, Fragment(s))>>}]
  /\ UNCHANGED <<mu, providers, vaults>>

Return(c) ==
  /\ call[c].pc = "next" /\ call[c].todo = {}
  /\ call' = [call EXCEPT ![c] = Idle]
  /\ UNCHANGED <<mu, providers, vaults>>
-----------------------------------------------------------------------------
(* Registering and closing *)

\* A goroutine waits for the mutex: for Register or Unregister (v is None),
AskLock(c) ==
  /\ call[c] = Idle
  /\ call' = [call EXCEPT ![c].pc = "lock"]
  /\ UNCHANGED <<mu, providers, vaults>>

MayLock(c) == call[c].pc = "lock" /\ readers = {} /\ writer = None

Register(c, scheme, v) ==
  /\ MayLock(c)
  /\ providers' = [providers EXCEPT ![scheme] = v]
  /\ call' = [call EXCEPT ![c] = Idle]
  /\ UNCHANGED <<mu, vaults>>

\* or for Close, which keeps it while it ...
BeginClose(c) ==
  /\ MayLock(c)
  /\ writer' = c
  /\ call' = [call EXCEPT ![c].pc = "closing",
                          ![c].todo = Range(providers) \ {None}]
  /\ UNCHANGED <<readers, providers, vaults>>

\* ... closes the vaults in any order, going on when one fails to close.
CloseOneStopsAtError(c, v) ==
  /\ call[c].pc = "closing" /\ v \in call[c].todo
  /\ closed' = closed \cup ({v} \cap Closable)
  /\ \E rest \in {{}, call[c].todo \ {v}} :
       call' = [call EXCEPT ![c].todo = rest]
  /\ UNCHANGED <<mu, providers, holds, changes>>
CloseOne(c, v) ==
  /\ call[c].pc = "closing" /\ v \in call[c].todo
  /\ closed' = closed \cup ({v} \cap Closable)
  /\ call' = [call EXCEPT ![c].todo = @ \ {v}]
  /\ UNCHANGED <<mu, providers, holds, changes>>

\* They stay registered.
EndClose(c) ==
  /\ call[c].pc = "closing" /\ call[c].todo = {}
  /\ writer' = None
  /\ call' = [call EXCEPT ![c] = Idle]
  /\ UNCHANGED <<readers, providers, vaults>>
-----------------------------------------------------------------------------
(* What a caller may have seen while its call ran *)

Asked(c) == {ref \in Refs : Text(ref) \in call[c].asked}

ProvidersAsked(c) == {<<ref.scheme, providers[ref.scheme]>> : ref \in Asked(c)}
SecretsAsked(c) ==
  {<<call[c].vault, ref.path, Held(call[c].vault, ref.path)>> :
     ref \in {r \in Asked(c) : call[c].pc = "get" /\ Text(r) = call[c].text}}

Resolving(c) == call[c].op \in {"all", "map"}

Seen(c, old, now) ==
  IF ~Resolving(c)' THEN {} ELSE IF Resolving(c) THEN old \cup now ELSE now

Witness ==
  /\ seenProviders' = [c \in Callers |->
       Seen(c, seenProviders[c], ProvidersAsked(c)')]
  /\ seenSecrets' = [c \in Callers |->
       Seen(c, seenSecrets[c], SecretsAsked(c)')]
-----------------------------------------------------------------------------
Init ==
  /\ writer = None /\ readers = {}
  /\ providers = [s \in Schemes |-> None]
  /\ holds \in [Vaults -> [Paths -> Secrets]]
  /\ closed = {} /\ changes = 0
  /\ call = [c \in Callers |-> Idle]
  /\ seenProviders = [c \in Callers |-> {}]
  /\ seenSecrets = [c \in Callers |-> {}]

Steps(c) ==
  \/ \E s \in call[c].todo : Take(c, s)
  \/ LookUp(c)
  \/ Return(c)
  \/ \E v \in call[c].todo : CloseOne(c, v)
  \/ EndClose(c)

Locks(c) ==
  \/ RLock(c)
  \/ \E s \in Schemes, v \in Vaults \cup {None} : Register(c, s, v)
  \/ BeginClose(c)

Next ==
  /\ \/ \E c \in Resolvers, op \in {"all", "map"}, texts \in Asks :
          Resolve(c, op, texts)
     \/ \E c \in Registrars : AskLock(c)
     \/ \E c \in Callers : Steps(c) \/ Locks(c) \/ Get(c)
     \/ \E v \in Vaults, p \in Paths, answer \in Secrets \cup {None, Error} :
          VaultChanges(v, p, answer)
     \/ \E v \in Vaults : ClientCloses(v)
  /\ Witness

\* Go runs every goroutine, hands the mutex to every goroutine that waits
\* for it (a waiting writer keeps new readers out), and Close of a vault
\* returns.  Get of a slow vault need not, and nobody has to call.
Fairness ==
  \A c \in Callers :
    /\ WF_state(Steps(c))
    /\ SF_state(Locks(c))
    /\ WF_state(call[c].vault \notin Slow /\ Get(c))

Spec == Init /\ [][Next]_vars /\ Fairness
-----------------------------------------------------------------------------
(* Properties *)

\* Every variable has its type.
TypeOK ==
  /\ writer \in Callers \cup {None} /\ readers \subseteq Callers
  /\ providers \in [Schemes -> Vaults \cup {None}]
  /\ holds \in [Vaults -> [Paths -> Secrets \cup {None, Error}]]
  /\ closed \subseteq Closable
  /\ changes \in 0..MaxChanges
  /\ \A c \in Callers : call[c].pc = "get" => call[c].vault \in Vaults

\* Close closes every vault that is registered when it returns, also when
\* one of them fails to close, for none can be registered meanwhile: the
\* mutex is held by one Close or by lookups, and by nobody who has returned.
CloseIsComplete ==
  \A c \in Callers :
    call[c].pc = "closing" =>
      (Range(providers) \ {None}) \cap Closable \subseteq closed \cup call[c].todo

MutexInv ==
  /\ TypeOK
  /\ CloseIsComplete
  /\ writer # None => readers = {}
  /\ \A c \in Callers : /\ writer = c <=> call[c].pc = "closing"
                        /\ c \in readers <=> call[c].pc = "lookup"

\* A call that succeeds answers every text it was asked for: a reference
\* with what a vault that was registered for its scheme at some time during
\* the call held at its path, in its field, while the call was at that vault
\* (by then it may have been replaced), and any other text with itself.
FieldOf(secret, field) ==
  IF field \in {<<>>, ValueName} THEN secret.value
  ELSE IF secret.field = None THEN "" ELSE secret.field

Rightly(c, ref, value) ==
  \E v \in Vaults, secret \in Secrets :
    /\ <<ref.scheme, v>> \in seenProviders[c]
    /\ <<v, ref.path, secret>> \in seenSecrets[c]
    /\ value = FieldOf(secret, ref.field)

Right(c, text, value) ==
  /\ \A ref \in Refs : text = Text(ref) => Rightly(c, ref, value)
  /\ text \in Plain => value = text

AnswersAreRight ==
  [][\A c \in Resolvers :
       Resolving(c) /\ call'[c] = Idle =>
         /\ {g[1] : g \in call[c].got} = call[c].asked
         /\ \A g \in call[c].got : Right(c, g[1], g[2])]_vars

\* A call fails only over a text it was asked for: one that is no reference
\* (ResolveMap passes those through unless they look so), or one whose scheme
\* had no vault or whose vault had no secret, or answered with an error, at
\* some time during the call.
Missing(c, ref) ==
  \/ <<ref.scheme, None>> \in seenProviders[c]
  \/ \E v \in Vaults, answer \in {None, Error} :
       /\ <<ref.scheme, v>> \in seenProviders[c]
       /\ <<v, ref.path, answer>> \in seenSecrets[c]

MissesOne(c) == \E ref \in Refs : Text(ref) \in call[c].asked /\ Missing(c, ref)

FailuresAreReal ==
  [][\A c \in Resolvers :
       Resolving(c) /\ call'[c] = Failed =>
         \/ MissesOne(c)
         \/ \E s \in call[c].asked \cap Plain :
              call[c].op = "all" \/ IsSecretRef(s)]_vars

\* A vault that never answers blocks nobody but those who asked it: whoever
\* waits for the mutex gets it.
MutexIsGranted ==
  \A c \in Callers : call[c].pc \in {"rlock", "lock"} ~>
                     call[c].pc \notin {"rlock", "lock"}
=============================================================================
