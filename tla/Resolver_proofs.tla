--------------------------- MODULE Resolver_proofs ---------------------------
(***************************************************************************)
(* Proofs about Resolver, for any number of goroutines, schemes and vaults *)
(* and for references of any length.                                       *)
(*                                                                         *)
(* The mutex: while a Close holds it nobody looks up or registers, so the  *)
(* vaults it found are the ones registered when it ends.                   *)
(*                                                                         *)
(* The answers: a call collects the texts it was asked for one by one, and *)
(* what it collects stays right, because what it has seen is never         *)
(* forgotten.  The text at hand was looked up in a map the call has seen,  *)
(* and the vault answers while the call sees it; that reference and vault  *)
(* mean the same path and field is a fact about sequences of letters.      *)
(***************************************************************************)
EXTENDS Resolver, SequenceTheorems, TLAPS

Pcs == {"idle", "failed", "next", "rlock", "lookup", "get", "lock", "closing"}

Formed(x) ==
  /\ x = [op |-> x.op, pc |-> x.pc, asked |-> x.asked, todo |-> x.todo,
          text |-> x.text, vault |-> x.vault, got |-> x.got]
  /\ x.op \in {"none", "all", "map"}
  /\ x.pc \in Pcs
  /\ x.op # "none" <=> x.pc \in {"next", "rlock", "lookup", "get"}

CallsFormed ==
  /\ DOMAIN call = Callers
  /\ \A c \in Callers : Formed(call[c])

MutexInd == CallsFormed /\ MutexInv

\* What a resolution has at hand outside the mutex's short section.
AtHand(x) == x.pc \in {"rlock", "lookup", "get"}

\* The texts that have an answer.
Firsts(S) == {g[1] : g \in S}

\* Every text asked for is still to do, at hand, or answered, ...
Accounted(x) ==
  /\ x.asked \in SUBSET Texts
  /\ x.todo \subseteq x.asked
  /\ x.asked = x.todo \cup Firsts(x.got)
                 \cup (IF AtHand(x) THEN {x.text} ELSE {})
  /\ AtHand(x) /\ x.op = "map" => IsSecretRef(x.text)

\* ... rightly, and the vault at hand was registered for the text at hand.
Answering(c) ==
  /\ Accounted(call[c])
  /\ ProvidersAsked(c) \subseteq seenProviders[c]
  /\ SecretsAsked(c) \subseteq seenSecrets[c]
  /\ \A g \in call[c].got : Right(c, g[1], g[2])
  /\ call[c].pc = "get" =>
       \A ref \in Refs : call[c].text = Text(ref) =>
         <<ref.scheme, call[c].vault>> \in seenProviders[c]

SeenTyped ==
  /\ seenProviders = [c \in Callers |-> seenProviders[c]]
  /\ seenSecrets = [c \in Callers |-> seenSecrets[c]]

Inv ==
  /\ MutexInd
  /\ SeenTyped
  /\ \A c \in Callers : Resolving(c) => Answering(c)
-----------------------------------------------------------------------------
(* The mutex *)

\* A caller's call changes, and nobody else's.
LEMMA CallChanges ==
  ASSUME CallsFormed, NEW c \in Callers, NEW new, Formed(new),
         call' = [call EXCEPT ![c] = new]
  PROVE  /\ CallsFormed'
         /\ call'[c] = new
         /\ \A d \in Callers \ {c} : call'[d] = call[d]
  BY DEF CallsFormed

\* A record with the fields of a call.
LEMMA FormedOf ==
  ASSUME NEW op \in {"none", "all", "map"}, NEW pc \in Pcs,
         op # "none" <=> pc \in {"next", "rlock", "lookup", "get"},
         NEW asked, NEW todo, NEW text, NEW vault, NEW got, NEW x,
         x = [op |-> op, pc |-> pc, asked |-> asked, todo |-> todo,
              text |-> text, vault |-> vault, got |-> got]
  PROVE  /\ Formed(x)
         /\ x.op = op /\ x.pc = pc /\ x.asked = asked /\ x.todo = todo
         /\ x.text = text /\ x.vault = vault /\ x.got = got
  BY DEF Formed

LEMMA IdleFormed == Formed(Idle) /\ Formed(Failed)
  BY DEF Idle, Failed, Formed, Pcs

\* A step of one caller that keeps to the rules of the mutex: only it comes
\* or goes, and the map changes only while no Close is under way.
LEMMA MutexStep ==
  ASSUME MutexInd, NEW c \in Callers, NEW new, Formed(new),
         call' = [call EXCEPT ![c] = new],
         UNCHANGED <<holds, changes>>,
         writer' \in {writer, c, None}, readers' \subseteq readers \cup {c},
         providers' \in [Schemes -> Vaults \cup {None}],
         closed \subseteq closed', closed' \subseteq Closable,
         writer' = c <=> new.pc = "closing",
         c \in readers' <=> new.pc = "lookup",
         writer' # None => readers' = {},
         \A d \in Callers \ {c} : /\ writer' = d <=> writer = d
                                  /\ d \in readers' <=> d \in readers,
         new.pc = "get" => new.vault \in Vaults,
         new.pc = "closing" => (Range(providers') \ {None}) \cap Closable
                                  \subseteq closed' \cup new.todo,
         writer # None => providers' = providers
  PROVE  MutexInd'
  <1>1. CallsFormed /\ TypeOK /\ CloseIsComplete
        /\ \A d \in Callers : /\ writer = d <=> call[d].pc = "closing"
                              /\ d \in readers <=> call[d].pc = "lookup"
    BY DEF MutexInd, MutexInv
  <1>2. /\ CallsFormed'
        /\ call'[c] = new
        /\ \A d \in Callers \ {c} : call'[d] = call[d]
    BY <1>1, CallChanges
  <1>3. /\ writer' \in Callers \cup {None} /\ readers' \subseteq Callers
        /\ holds' \in [Vaults -> [Paths -> Secrets \cup {None, Error}]]
        /\ changes' \in 0 .. MaxChanges
    BY <1>1 DEF TypeOK
  <1>4. \A d \in Callers : call'[d].pc = "get" => call'[d].vault \in Vaults
    BY <1>1, <1>2 DEF TypeOK
  <1>5. TypeOK'
    BY <1>3, <1>4 DEF TypeOK
  <1>6. CloseIsComplete'
    <2>1. SUFFICES ASSUME NEW d \in Callers, call'[d].pc = "closing"
                   PROVE  (Range(providers') \ {None}) \cap Closable
                            \subseteq closed' \cup call'[d].todo
      BY DEF CloseIsComplete
    <2>2. CASE d = c
      BY <1>2, <2>1, <2>2
    <2>3. CASE d # c
      <3>1. call'[d] = call[d] /\ writer = d
        BY <1>1, <1>2, <2>1, <2>3
      <3>2. providers' = providers
        BY <3>1, ResolverConstants
      <3>3. (Range(providers) \ {None}) \cap Closable
              \subseteq closed \cup call[d].todo
        BY <1>1, <2>1, <3>1 DEF CloseIsComplete
      <3> QED
        BY <3>1, <3>2, <3>3
    <2> QED
      BY <2>2, <2>3
  <1>7. \A d \in Callers : /\ writer' = d <=> call'[d].pc = "closing"
                           /\ d \in readers' <=> call'[d].pc = "lookup"
    BY <1>1, <1>2
  <1> QED
    BY <1>2, <1>5, <1>6, <1>7 DEF MutexInd, MutexInv

\* Steps of a caller that leave the mutex, the map and the vaults alone.
LEMMA PlainStep ==
  ASSUME MutexInd, NEW c \in Callers, NEW new, Formed(new),
         call' = [call EXCEPT ![c] = new], UNCHANGED <<mu, providers, vaults>>,
         call[c].pc \notin {"closing", "lookup"},
         new.pc \notin {"closing", "lookup"},
         new.pc = "get" => new.vault \in Vaults
  PROVE  MutexInd'
  <1>1. /\ UNCHANGED <<holds, changes>> /\ writer' = writer
        /\ readers' = readers /\ providers' = providers /\ closed' = closed
    BY DEF mu, vaults
  <1>2. /\ writer # c /\ c \notin readers
        /\ providers \in [Schemes -> Vaults \cup {None}]
        /\ closed \subseteq Closable
        /\ writer # None => readers = {}
    BY DEF MutexInd, MutexInv, TypeOK
  <1> QED
    BY <1>1, <1>2, MutexStep

\* The record of a caller that answers is what its step makes of it.
LEMMA CallFormed ==
  ASSUME MutexInd, NEW c \in Callers
  PROVE  Formed(call[c])
  BY DEF MutexInd, CallsFormed

LEMMA ResolveMutex ==
  ASSUME MutexInd, NEW c \in Callers, NEW op \in {"all", "map"}, NEW texts,
         Resolve(c, op, texts)
  PROVE  MutexInd'
  <1> DEFINE new == [Idle EXCEPT !.op = op, !.pc = "next", !.todo = texts,
                                 !.asked = texts]
  <1>1. Formed(new) /\ new.pc = "next"
    <2>1. new = [Idle EXCEPT !.op = op, !.pc = "next", !.todo = texts,
                             !.asked = texts]
      OBVIOUS
    <2>2. "next" \in Pcs /\ op \in {"none", "all", "map"} /\ op # "none"
      BY DEF Pcs
    <2> HIDE DEF new
    <2>3. new = [op |-> op, pc |-> "next", asked |-> texts, todo |-> texts,
                 text |-> None, vault |-> None, got |-> {}]
      BY <2>1 DEF Idle
    <2> QED
      BY <2>2, <2>3, FormedOf
  <1>2. call[c].pc \in {"idle", "failed"}
    BY DEF Resolve, Idle, Failed
  <1>3. call' = [call EXCEPT ![c] = new] /\ UNCHANGED <<mu, providers, vaults>>
    BY DEF Resolve
  <1> HIDE DEF new
  <1> QED
    BY <1>1, <1>2, <1>3, PlainStep

\* What Take makes of a call.
Taken(x, s) == [x EXCEPT !.todo = @ \ {s}, !.text = s]
PassedOn(x, s) == [Taken(x, s) EXCEPT !.got = @ \cup {<<s, s>>}]
ToMutex(x, s) == [Taken(x, s) EXCEPT !.pc = "rlock"]

LEMMA TakeCases ==
  ASSUME MutexInd, NEW c \in Callers, NEW s, Take(c, s)
  PROVE  /\ call[c].pc = "next" /\ s \in call[c].todo
         /\ call[c].op \in {"all", "map"}
         /\ UNCHANGED <<mu, providers, vaults>>
         /\ \/ /\ call' = [call EXCEPT ![c] = PassedOn(call[c], s)]
               /\ call[c].op = "map" /\ ~IsSecretRef(s)
            \/ /\ call' = [call EXCEPT ![c] = Failed]
               /\ call[c].op = "all" /\ Scheme(s) = <<>>
            \/ /\ call' = [call EXCEPT ![c] = ToMutex(call[c], s)]
               /\ call[c].op = "map" => IsSecretRef(s)
  <1>1. Formed(call[c])
    BY CallFormed
  <1>2. /\ call[c].pc = "next" /\ s \in call[c].todo
        /\ UNCHANGED <<mu, providers, vaults>>
    BY DEF Take
  <1>3. call[c].op \in {"all", "map"}
    BY <1>1, <1>2 DEF Formed
  <1>4. CASE call[c].op = "map" /\ ~IsSecretRef(s)
    BY <1>2, <1>3, <1>4 DEF Take, PassedOn, Taken
  <1>5. CASE call[c].op = "all" /\ Scheme(s) = <<>>
    BY <1>2, <1>3, <1>5 DEF Take
  <1>6. CASE /\ ~(call[c].op = "map" /\ ~IsSecretRef(s))
             /\ ~(call[c].op = "all" /\ Scheme(s) = <<>>)
    BY <1>2, <1>3, <1>6 DEF Take, ToMutex, Taken
  <1> QED
    BY <1>4, <1>5, <1>6

LEMMA TakeFields ==
  ASSUME NEW x, Formed(x), x.pc = "next", NEW s
  PROVE  /\ Formed(PassedOn(x, s)) /\ PassedOn(x, s).pc = "next"
         /\ PassedOn(x, s).op = x.op /\ PassedOn(x, s).asked = x.asked
         /\ PassedOn(x, s).todo = x.todo \ {s}
         /\ PassedOn(x, s).got = x.got \cup {<<s, s>>}
         /\ Formed(ToMutex(x, s)) /\ ToMutex(x, s).pc = "rlock"
         /\ ToMutex(x, s).op = x.op /\ ToMutex(x, s).asked = x.asked
         /\ ToMutex(x, s).todo = x.todo \ {s}
         /\ ToMutex(x, s).got = x.got /\ ToMutex(x, s).text = s
  <1> DEFINE y == [op |-> x.op, pc |-> x.pc, asked |-> x.asked,
                   todo |-> x.todo \ {s}, text |-> s, vault |-> x.vault,
                   got |-> x.got]
  <1>1. x = [op |-> x.op, pc |-> x.pc, asked |-> x.asked, todo |-> x.todo,
             text |-> x.text, vault |-> x.vault, got |-> x.got]
    BY DEF Formed
  <1>2. x.op \in {"none", "all", "map"} /\ x.op # "none"
    BY DEF Formed
  <1>3. Taken(x, s) = y
    <2>1. Taken(x, s) = [x EXCEPT !.todo = x.todo \ {s}, !.text = s]
      BY DEF Taken
    <2> QED
      BY <1>1, <2>1
  <1>4. PassedOn(x, s) =
          [op |-> x.op, pc |-> "next", asked |-> x.asked,
           todo |-> x.todo \ {s}, text |-> s, vault |-> x.vault,
           got |-> x.got \cup {<<s, s>>}]
    <2>1. PassedOn(x, s) = [y EXCEPT !.got = y.got \cup {<<s, s>>}]
      BY <1>3 DEF PassedOn
    <2> QED
      BY <2>1
  <1>5. ToMutex(x, s) =
          [op |-> x.op, pc |-> "rlock", asked |-> x.asked,
           todo |-> x.todo \ {s}, text |-> s, vault |-> x.vault,
           got |-> x.got]
    BY <1>3 DEF ToMutex
  <1> HIDE DEF y
  <1>6. "next" \in Pcs /\ "rlock" \in Pcs
    BY DEF Pcs
  <1>7. /\ Formed(PassedOn(x, s)) /\ PassedOn(x, s).pc = "next"
        /\ PassedOn(x, s).op = x.op /\ PassedOn(x, s).asked = x.asked
        /\ PassedOn(x, s).todo = x.todo \ {s}
        /\ PassedOn(x, s).got = x.got \cup {<<s, s>>}
    BY <1>2, <1>4, <1>6, FormedOf
  <1>8. /\ Formed(ToMutex(x, s)) /\ ToMutex(x, s).pc = "rlock"
        /\ ToMutex(x, s).op = x.op /\ ToMutex(x, s).asked = x.asked
        /\ ToMutex(x, s).todo = x.todo \ {s}
        /\ ToMutex(x, s).got = x.got /\ ToMutex(x, s).text = s
    BY <1>2, <1>5, <1>6, FormedOf
  <1> QED
    BY <1>7, <1>8

LEMMA TakeMutex ==
  ASSUME MutexInd, NEW c \in Callers, NEW s, Take(c, s)
  PROVE  MutexInd'
  <1>1. Formed(call[c])
    BY CallFormed
  <1>2. /\ call[c].pc = "next" /\ call[c].op \in {"all", "map"}
        /\ UNCHANGED <<mu, providers, vaults>>
    BY TakeCases
  <1>3. /\ Formed(PassedOn(call[c], s)) /\ PassedOn(call[c], s).pc = "next"
        /\ Formed(ToMutex(call[c], s)) /\ ToMutex(call[c], s).pc = "rlock"
    BY <1>1, <1>2, TakeFields
  <1>4. Formed(Failed) /\ Failed.pc = "failed"
    BY IdleFormed DEF Failed, Idle
  <1> QED
    BY <1>2, <1>3, <1>4, TakeCases, PlainStep

LEMMA RLockMutex ==
  ASSUME MutexInd, NEW c \in Callers, RLock(c)
  PROVE  MutexInd'
  <1> DEFINE new == [call[c] EXCEPT !.pc = "lookup"]
  <1>1. /\ call[c].pc = "rlock" /\ writer = None /\ readers' = readers \cup {c}
        /\ call' = [call EXCEPT ![c] = new]
        /\ UNCHANGED <<writer, providers, vaults>>
    BY DEF RLock
  <1>2. Formed(call[c])
    BY CallFormed
  <1>3. Formed(new) /\ new.pc = "lookup"
    BY <1>1, <1>2 DEF Formed, Pcs
  <1>4. /\ UNCHANGED <<holds, changes>> /\ closed' = closed
        /\ providers \in [Schemes -> Vaults \cup {None}]
        /\ closed \subseteq Closable
        /\ c # None
    BY <1>1, ResolverConstants DEF vaults, MutexInd, MutexInv, TypeOK
  <1> HIDE DEF new
  <1> QED
    BY <1>1, <1>3, <1>4, MutexStep

LEMMA RegisteredTyped ==
  ASSUME MutexInd, NEW s
  PROVE  Registered(s) \in Vaults \cup {None}
  BY DEF Registered, MutexInd, MutexInv, TypeOK

\* What LookUp makes of a call.
Found(x, v) == [x EXCEPT !.pc = "get", !.vault = v]

LEMMA FoundFields ==
  ASSUME NEW x, Formed(x), x.pc = "lookup", NEW v
  PROVE  /\ Formed(Found(x, v)) /\ Found(x, v).pc = "get"
         /\ Found(x, v).op = x.op /\ Found(x, v).asked = x.asked
         /\ Found(x, v).todo = x.todo /\ Found(x, v).text = x.text
         /\ Found(x, v).vault = v /\ Found(x, v).got = x.got
  <1>1. x = [op |-> x.op, pc |-> x.pc, asked |-> x.asked, todo |-> x.todo,
             text |-> x.text, vault |-> x.vault, got |-> x.got]
    BY DEF Formed
  <1>2. x.op \in {"none", "all", "map"} /\ x.op # "none"
    BY DEF Formed
  <1>3. Found(x, v) =
          [op |-> x.op, pc |-> "get", asked |-> x.asked, todo |-> x.todo,
           text |-> x.text, vault |-> v, got |-> x.got]
    <2>1. Found(x, v) = [x EXCEPT !.pc = "get", !.vault = v]
      BY DEF Found
    <2> QED
      BY <1>1, <2>1
  <1>4. "get" \in Pcs
    BY DEF Pcs
  <1> QED
    BY <1>2, <1>3, <1>4, FormedOf

LEMMA LookUpMutex ==
  ASSUME MutexInd, NEW c \in Callers, LookUp(c)
  PROVE  MutexInd'
  <1> DEFINE v == Registered(call[c].text)
             found == Found(call[c], v)
  <1>1. /\ call[c].pc = "lookup" /\ readers' = readers \ {c}
        /\ UNCHANGED <<writer, providers, vaults>>
    BY DEF LookUp
  <1>2. Formed(call[c])
    BY CallFormed
  <1>3. /\ UNCHANGED <<holds, changes>> /\ closed' = closed
        /\ providers \in [Schemes -> Vaults \cup {None}]
        /\ closed \subseteq Closable
        /\ c \in readers /\ writer # c /\ writer = None
    BY <1>1, ResolverConstants DEF vaults, MutexInd, MutexInv, TypeOK
  <1>4. CASE v = None
    <2>1. Formed(Failed) /\ Failed.pc = "failed"
      BY IdleFormed DEF Failed, Idle
    <2>2. call' = [call EXCEPT ![c] = Failed]
      BY <1>4 DEF LookUp, Fail
    <2> QED
      BY <1>1, <1>3, <2>1, <2>2, MutexStep
  <1>5. CASE v # None
    <2>1. v \in Vaults
      BY <1>5, RegisteredTyped
    <2>2. call' = [call EXCEPT ![c] = found]
      BY <1>5 DEF LookUp, Found
    <2>3. Formed(found) /\ found.pc = "get" /\ found.vault = v
      BY <1>1, <1>2, FoundFields
    <2> HIDE DEF found, v
    <2> QED
      BY <1>1, <1>3, <2>1, <2>2, <2>3, MutexStep
  <1> QED
    BY <1>4, <1>5

\* What Get makes of a call.
GotText(x, secret) ==
  [x EXCEPT !.pc = "next",
            !.got = @ \cup {<<x.text, Revealed(secret, Fragment(x.text))>>}]

LEMMA GotFields ==
  ASSUME NEW x, Formed(x), x.pc = "get", NEW secret
  PROVE  /\ Formed(GotText(x, secret)) /\ GotText(x, secret).pc = "next"
         /\ GotText(x, secret).op = x.op
         /\ GotText(x, secret).asked = x.asked
         /\ GotText(x, secret).todo = x.todo
         /\ GotText(x, secret).got =
              x.got \cup {<<x.text, Revealed(secret, Fragment(x.text))>>}
  <1> DEFINE got == x.got \cup {<<x.text, Revealed(secret, Fragment(x.text))>>}
  <1>1. x = [op |-> x.op, pc |-> x.pc, asked |-> x.asked, todo |-> x.todo,
             text |-> x.text, vault |-> x.vault, got |-> x.got]
    BY DEF Formed
  <1>2. x.op \in {"none", "all", "map"} /\ x.op # "none"
    BY DEF Formed
  <1>3. GotText(x, secret) = [x EXCEPT !.pc = "next", !.got = got]
    BY DEF GotText
  <1> HIDE DEF got
  <1>4. GotText(x, secret) =
          [op |-> x.op, pc |-> "next", asked |-> x.asked, todo |-> x.todo,
           text |-> x.text, vault |-> x.vault, got |-> got]
    BY <1>1, <1>3
  <1>5. "next" \in Pcs
    BY DEF Pcs
  <1> QED
    BY <1>2, <1>4, <1>5, FormedOf DEF got

LEMMA GetMutex ==
  ASSUME MutexInd, NEW c \in Callers, Get(c)
  PROVE  MutexInd'
  <1> DEFINE secret == Held(call[c].vault, Path(call[c].text))
             new == GotText(call[c], secret)
  <1>1. call[c].pc = "get" /\ UNCHANGED <<mu, providers, vaults>>
    BY DEF Get
  <1>2. Formed(call[c])
    BY CallFormed
  <1>3. CASE secret \in {None, Error}
    <2>1. Formed(Failed) /\ Failed.pc = "failed"
      BY IdleFormed DEF Failed, Idle
    <2>2. call' = [call EXCEPT ![c] = Failed]
      BY <1>3 DEF Get, Fail
    <2> QED
      BY <1>1, <2>1, <2>2, PlainStep
  <1>4. CASE secret \notin {None, Error}
    <2>1. call' = [call EXCEPT ![c] = new]
      BY <1>4 DEF Get, GotText
    <2>2. Formed(new) /\ new.pc = "next"
      BY <1>1, <1>2, GotFields
    <2> HIDE DEF new
    <2> QED
      BY <1>1, <2>1, <2>2, PlainStep
  <1> QED
    BY <1>3, <1>4

LEMMA ReturnMutex ==
  ASSUME MutexInd, NEW c \in Callers, Return(c)
  PROVE  MutexInd'
  <1>1. Formed(Idle) /\ Idle.pc = "idle"
    BY IdleFormed DEF Idle
  <1>2. /\ call[c].pc = "next" /\ call' = [call EXCEPT ![c] = Idle]
        /\ UNCHANGED <<mu, providers, vaults>>
    BY DEF Return
  <1> QED
    BY <1>1, <1>2, PlainStep

LEMMA AskLockMutex ==
  ASSUME MutexInd, NEW c \in Callers, AskLock(c)
  PROVE  MutexInd'
  <1> DEFINE new == [Idle EXCEPT !.pc = "lock"]
  <1>1. /\ call[c] = Idle /\ call' = [call EXCEPT ![c] = new]
        /\ UNCHANGED <<mu, providers, vaults>>
    BY DEF AskLock
  <1>2. Formed(new) /\ new.pc = "lock" /\ Idle.pc = "idle"
    BY DEF Idle, Formed, Pcs
  <1> HIDE DEF new
  <1> QED
    BY <1>1, <1>2, PlainStep

LEMMA RegisterMutex ==
  ASSUME MutexInd, NEW c \in Callers, NEW scheme \in Schemes,
         NEW v \in Vaults \cup {None}, Register(c, scheme, v)
  PROVE  MutexInd'
  <1>1. Formed(Idle) /\ Idle.pc = "idle"
    BY IdleFormed DEF Idle
  <1>2. /\ call[c].pc = "lock" /\ writer = None /\ readers = {}
        /\ providers' = [providers EXCEPT ![scheme] = v]
        /\ call' = [call EXCEPT ![c] = Idle]
        /\ writer' = writer /\ readers' = readers /\ closed' = closed
        /\ UNCHANGED <<holds, changes>>
    BY DEF Register, MayLock, mu, vaults
  <1>3. /\ providers' \in [Schemes -> Vaults \cup {None}]
        /\ closed \subseteq Closable
        /\ c # None
    BY <1>2, ResolverConstants DEF MutexInd, MutexInv, TypeOK
  <1> QED
    BY <1>1, <1>2, <1>3, MutexStep

LEMMA BeginCloseMutex ==
  ASSUME MutexInd, NEW c \in Callers, BeginClose(c)
  PROVE  MutexInd'
  <1> DEFINE new == [call[c] EXCEPT !.pc = "closing",
                                    !.todo = Range(providers) \ {None}]
  <1>1. /\ call[c].pc = "lock" /\ writer = None /\ readers = {}
        /\ writer' = c /\ call' = [call EXCEPT ![c] = new]
        /\ readers' = readers /\ closed' = closed /\ providers' = providers
        /\ UNCHANGED <<holds, changes>>
    BY DEF BeginClose, MayLock, vaults
  <1>2. Formed(call[c])
    BY CallFormed
  <1>3. /\ Formed(new) /\ new.pc = "closing"
        /\ new.todo = Range(providers) \ {None}
    <2> DEFINE x == call[c]
               todo == Range(providers) \ {None}
    <2>1. /\ x = [op |-> x.op, pc |-> x.pc, asked |-> x.asked,
                  todo |-> x.todo, text |-> x.text, vault |-> x.vault,
                  got |-> x.got]
          /\ x.op = "none"
      BY <1>1, <1>2 DEF Formed
    <2>2. new = [x EXCEPT !.pc = "closing", !.todo = todo]
      OBVIOUS
    <2>3. "closing" \in Pcs
      BY DEF Pcs
    <2> HIDE DEF new, todo, x
    <2>4. new = [op |-> x.op, pc |-> "closing", asked |-> x.asked,
                 todo |-> todo, text |-> x.text, vault |-> x.vault,
                 got |-> x.got]
      BY <2>1, <2>2
    <2> QED
      BY <2>1, <2>3, <2>4, FormedOf DEF todo
  <1>4. /\ providers \in [Schemes -> Vaults \cup {None}]
        /\ closed \subseteq Closable
        /\ None \notin Callers
    BY ResolverConstants DEF MutexInd, MutexInv, TypeOK
  <1> HIDE DEF new
  <1> QED
    BY <1>1, <1>3, <1>4, MutexStep

LEMMA CloseOneMutex ==
  ASSUME MutexInd, NEW c \in Callers, NEW v, CloseOne(c, v)
  PROVE  MutexInd'
  <1> DEFINE new == [call[c] EXCEPT !.todo = @ \ {v}]
  <1>1. /\ call[c].pc = "closing" /\ v \in call[c].todo
        /\ closed' = closed \cup ({v} \cap Closable)
        /\ call' = [call EXCEPT ![c] = new]
        /\ writer' = writer /\ readers' = readers /\ providers' = providers
        /\ UNCHANGED <<holds, changes>>
    BY DEF CloseOne, mu
  <1>2. Formed(call[c])
    BY CallFormed
  <1>3. Formed(new) /\ new.pc = "closing" /\ new.todo = call[c].todo \ {v}
    BY <1>1, <1>2 DEF Formed, Pcs
  <1>4. /\ providers \in [Schemes -> Vaults \cup {None}]
        /\ closed \subseteq Closable
        /\ writer = c /\ readers = {}
        /\ (Range(providers) \ {None}) \cap Closable
             \subseteq closed \cup call[c].todo
    BY <1>1, ResolverConstants
       DEF MutexInd, MutexInv, TypeOK, CloseIsComplete
  <1>5. (Range(providers') \ {None}) \cap Closable
          \subseteq closed' \cup new.todo
    BY <1>1, <1>3, <1>4
  <1> HIDE DEF new
  <1> QED
    BY <1>1, <1>3, <1>4, <1>5, MutexStep

LEMMA EndCloseMutex ==
  ASSUME MutexInd, NEW c \in Callers, EndClose(c)
  PROVE  MutexInd'
  <1>1. Formed(Idle) /\ Idle.pc = "idle"
    BY IdleFormed DEF Idle
  <1>2. /\ call[c].pc = "closing" /\ writer' = None
        /\ call' = [call EXCEPT ![c] = Idle]
        /\ readers' = readers /\ closed' = closed /\ providers' = providers
        /\ UNCHANGED <<holds, changes>>
    BY DEF EndClose, vaults
  <1>3. /\ providers \in [Schemes -> Vaults \cup {None}]
        /\ closed \subseteq Closable
        /\ writer = c /\ readers = {} /\ None \notin Callers
    BY <1>2, ResolverConstants DEF MutexInd, MutexInv, TypeOK
  <1> QED
    BY <1>1, <1>2, <1>3, MutexStep

\* The vaults change.
LEMMA ClientsMutex ==
  ASSUME MutexInd, UNCHANGED <<mu, providers, call>>,
         holds' \in [Vaults -> [Paths -> Secrets \cup {None, Error}]],
         closed \subseteq closed', closed' \subseteq Closable,
         changes' \in 0 .. MaxChanges
  PROVE  MutexInd'
  BY DEF MutexInd, MutexInv, CallsFormed, TypeOK, CloseIsComplete, mu
-----------------------------------------------------------------------------
(* References: a text made of a scheme, a path and a field is taken apart   *)
(* into just these.                                                         *)

\* Letter by letter, a reference is a scheme, the separator, a path, and a
\* field behind "#" if it has one.
LEMMA RefParts ==
  ASSUME NEW ref \in Refs
  PROVE  /\ ref.scheme \in Letters /\ ref.scheme \notin {":", "/", "#"}
         /\ ref.path \in Seq(Letters) /\ Len(ref.path) \in Nat \ {0}
         /\ ref.field \in Seq(Letters) /\ Len(ref.field) \in Nat
         /\ \A i \in 1 .. Len(ref.path) : ref.path[i] # "#"
         /\ \A i \in 1 .. Len(ref.field) : ref.field[i] # "#"
         /\ ref.path \in Paths /\ ref.field \in {<<>>, Field, ValueName}
  <1>1. /\ ref.scheme \in Schemes /\ ref.path \in Paths
        /\ ref.field \in {<<>>, Field, ValueName}
    BY DEF Refs
  <1>2. ref.scheme \in Letters /\ ref.scheme \notin {":", "/", "#"}
    BY <1>1, ResolverConstants
  <1>3. ref.path \in Seq(Letters) /\ ref.path # <<>> /\ "#" \notin Range(ref.path)
    BY <1>1, ResolverConstants
  <1>4. Len(ref.path) \in Nat \ {0}
    BY <1>3, EmptySeq
  <1>5. /\ Field \in Seq(Letters) /\ "#" \notin Range(Field)
        /\ ValueName \in Seq(Letters) /\ "#" \notin Range(ValueName)
    BY ResolverConstants
  <1>6. ref.field \in Seq(Letters)
    BY <1>1, <1>5, EmptySeq
  <1>7. Len(ref.field) \in Nat
    BY <1>6, LenProperties
  <1>8. \A i \in 1 .. Len(ref.path) : ref.path[i] # "#"
    BY <1>3, LenProperties DEF Range
  <1>9. \A i \in 1 .. Len(ref.field) : ref.field[i] # "#"
    <2>1. CASE ref.field = <<>>
      BY <2>1, EmptySeq
    <2>2. CASE ref.field = Field
      BY <1>5, <2>2, LenProperties DEF Range
    <2>3. CASE ref.field = ValueName
      BY <1>5, <2>3, LenProperties DEF Range
    <2> QED
      BY <1>1, <2>1, <2>2, <2>3
  <1> QED
    BY <1>1, <1>2, <1>3, <1>4, <1>6, <1>7, <1>8, <1>9

LEMMA TextShape ==
  ASSUME NEW ref \in Refs
  PROVE  LET t == Text(ref)
             L == Len(ref.path)
             F == Len(ref.field)
         IN  /\ t \in Seq(Letters)
             /\ Len(t) = 4 + L + (IF ref.field = <<>> THEN 0 ELSE 1 + F)
             /\ t[1] = ref.scheme /\ t[2] = ":" /\ t[3] = "/" /\ t[4] = "/"
             /\ \A i \in 1 .. L : t[4 + i] = ref.path[i]
             /\ ref.field # <<>> =>
                  /\ t[5 + L] = "#"
                  /\ \A i \in 1 .. F : t[5 + L + i] = ref.field[i]
  <1> DEFINE L == Len(ref.path)
             F == Len(ref.field)
             head == <<ref.scheme>>
             lead == head \o Separator
             front == lead \o ref.path
             tail == IF ref.field = <<>> THEN <<>> ELSE <<"#">> \o ref.field
  <1>1. /\ ref.scheme \in Letters
        /\ ref.path \in Seq(Letters) /\ L \in Nat
        /\ ref.field \in Seq(Letters) /\ F \in Nat
    BY RefParts
  <1>2. {":", "/", "#"} \subseteq Letters
    BY ResolverConstants
  <1>3. /\ head \in Seq(Letters) /\ Len(head) = 1 /\ head[1] = ref.scheme
        /\ Separator \in Seq(Letters) /\ Len(Separator) = 3
        /\ Separator[1] = ":" /\ Separator[2] = "/" /\ Separator[3] = "/"
    BY <1>1, <1>2 DEF Separator
  <1> HIDE DEF head
  <1>4. /\ lead \in Seq(Letters) /\ Len(lead) = 4
        /\ lead[1] = ref.scheme /\ lead[2] = ":" /\ lead[3] = "/"
        /\ lead[4] = "/"
    <2>1. /\ lead \in Seq(Letters) /\ Len(lead) = Len(head) + Len(Separator)
          /\ \A i \in 1 .. Len(head) + Len(Separator) :
               lead[i] = IF i <= Len(head) THEN head[i]
                                           ELSE Separator[i - Len(head)]
      BY <1>3, ConcatProperties
    <2>2. /\ Len(head) = 1 /\ Len(Separator) = 3
      BY <1>3
    <2> HIDE DEF lead
    <2>3. \A i \in 1 .. 4 : lead[i] = IF i <= 1 THEN head[i]
                                                ELSE Separator[i - 1]
      BY <2>1, <2>2
    <2> QED
      BY <1>3, <2>1, <2>2, <2>3
  <1> HIDE DEF lead
  <1>5. /\ front \in Seq(Letters) /\ Len(front) = 4 + L
        /\ \A i \in 1 .. 4 + L : front[i] = IF i <= 4 THEN lead[i]
                                                      ELSE ref.path[i - 4]
    <2>1. /\ front \in Seq(Letters)
          /\ Len(front) = Len(lead) + Len(ref.path)
          /\ \A i \in 1 .. Len(lead) + Len(ref.path) :
               front[i] = IF i <= Len(lead) THEN lead[i]
                                            ELSE ref.path[i - Len(lead)]
      BY <1>1, <1>4, ConcatProperties
    <2>2. Len(lead) = 4
      BY <1>4
    <2> HIDE DEF front
    <2> QED
      BY <2>1, <2>2
  <1> HIDE DEF front
  <1>6. /\ tail \in Seq(Letters)
        /\ Len(tail) = IF ref.field = <<>> THEN 0 ELSE 1 + F
        /\ ref.field # <<>> =>
             tail[1] = "#" /\ \A i \in 1 .. F : tail[1 + i] = ref.field[i]
    <2>1. CASE ref.field = <<>>
      BY <2>1, EmptySeq
    <2>2. CASE ref.field # <<>>
      <3> DEFINE hash == <<"#">>
      <3>1. hash \in Seq(Letters) /\ Len(hash) = 1 /\ hash[1] = "#"
        BY <1>2
      <3> HIDE DEF hash
      <3>2. tail = hash \o ref.field
        BY <2>2 DEF hash
      <3>3. /\ tail \in Seq(Letters) /\ Len(tail) = 1 + F
            /\ \A i \in 1 .. 1 + F : tail[i] = IF i <= 1 THEN hash[i]
                                               ELSE ref.field[i - 1]
        BY <1>1, <3>1, <3>2, ConcatProperties
      <3> HIDE DEF tail
      <3>4. tail[1] = "#"
        BY <1>1, <3>1, <3>3
      <3>5. ASSUME NEW i \in 1 .. F PROVE tail[1 + i] = ref.field[i]
        <4>1. 1 + i \in 1 .. 1 + F /\ ~(1 + i <= 1) /\ (1 + i) - 1 = i
          BY <1>1
        <4> QED
          BY <3>3, <4>1
      <3> QED
        BY <2>2, <3>3, <3>4, <3>5
    <2> QED
      BY <2>1, <2>2
  <1> HIDE DEF tail
  <1>7. Text(ref) = front \o tail
    BY DEF Text, front, lead, head, tail
  <1> DEFINE t == Text(ref)
  <1>8. /\ t \in Seq(Letters) /\ Len(t) = 4 + L + Len(tail)
        /\ \A i \in 1 .. 4 + L + Len(tail) :
             t[i] = IF i <= 4 + L THEN front[i] ELSE tail[i - (4 + L)]
    <2> DEFINE both == front \o tail
    <2>0. front \in Seq(Letters) /\ tail \in Seq(Letters)
      BY <1>5, <1>6
    <2>1. /\ both \in Seq(Letters) /\ Len(both) = Len(front) + Len(tail)
          /\ \A i \in 1 .. Len(front) + Len(tail) :
               both[i] = IF i <= Len(front) THEN front[i]
                                            ELSE tail[i - Len(front)]
      BY <2>0, ConcatProperties
    <2>3. t = both
      BY <1>7
    <2>2. Len(front) = 4 + L
      BY <1>5
    <2> HIDE DEF t, L, both
    <2> QED
      BY <2>1, <2>2, <2>3
  <1> HIDE DEF t, L, F
  <1>9. L \in Nat /\ F \in Nat /\ Len(tail) \in Nat
    BY <1>1, <1>6
  <1>10. \A i \in 1 .. 4 + L : t[i] = front[i]
    BY <1>8, <1>9
  <1>11. \A i \in 1 .. 4 : t[i] = lead[i]
    BY <1>5, <1>9, <1>10
  <1>12. t[1] = ref.scheme /\ t[2] = ":" /\ t[3] = "/" /\ t[4] = "/"
    BY <1>4, <1>11
  <1>13. ASSUME NEW i \in 1 .. L PROVE t[4 + i] = ref.path[i]
    <2>1. 4 + i \in 1 .. 4 + L /\ ~(4 + i <= 4) /\ (4 + i) - 4 = i
      BY <1>9
    <2> QED
      BY <1>5, <1>10, <2>1
  <1>14. ASSUME NEW i \in 1 .. Len(tail) PROVE t[4 + L + i] = tail[i]
    <2>1. /\ 4 + L + i \in 1 .. 4 + L + Len(tail) /\ ~(4 + L + i <= 4 + L)
          /\ (4 + L + i) - (4 + L) = i
      BY <1>9
    <2> QED
      BY <1>8, <2>1
  <1>15. ASSUME ref.field # <<>>
         PROVE  /\ t[5 + L] = "#"
                /\ \A i \in 1 .. F : t[5 + L + i] = ref.field[i]
    <2>1. Len(tail) = 1 + F
      BY <1>6, <1>15
    <2>2. 1 \in 1 .. Len(tail) /\ (4 + L) + 1 = 5 + L
      BY <1>9, <2>1
    <2>3. t[5 + L] = tail[1]
      BY <1>14, <2>2
    <2>4. ASSUME NEW i \in 1 .. F PROVE t[5 + L + i] = tail[1 + i]
      <3>1. 1 + i \in 1 .. Len(tail) /\ (4 + L) + (1 + i) = 5 + L + i
        BY <1>9, <2>1
      <3> QED
        BY <1>14, <3>1
    <2> QED
      BY <1>6, <1>15, <2>3, <2>4
  <1>16. Len(t) = 4 + L + (IF ref.field = <<>> THEN 0 ELSE 1 + F)
    BY <1>6, <1>8
  <1> QED
    BY <1>8, <1>12, <1>13, <1>15, <1>16 DEF t, L, F

\* The first and the last of some positions.
LEMMA FirstIs ==
  ASSUME NEW S, S \subseteq Nat, NEW m \in S, \A j \in S : m <= j
  PROVE  First(S) = m
  <1>1. \A i \in S : (\A j \in S : i <= j) => i = m
    OBVIOUS
  <1> QED
    BY <1>1 DEF First

LEMMA LastIs ==
  ASSUME NEW S, S \subseteq Nat, NEW m \in S, \A j \in S : m >= j
  PROVE  Last(S) = m
  <1>1. \A i \in S : (\A j \in S : i >= j) => i = m
    OBVIOUS
  <1> QED
    BY <1>1 DEF Last

LEMMA TextStart ==
  ASSUME NEW ref \in Refs
  PROVE  /\ Text(ref) \in Seq(Letters)
         /\ Len(Text(ref)) \in Nat /\ Len(Text(ref)) > 4
         /\ DOMAIN Text(ref) = 1 .. Len(Text(ref))
         /\ Text(ref)[1] = ref.scheme /\ Text(ref)[2] = ":"
         /\ Text(ref)[3] = "/" /\ Text(ref)[4] = "/"
  <1> DEFINE L == Len(ref.path)
             F == Len(ref.field)
  <1>1. L \in Nat \ {0} /\ F \in Nat
    BY RefParts
  <1>2. Len(Text(ref)) = 4 + L + (IF ref.field = <<>> THEN 0 ELSE 1 + F)
    BY TextShape
  <1>3. /\ Text(ref) \in Seq(Letters)
        /\ Text(ref)[1] = ref.scheme /\ Text(ref)[2] = ":"
        /\ Text(ref)[3] = "/" /\ Text(ref)[4] = "/"
    BY TextShape
  <1> HIDE DEF L, F
  <1>4. Len(Text(ref)) \in Nat /\ Len(Text(ref)) > 4
    BY <1>1, <1>2
  <1> QED
    BY <1>3, <1>4, LenProperties

LEMMA SchemeOfText ==
  ASSUME NEW ref \in Refs
  PROVE  Scheme(Text(ref)) = <<ref.scheme>>
  <1> DEFINE t == Text(ref)
  <1>1. /\ t \in Seq(Letters) /\ Len(t) \in Nat /\ Len(t) >= 4
        /\ t[1] = ref.scheme /\ t[2] = ":" /\ ref.scheme # ":"
    BY TextStart, RefParts
  <1>2. DOMAIN t = 1 .. Len(t)
    BY TextStart
  <1> HIDE DEF t
  <1>3. /\ Positions(":", t) \subseteq Nat /\ 2 \in Positions(":", t)
        /\ \A j \in Positions(":", t) : 2 <= j
    BY <1>1, <1>2 DEF Positions
  <1>4. First(Positions(":", t)) = 2
    BY <1>3, FirstIs
  <1>5. Scheme(t) = SubSeq(t, 1, 1)
    BY <1>3, <1>4 DEF Scheme
  <1>6. t[1] \in Letters
    BY <1>1, <1>2, ElementOfSeq
  <1>7. /\ SubSeq(t, 1, 1) \in Seq(Letters) /\ Len(SubSeq(t, 1, 1)) = 1
        /\ SubSeq(t, 1, 1)[1] = t[1]
    BY <1>1, <1>6, SubSeqProperties
  <1>8. SubSeq(t, 1, 1) = <<ref.scheme>>
    <2>1. /\ <<ref.scheme>> \in Seq(Letters) /\ Len(<<ref.scheme>>) = 1
          /\ <<ref.scheme>>[1] = ref.scheme
      BY <1>1, <1>6
    <2> DEFINE u == SubSeq(t, 1, 1)
               w == <<ref.scheme>>
    <2>2. u \in Seq(Letters) /\ w \in Seq(Letters) /\ Len(u) = 1 /\ Len(w) = 1
          /\ u[1] = w[1]
      BY <1>1, <1>7, <2>1
    <2> HIDE DEF u, w
    <2>3. Len(u) = Len(w) /\ \A i \in 1 .. Len(u) : u[i] = w[i]
      BY <2>2
    <2>4. u = w
      BY <2>2, <2>3, SeqEqual
    <2> QED
      BY <2>4 DEF u, w
  <1> QED
    BY <1>5, <1>8 DEF t

LEMMA TextIsRef ==
  ASSUME NEW ref \in Refs
  PROVE  IsSecretRef(Text(ref))
  <1>1. Scheme(Text(ref)) = <<ref.scheme>>
    BY SchemeOfText
  <1>2. Len(<<ref.scheme>>) = 1 /\ <<ref.scheme>> # <<>>
    OBVIOUS
  <1>3. Len(Text(ref)) > 4
    BY TextStart
  <1> QED
    BY <1>1, <1>2, <1>3 DEF IsSecretRef

\* What stands behind the separator of a reference.
LEMMA BehindSeparator ==
  ASSUME NEW ref \in Refs
  PROVE  LET p == SubSeq(Text(ref), 5, Len(Text(ref)))
             L == Len(ref.path)
             F == Len(ref.field)
         IN  /\ p \in Seq(Letters)
             /\ Len(p) = L + (IF ref.field = <<>> THEN 0 ELSE 1 + F)
             /\ \A i \in 1 .. L : p[i] = ref.path[i]
             /\ ref.field # <<>> => p[1 + L] = "#"
  <1> DEFINE t == Text(ref)
             L == Len(ref.path)
             F == Len(ref.field)
             p == SubSeq(t, 5, Len(t))
  <1>1. L \in Nat \ {0} /\ F \in Nat
    BY RefParts
  <1>2. Len(t) = 4 + L + (IF ref.field = <<>> THEN 0 ELSE 1 + F)
    BY TextShape
  <1>3. /\ \A i \in 1 .. L : t[4 + i] = ref.path[i]
        /\ ref.field # <<>> => t[5 + L] = "#"
    BY TextShape
  <1>4. t \in Seq(Letters) /\ Len(t) \in Nat /\ Len(t) > 4
    BY TextStart
  <1> HIDE DEF t, L, F
  <1>5. \A i \in 5 .. Len(t) : t[i] \in Letters
    BY <1>4, ElementOfSeq
  <1>6. /\ p \in Seq(Letters)
        /\ Len(p) = IF 5 <= Len(t) THEN Len(t) - 5 + 1 ELSE 0
        /\ \A i \in 1 .. Len(t) - 5 + 1 : p[i] = t[5 + i - 1]
    BY <1>4, <1>5, SubSeqProperties
  <1> HIDE DEF p
  <1>7. Len(p) = L + (IF ref.field = <<>> THEN 0 ELSE 1 + F)
    BY <1>1, <1>2, <1>4, <1>6
  <1>8. ASSUME NEW i \in 1 .. L PROVE p[i] = ref.path[i]
    <2>1. i \in 1 .. Len(t) - 5 + 1 /\ 5 + i - 1 = 4 + i
      BY <1>1, <1>2
    <2> QED
      BY <1>3, <1>6, <2>1
  <1>9. ASSUME ref.field # <<>> PROVE p[1 + L] = "#"
    <2>1. 1 + L \in 1 .. Len(t) - 5 + 1 /\ 5 + (1 + L) - 1 = 5 + L
      BY <1>1, <1>2, <1>9
    <2> QED
      BY <1>3, <1>6, <1>9, <2>1
  <1> QED
    BY <1>6, <1>7, <1>8, <1>9 DEF p, t, L, F

LEMMA SeparatorIsFirst ==
  ASSUME NEW ref \in Refs
  PROVE  LET t == Text(ref)
             starts == {i \in 1 .. (Len(t) - 2) : SubSeq(t, i, i + 2) = Separator}
         IN  starts # {} /\ First(starts) = 2
  <1> DEFINE t == Text(ref)
             starts == {i \in 1 .. (Len(t) - 2) : SubSeq(t, i, i + 2) = Separator}
  <1>1. /\ t \in Seq(Letters) /\ Len(t) \in Nat /\ Len(t) > 4
        /\ t[1] = ref.scheme /\ t[2] = ":" /\ t[3] = "/" /\ t[4] = "/"
        /\ ref.scheme # ":"
    BY TextStart, RefParts
  <1> HIDE DEF t
  <1>2. \A i \in 1 .. 4 : t[i] \in Letters
    BY <1>1, ElementOfSeq
  <1>3. /\ Separator \in Seq(Letters) /\ Len(Separator) = 3
        /\ Separator[1] = ":" /\ Separator[2] = "/" /\ Separator[3] = "/"
    BY ResolverConstants DEF Separator
  <1>4. SubSeq(t, 2, 4) = Separator
    <2> DEFINE u == SubSeq(t, 2, 4)
    <2>1. \A i \in 2 .. 4 : t[i] \in Letters
      BY <1>2
    <2>2. /\ u \in Seq(Letters) /\ Len(u) = IF 2 <= 4 THEN 4 - 2 + 1 ELSE 0
          /\ \A i \in 1 .. 4 - 2 + 1 : u[i] = t[2 + i - 1]
      BY <2>1, SubSeqProperties
    <2> HIDE DEF u
    <2>3. Len(u) = 3 /\ u[1] = t[2] /\ u[2] = t[3] /\ u[3] = t[4]
      BY <2>2
    <2>4. Len(u) = Len(Separator) /\ \A i \in 1 .. Len(u) : u[i] = Separator[i]
      BY <1>1, <1>3, <2>3
    <2>5. u = Separator
      BY <1>3, <2>2, <2>4, SeqEqual
    <2> QED
      BY <2>5 DEF u
  <1>5. SubSeq(t, 1, 3) # Separator
    <2> DEFINE u == SubSeq(t, 1, 3)
    <2>1. \A i \in 1 .. 3 : t[i] \in Letters
      BY <1>2
    <2>2. \A i \in 1 .. 3 - 1 + 1 : u[i] = t[1 + i - 1]
      BY <2>1, SubSeqProperties
    <2> HIDE DEF u
    <2>3. u[1] = t[1]
      BY <2>2
    <2>4. u # Separator
      BY <1>1, <1>3, <2>3
    <2> QED
      BY <2>4 DEF u
  <1>6. 2 \in starts
    BY <1>1, <1>4
  <1>7. 1 \notin starts
    BY <1>5
  <1>8. starts \subseteq Nat /\ \A j \in starts : 2 <= j
    <2>1. \A j \in starts : j \in Nat /\ j >= 1
      BY <1>1
    <2> HIDE DEF starts
    <2>2. \A j \in starts : j # 1
      BY <1>7
    <2> QED
      BY <2>1, <2>2
  <1> HIDE DEF starts
  <1>9. First(starts) = 2
    BY <1>6, <1>8, FirstIs
  <1>10. starts # {}
    BY <1>6
  <1> QED
    BY <1>9, <1>10 DEF starts, t

LEMMA PathOfText ==
  ASSUME NEW ref \in Refs
  PROVE  Path(Text(ref)) = ref.path
  <1> DEFINE t == Text(ref)
             L == Len(ref.path)
             F == Len(ref.field)
             p == SubSeq(t, 5, Len(t))
             P == Positions("#", p)
  <1>1. /\ p \in Seq(Letters)
        /\ Len(p) = L + (IF ref.field = <<>> THEN 0 ELSE 1 + F)
        /\ \A i \in 1 .. L : p[i] = ref.path[i]
        /\ ref.field # <<>> => p[1 + L] = "#"
    BY BehindSeparator
  <1>2. /\ L \in Nat \ {0} /\ F \in Nat /\ ref.path \in Seq(Letters)
        /\ \A i \in 1 .. L : ref.path[i] # "#"
    BY RefParts
  <1>3. Path(t) = IF P = {} THEN p ELSE SubSeq(p, 1, First(P) - 1)
    <2> DEFINE starts == {i \in 1 .. (Len(t) - 2) :
                            SubSeq(t, i, i + 2) = Separator}
               q == SubSeq(t, First(starts) + 3, Len(t))
    <2>1. starts # {} /\ First(starts) = 2
      BY SeparatorIsFirst
    <2>2. Path(t) = IF starts = {} THEN t
                    ELSE IF Positions("#", q) = {} THEN q
                    ELSE SubSeq(q, 1, First(Positions("#", q)) - 1)
      BY DEF Path
    <2> HIDE DEF starts, t
    <2>3. First(starts) + 3 = 5
      BY <2>1
    <2>4. q = p
      BY <2>3
    <2> HIDE DEF q
    <2> QED
      BY <2>1, <2>2, <2>4
  <1> HIDE DEF p, L, F, t
  <1>4. DOMAIN p = 1 .. Len(p) /\ Len(p) \in Nat
    BY <1>1, LenProperties
  <1>5. P \subseteq Nat /\ \A j \in P : j \in 1 .. Len(p) /\ p[j] = "#"
    BY <1>4 DEF Positions
  <1>6. \A j \in P : j > L
    BY <1>1, <1>2, <1>5
  <1>7. CASE ref.field = <<>>
    <2>1. Len(p) = L
      BY <1>1, <1>2, <1>7
    <2>2. P = {}
      BY <1>2, <1>5, <1>6, <2>1
    <2>3. p = ref.path
      <3>1. Len(p) = Len(ref.path) /\ \A i \in 1 .. Len(p) : p[i] = ref.path[i]
        BY <1>1, <2>1 DEF L
      <3> QED
        BY <1>1, <1>2, <3>1, SeqEqual
    <2> QED
      BY <1>3, <2>2, <2>3 DEF t
  <1>8. CASE ref.field # <<>>
    <2>1. Len(p) = L + (1 + F)
      BY <1>1, <1>8
    <2>2. 1 + L \in P
      BY <1>1, <1>2, <1>4, <1>8, <2>1 DEF Positions
    <2> HIDE DEF P
    <2>3. \A j \in P : 1 + L <= j
      BY <1>2, <1>5, <1>6
    <2>4. First(P) = 1 + L
      BY <1>5, <2>2, <2>3, FirstIs
    <2>5. Path(t) = SubSeq(p, 1, L)
      BY <1>2, <1>3, <2>2, <2>4
    <2> DEFINE u == SubSeq(p, 1, L)
    <2>6. \A i \in 1 .. L : p[i] \in Letters
      BY <1>1, <1>2, <2>1, ElementOfSeq
    <2>7. /\ u \in Seq(Letters) /\ Len(u) = IF 1 <= L THEN L - 1 + 1 ELSE 0
          /\ \A i \in 1 .. L - 1 + 1 : u[i] = p[1 + i - 1]
      BY <1>2, <2>6, SubSeqProperties
    <2> HIDE DEF u
    <2>8. Len(u) = L /\ \A i \in 1 .. L : u[i] = p[i]
      BY <1>2, <2>7
    <2>9. Len(u) = Len(ref.path) /\ \A i \in 1 .. Len(u) : u[i] = ref.path[i]
      BY <1>1, <2>8 DEF L
    <2>10. u = ref.path
      BY <1>2, <2>7, <2>9, SeqEqual
    <2> QED
      BY <2>5, <2>10 DEF u, t
  <1> QED
    BY <1>7, <1>8

LEMMA FragmentOfText ==
  ASSUME NEW ref \in Refs
  PROVE  Fragment(Text(ref)) = ref.field
  <1> DEFINE t == Text(ref)
             L == Len(ref.path)
             F == Len(ref.field)
             P == Positions("#", t)
  <1>1. Len(t) = 4 + L + (IF ref.field = <<>> THEN 0 ELSE 1 + F)
    BY TextShape
  <1>2. /\ \A i \in 1 .. L : t[4 + i] = ref.path[i]
        /\ ref.field # <<>> =>
             /\ t[5 + L] = "#"
             /\ \A i \in 1 .. F : t[5 + L + i] = ref.field[i]
    BY TextShape
  <1>3. /\ L \in Nat \ {0} /\ F \in Nat /\ ref.field \in Seq(Letters)
        /\ \A i \in 1 .. L : ref.path[i] # "#"
        /\ \A i \in 1 .. F : ref.field[i] # "#"
        /\ ref.scheme # "#"
    BY RefParts
  <1>4. /\ t \in Seq(Letters) /\ Len(t) \in Nat /\ DOMAIN t = 1 .. Len(t)
        /\ t[1] = ref.scheme /\ t[2] = ":" /\ t[3] = "/" /\ t[4] = "/"
    BY TextStart
  <1>5. Fragment(t) = IF P = {} THEN <<>> ELSE SubSeq(t, Last(P) + 1, Len(t))
    BY DEF Fragment
  <1> HIDE DEF t, L, F
  <1>6. P \subseteq Nat /\ \A j \in P : j \in 1 .. Len(t) /\ t[j] = "#"
    BY <1>4 DEF Positions
  <1>7. \A j \in 1 .. 4 : t[j] # "#"
    BY <1>3, <1>4
  <1>8. ASSUME NEW j \in 5 .. 4 + L PROVE t[j] # "#"
    <2>1. j - 4 \in 1 .. L /\ 4 + (j - 4) = j
      BY <1>3
    <2> QED
      BY <1>2, <1>3, <2>1
  <1>9. \A j \in P : j > 4 + L
    <2>1. \A j \in P : j \in Nat /\ j >= 1 /\ t[j] = "#"
      BY <1>4, <1>6
    <2> HIDE DEF P
    <2> QED
      BY <1>3, <1>7, <1>8, <2>1
  <1>10. CASE ref.field = <<>>
    <2>1. Len(t) = 4 + L
      BY <1>1, <1>3, <1>10
    <2>2. P = {}
      BY <1>3, <1>6, <1>9, <2>1
    <2> QED
      BY <1>5, <1>10, <2>2 DEF t
  <1>11. CASE ref.field # <<>>
    <2>1. Len(t) = 5 + L + F
      BY <1>1, <1>3, <1>11
    <2>2. 5 + L \in P
      BY <1>2, <1>3, <1>4, <1>11, <2>1 DEF Positions
    <2> HIDE DEF P
    <2>3. ASSUME NEW j \in P, j > 5 + L PROVE FALSE
      <3>1. j \in Nat /\ j <= Len(t) /\ t[j] = "#"
        BY <1>4, <1>6
      <3>2. j - (5 + L) \in 1 .. F /\ 5 + L + (j - (5 + L)) = j
        BY <1>3, <2>1, <2>3, <3>1
      <3> QED
        BY <1>2, <1>3, <1>11, <3>1, <3>2
    <2>4. \A j \in P : 5 + L >= j
      <3>1. \A j \in P : j \in Nat /\ ~(j > 5 + L)
        BY <1>6, <2>3
      <3>2. 5 + L \in Nat
        BY <1>3
      <3> QED
        BY <3>1, <3>2
    <2>5. Last(P) = 5 + L
      BY <1>6, <2>2, <2>4, LastIs
    <2>6. Fragment(t) = SubSeq(t, 6 + L, 5 + L + F)
      <3>1. (5 + L) + 1 = 6 + L
        BY <1>3
      <3> QED
        BY <1>5, <2>1, <2>2, <2>5, <3>1
    <2> DEFINE u == SubSeq(t, 6 + L, 5 + L + F)
    <2>7. \A i \in 6 + L .. 5 + L + F : t[i] \in Letters
      BY <1>3, <1>4, <2>1, ElementOfSeq
    <2>8. 6 + L \in Int /\ 5 + L + F \in Int
      BY <1>3
    <2>9. /\ u \in Seq(Letters)
          /\ Len(u) = IF 6 + L <= 5 + L + F THEN (5 + L + F) - (6 + L) + 1 ELSE 0
          /\ \A i \in 1 .. (5 + L + F) - (6 + L) + 1 : u[i] = t[(6 + L) + i - 1]
      BY <2>7, <2>8, SubSeqProperties
    <2> HIDE DEF u
    <2>10. Len(u) = F
      BY <1>3, <2>9
    <2>11. ASSUME NEW i \in 1 .. F PROVE u[i] = ref.field[i]
      <3>1. /\ i \in 1 .. (5 + L + F) - (6 + L) + 1
            /\ (6 + L) + i - 1 = 5 + L + i
        BY <1>3
      <3> QED
        BY <1>2, <1>11, <2>9, <3>1
    <2>12. Len(u) = Len(ref.field) /\ \A i \in 1 .. Len(u) : u[i] = ref.field[i]
      BY <2>10, <2>11 DEF F
    <2>13. u = ref.field
      BY <1>3, <2>9, <2>12, SeqEqual
    <2> QED
      BY <2>6, <2>13 DEF u, t
  <1> QED
    BY <1>10, <1>11
-----------------------------------------------------------------------------
(* Steps *)

\* The step of a caller changes its own call only.
LEMMA OthersWait ==
  ASSUME MutexInd, NEW c \in Callers, NEW d \in Callers, d # c,
         \/ \E op \in {"all", "map"}, texts \in Asks : Resolve(c, op, texts)
         \/ AskLock(c) \/ Steps(c) \/ Locks(c) \/ Get(c)
  PROVE  call'[d] = call[d]
  <1>1. DOMAIN call = Callers
    BY DEF MutexInd, CallsFormed
  <1>2. CASE \E op \in {"all", "map"}, texts \in Asks : Resolve(c, op, texts)
    BY <1>1, <1>2 DEF Resolve
  <1>3. CASE AskLock(c)
    BY <1>1, <1>3 DEF AskLock
  <1>4. CASE \E s \in call[c].todo : Take(c, s)
    BY <1>1, <1>4, TakeCases
  <1>5. CASE LookUp(c)
    <2>1. \E x : call' = [call EXCEPT ![c] = x]
      BY <1>5 DEF LookUp, Fail
    <2> QED
      BY <1>1, <2>1
  <1>6. CASE Return(c)
    BY <1>1, <1>6 DEF Return
  <1>7. CASE \E v \in call[c].todo : CloseOne(c, v)
    BY <1>1, <1>7 DEF CloseOne
  <1>8. CASE EndClose(c)
    BY <1>1, <1>8 DEF EndClose
  <1>9. CASE RLock(c)
    BY <1>1, <1>9 DEF RLock
  <1>10. CASE \E s \in Schemes, v \in Vaults \cup {None} : Register(c, s, v)
    BY <1>1, <1>10 DEF Register
  <1>11. CASE BeginClose(c)
    BY <1>1, <1>11 DEF BeginClose
  <1>12. CASE Get(c)
    <2>1. \E x : call' = [call EXCEPT ![c] = x]
      BY <1>12 DEF Get, Fail
    <2> QED
      BY <1>1, <2>1
  <1> QED
    BY <1>2, <1>3, <1>4, <1>5, <1>6, <1>7, <1>8, <1>9, <1>10, <1>11, <1>12
       DEF Steps, Locks

\* What becomes of a call in a step.
LEMMA CallCases ==
  ASSUME MutexInd, Next, NEW c \in Callers
  PROVE  \/ call'[c] = call[c]
         \/ \E op \in {"all", "map"}, texts \in Asks : Resolve(c, op, texts)
         \/ \E s \in call[c].todo : Take(c, s)
         \/ RLock(c) \/ LookUp(c) \/ Get(c) \/ Return(c)
         \/ call[c].op = "none" /\ call'[c].op = "none"
  <1>1. DOMAIN call = Callers /\ Formed(call[c])
    BY DEF MutexInd, CallsFormed
  <1>2. Resolvers \subseteq Callers /\ Registrars \subseteq Callers
    BY DEF Callers
  <1>3. ASSUME NEW d \in Callers, d # c,
               \/ \E op \in {"all", "map"}, texts \in Asks : Resolve(d, op, texts)
               \/ AskLock(d) \/ Steps(d) \/ Locks(d) \/ Get(d)
        PROVE  call'[c] = call[c]
    BY <1>3, OthersWait
  <1>4. CASE AskLock(c)
    BY <1>1, <1>4 DEF AskLock, Idle
  <1>5. CASE \E v \in call[c].todo : CloseOne(c, v)
    <2>1. call[c].pc = "closing"
      BY <1>5 DEF CloseOne
    <2>2. call[c].op = "none"
      BY <1>1, <2>1 DEF Formed
    <2>3. PICK v \in call[c].todo : CloseOne(c, v)
      BY <1>5
    <2>4. call'[c] = [call[c] EXCEPT !.todo = @ \ {v}]
      BY <1>1, <2>3 DEF CloseOne
    <2>5. call'[c].op = call[c].op
      BY <1>1, <2>4 DEF Formed
    <2> QED
      BY <2>2, <2>5
  <1>6. CASE EndClose(c)
    <2>1. call[c].pc = "closing" /\ call'[c] = Idle
      BY <1>1, <1>6 DEF EndClose
    <2>2. call[c].op = "none" /\ Idle.op = "none"
      BY <1>1, <2>1 DEF Formed, Idle
    <2> QED
      BY <2>1, <2>2
  <1>7. CASE \E s \in Schemes, v \in Vaults \cup {None} : Register(c, s, v)
    <2>1. call[c].pc = "lock" /\ call'[c] = Idle
      BY <1>1, <1>7 DEF Register, MayLock
    <2>2. call[c].op = "none" /\ Idle.op = "none"
      BY <1>1, <2>1 DEF Formed, Idle
    <2> QED
      BY <2>1, <2>2
  <1>8. CASE BeginClose(c)
    <2>1. call[c].pc = "lock"
      BY <1>8 DEF BeginClose, MayLock
    <2>2. call[c].op = "none"
      BY <1>1, <2>1 DEF Formed
    <2>3. call'[c] = [call[c] EXCEPT !.pc = "closing",
                                     !.todo = Range(providers) \ {None}]
      BY <1>1, <1>8 DEF BeginClose
    <2>4. call'[c].op = call[c].op
      BY <1>1, <2>3 DEF Formed
    <2> QED
      BY <2>2, <2>4
  <1>9. CASE \E v \in Vaults, p \in Paths, answer \in Secrets \cup {None, Error} :
               VaultChanges(v, p, answer)
    BY <1>9 DEF VaultChanges
  <1>10. CASE \E v \in Vaults : ClientCloses(v)
    BY <1>10 DEF ClientCloses
  <1>11. CASE \E d \in Resolvers, op \in {"all", "map"}, texts \in Asks :
                Resolve(d, op, texts)
    BY <1>2, <1>3, <1>11
  <1>12. CASE \E d \in Registrars : AskLock(d)
    BY <1>2, <1>3, <1>4, <1>12
  <1>13. CASE \E d \in Callers : Steps(d) \/ Locks(d) \/ Get(d)
    <2>1. PICK d \in Callers : Steps(d) \/ Locks(d) \/ Get(d)
      BY <1>13
    <2>2. CASE d = c
      BY <1>5, <1>6, <1>7, <1>8, <2>1, <2>2 DEF Steps, Locks
    <2>3. CASE d # c
      BY <1>3, <2>1, <2>3
    <2> QED
      BY <2>2, <2>3
  <1> QED
    BY <1>9, <1>10, <1>11, <1>12, <1>13 DEF Next

\* The mutex and the calls' records.
LEMMA MutexNext ==
  ASSUME MutexInd, [Next]_vars
  PROVE  MutexInd'
  <1>1. Resolvers \subseteq Callers /\ Registrars \subseteq Callers
    BY DEF Callers
  <1>2. CASE \E c \in Resolvers, op \in {"all", "map"}, texts \in Asks :
               Resolve(c, op, texts)
    BY <1>1, <1>2, ResolveMutex
  <1>3. CASE \E c \in Registrars : AskLock(c)
    BY <1>1, <1>3, AskLockMutex
  <1>4. ASSUME NEW c \in Callers, Steps(c)
        PROVE  MutexInd'
    BY <1>4, TakeMutex, LookUpMutex, ReturnMutex, CloseOneMutex, EndCloseMutex
       DEF Steps
  <1>5. ASSUME NEW c \in Callers, Locks(c)
        PROVE  MutexInd'
    BY <1>5, RLockMutex, RegisterMutex, BeginCloseMutex DEF Locks
  <1>6. ASSUME NEW c \in Callers, Get(c)
        PROVE  MutexInd'
    BY <1>6, GetMutex
  <1>7. ASSUME NEW v \in Vaults, NEW p \in Paths,
               NEW answer \in Secrets \cup {None, Error},
               VaultChanges(v, p, answer)
        PROVE  MutexInd'
    <2>1. /\ changes < MaxChanges /\ changes' = changes + 1
          /\ holds' = [holds EXCEPT ![v][p] = answer]
          /\ closed' = closed /\ UNCHANGED <<mu, providers, call>>
      BY <1>7 DEF VaultChanges
    <2>2. /\ holds \in [Vaults -> [Paths -> Secrets \cup {None, Error}]]
          /\ closed \subseteq Closable /\ changes \in 0 .. MaxChanges
      BY DEF MutexInd, MutexInv, TypeOK
    <2>3. holds' \in [Vaults -> [Paths -> Secrets \cup {None, Error}]]
      BY <2>1, <2>2
    <2>4. changes' \in 0 .. MaxChanges
      BY <2>1, <2>2, ResolverConstants
    <2> QED
      BY <2>1, <2>2, <2>3, <2>4, ClientsMutex
  <1>8. ASSUME NEW v \in Vaults, ClientCloses(v)
        PROVE  MutexInd'
    <2>1. /\ changes < MaxChanges /\ changes' = changes + 1
          /\ v \in Closable /\ closed' = closed \cup {v}
          /\ holds' = holds /\ UNCHANGED <<mu, providers, call>>
      BY <1>8 DEF ClientCloses
    <2>2. /\ holds \in [Vaults -> [Paths -> Secrets \cup {None, Error}]]
          /\ closed \subseteq Closable /\ changes \in 0 .. MaxChanges
      BY DEF MutexInd, MutexInv, TypeOK
    <2>3. changes' \in 0 .. MaxChanges
      BY <2>1, <2>2, ResolverConstants
    <2> QED
      BY <2>1, <2>2, <2>3, ClientsMutex
  <1>9. CASE UNCHANGED vars
    <2>1. UNCHANGED <<mu, providers, call>> /\ UNCHANGED <<holds, closed, changes>>
      BY <1>9 DEF vars, vaults
    <2>2. /\ holds \in [Vaults -> [Paths -> Secrets \cup {None, Error}]]
          /\ closed \subseteq Closable /\ changes \in 0 .. MaxChanges
      BY DEF MutexInd, MutexInv, TypeOK
    <2> QED
      BY <2>1, <2>2, ClientsMutex
  <1> QED
    BY <1>2, <1>3, <1>4, <1>5, <1>6, <1>7, <1>8, <1>9 DEF Next
-----------------------------------------------------------------------------
(* Answers *)

LEMMA RegisteredOfText ==
  ASSUME NEW ref \in Refs
  PROVE  Registered(Text(ref)) = providers[ref.scheme]
  <1>1. Scheme(Text(ref)) = <<ref.scheme>>
    BY SchemeOfText
  <1>2. Len(<<ref.scheme>>) = 1 /\ <<ref.scheme>>[1] = ref.scheme
    OBVIOUS
  <1>3. ref.scheme \in Schemes
    BY DEF Refs
  <1> QED
    BY <1>1, <1>2, <1>3 DEF Registered

LEMMA TextOrPlain ==
  ASSUME NEW s \in Texts
  PROVE  s \in Plain \/ \E ref \in Refs : s = Text(ref)
  BY DEF Texts

LEMMA PlainIsNoText ==
  ASSUME NEW s \in Plain, NEW ref \in Refs
  PROVE  s # Text(ref)
  BY ResolverConstants

\* A call that is still going remembers what it has seen, and has seen what
\* is there now.
LEMMA WitnessKeeps ==
  ASSUME SeenTyped, Witness, NEW c \in Callers
  PROVE  /\ SeenTyped'
         /\ Resolving(c)' => /\ ProvidersAsked(c)' \subseteq seenProviders'[c]
                             /\ SecretsAsked(c)' \subseteq seenSecrets'[c]
         /\ Resolving(c) /\ Resolving(c)' =>
              /\ seenProviders[c] \subseteq seenProviders'[c]
              /\ seenSecrets[c] \subseteq seenSecrets'[c]
  <1>1. SeenTyped'
    BY DEF Witness, SeenTyped
  <1>2. /\ seenProviders'[c] = Seen(c, seenProviders[c], ProvidersAsked(c)')
        /\ seenSecrets'[c] = Seen(c, seenSecrets[c], SecretsAsked(c)')
    BY DEF Witness
  <1> QED
    BY <1>1, <1>2 DEF Seen

\* What was right once stays right.
LEMMA RightStays ==
  ASSUME NEW c \in Callers, NEW text, NEW value, Right(c, text, value),
         seenProviders[c] \subseteq seenProviders'[c],
         seenSecrets[c] \subseteq seenSecrets'[c]
  PROVE  Right(c, text, value)'
  BY DEF Right, Rightly

\* An answer by a vault: the field asked for of the secret it holds.
LEMMA RevealedIsField ==
  ASSUME NEW ref \in Refs, NEW secret
  PROVE  Revealed(secret, Fragment(Text(ref))) = FieldOf(secret, ref.field)
  <1>1. Fragment(Text(ref)) = ref.field
    BY FragmentOfText
  <1>2. ref.field \in {<<>>, Field, ValueName}
    BY RefParts
  <1>3. Field # <<>> /\ Field # ValueName
    BY ResolverConstants
  <1>4. CASE ref.field \in {<<>>, ValueName}
    BY <1>1, <1>3, <1>4 DEF Revealed, FieldOf
  <1>5. CASE ref.field = Field /\ secret.field # None
    BY <1>1, <1>3, <1>5 DEF Revealed, FieldOf
  <1>6. CASE ref.field = Field /\ secret.field = None
    BY <1>1, <1>3, <1>6 DEF Revealed, FieldOf
  <1> QED
    BY <1>2, <1>4, <1>5, <1>6

LEMMA FirstsGrow ==
  ASSUME NEW S, NEW a, NEW b
  PROVE  Firsts(S \cup {<<a, b>>}) = Firsts(S) \cup {a}
  <1>1. <<a, b>>[1] = a
    OBVIOUS
  <1>2. \A x : x \in Firsts(S \cup {<<a, b>>}) <=>
                x \in Firsts(S) \/ x = <<a, b>>[1]
    BY DEF Firsts
  <1> QED
    BY <1>1, <1>2

LEMMA ResolvingIs ==
  ASSUME MutexInd, NEW c \in Callers
  PROVE  /\ Resolving(c) <=> call[c].op # "none"
         /\ Resolving(c) <=> call[c].pc \in {"next", "rlock", "lookup", "get"}
  BY CallFormed DEF Formed, Resolving

LEMMA AskedTexts ==
  ASSUME NEW c \in Callers, Accounted(call[c])
  PROVE  /\ call[c].todo \subseteq Texts
         /\ AtHand(call[c]) => call[c].text \in call[c].asked /\ call[c].text \in Texts
         /\ \A ref \in Refs : Text(ref) \in call[c].asked => ref \in Asked(c)
  BY DEF Accounted, Asked

\* A call that waits.
LEMMA WaitAnswers ==
  ASSUME SeenTyped, Witness, NEW c \in Callers, Answering(c),
         call'[c] = call[c], Resolving(c)
  PROVE  Answering(c)'
  <1>1. Resolving(c)'
    BY DEF Resolving
  <1>2. /\ ProvidersAsked(c)' \subseteq seenProviders'[c]
        /\ SecretsAsked(c)' \subseteq seenSecrets'[c]
        /\ seenProviders[c] \subseteq seenProviders'[c]
        /\ seenSecrets[c] \subseteq seenSecrets'[c]
    BY <1>1, WitnessKeeps
  <1>3. \A g \in call'[c].got : Right(c, g[1], g[2])'
    BY <1>2, RightStays DEF Answering
  <1>4. call'[c].pc = "get" =>
          \A ref \in Refs : call'[c].text = Text(ref) =>
            <<ref.scheme, call'[c].vault>> \in seenProviders'[c]
    BY <1>2 DEF Answering
  <1>5. Accounted(call'[c])
    BY DEF Answering
  <1> QED
    BY <1>2, <1>3, <1>4, <1>5 DEF Answering

LEMMA ResolveAnswers ==
  ASSUME MutexInd, SeenTyped, Witness, NEW c \in Callers,
         NEW op \in {"all", "map"}, NEW texts \in Asks, Resolve(c, op, texts)
  PROVE  Answering(c)'
  <1> DEFINE new == [Idle EXCEPT !.op = op, !.pc = "next", !.todo = texts,
                                 !.asked = texts]
  <1>1. call'[c] = new
    BY DEF Resolve, MutexInd, CallsFormed
  <1>2. /\ new.op = op /\ new.pc = "next" /\ new.asked = texts
        /\ new.todo = texts /\ new.got = {}
    BY DEF Idle
  <1> HIDE DEF new
  <1>3. Resolving(c)'
    BY <1>1, <1>2 DEF Resolving
  <1>4. /\ ProvidersAsked(c)' \subseteq seenProviders'[c]
        /\ SecretsAsked(c)' \subseteq seenSecrets'[c]
    BY <1>3, WitnessKeeps
  <1>5. texts \in SUBSET Texts
    BY ResolverConstants
  <1>6. Accounted(new)
    BY <1>2, <1>5 DEF Accounted, AtHand, Firsts
  <1> QED
    BY <1>1, <1>2, <1>4, <1>6 DEF Answering

\* The next text: passed through, or taken to the mutex.
LEMMA TakeAnswers ==
  ASSUME MutexInd, SeenTyped, Witness, NEW c \in Callers, Answering(c),
         NEW s \in call[c].todo, Take(c, s), Resolving(c)'
  PROVE  Answering(c)'
  <1>1. Formed(call[c]) /\ DOMAIN call = Callers
    BY DEF MutexInd, CallsFormed
  <1>2. /\ call[c].pc = "next" /\ call[c].op \in {"all", "map"}
    BY TakeCases
  <1>3. Resolving(c)
    BY <1>2 DEF Resolving
  <1>4. /\ ProvidersAsked(c)' \subseteq seenProviders'[c]
        /\ SecretsAsked(c)' \subseteq seenSecrets'[c]
        /\ seenProviders[c] \subseteq seenProviders'[c]
        /\ seenSecrets[c] \subseteq seenSecrets'[c]
    BY <1>3, WitnessKeeps
  <1>5. \A g \in call[c].got : Right(c, g[1], g[2])'
    BY <1>4, RightStays DEF Answering
  <1>6. /\ Accounted(call[c]) /\ ~AtHand(call[c])
        /\ call[c].asked = call[c].todo \cup Firsts(call[c].got)
    BY <1>2 DEF Answering, Accounted, AtHand
  <1>7. CASE /\ call' = [call EXCEPT ![c] = PassedOn(call[c], s)]
             /\ call[c].op = "map" /\ ~IsSecretRef(s)
    <2> DEFINE new == PassedOn(call[c], s)
    <2>1. call'[c] = new
      BY <1>1, <1>7
    <2>2. /\ new.pc = "next" /\ new.op = call[c].op
          /\ new.asked = call[c].asked /\ new.todo = call[c].todo \ {s}
          /\ new.got = call[c].got \cup {<<s, s>>}
      BY <1>1, <1>2, TakeFields
    <2> HIDE DEF new
    <2>3. Firsts(new.got) = Firsts(call[c].got) \cup {s}
      <3>1. Firsts(call[c].got \cup {<<s, s>>}) = Firsts(call[c].got) \cup {s}
        BY FirstsGrow
      <3>2. new.got = call[c].got \cup {<<s, s>>}
        BY <2>2
      <3> QED
        BY <3>1, <3>2
    <2>4. Accounted(new)
      BY <1>6, <2>2, <2>3 DEF Accounted, AtHand
    <2>5. Right(c, s, s)'
      BY <1>7, TextIsRef DEF Right
    <2>6. \A g \in new.got : Right(c, g[1], g[2])'
      BY <1>5, <2>2, <2>5
    <2> QED
      BY <1>4, <2>1, <2>2, <2>4, <2>6 DEF Answering
  <1>8. CASE call' = [call EXCEPT ![c] = Failed]
    BY <1>1, <1>8 DEF Resolving, Failed, Idle
  <1>9. CASE /\ call' = [call EXCEPT ![c] = ToMutex(call[c], s)]
             /\ call[c].op = "map" => IsSecretRef(s)
    <2> DEFINE new == ToMutex(call[c], s)
    <2>1. call'[c] = new
      BY <1>1, <1>9
    <2>2. /\ new.pc = "rlock" /\ new.op = call[c].op
          /\ new.asked = call[c].asked /\ new.todo = call[c].todo \ {s}
          /\ new.got = call[c].got /\ new.text = s
      BY <1>1, <1>2, TakeFields
    <2> HIDE DEF new
    <2>3. Accounted(new)
      BY <1>6, <1>9, <2>2 DEF Accounted, AtHand
    <2> QED
      BY <1>4, <1>5, <2>1, <2>2, <2>3 DEF Answering
  <1> QED
    BY <1>7, <1>8, <1>9, TakeCases

LEMMA RLockAnswers ==
  ASSUME MutexInd, SeenTyped, Witness, NEW c \in Callers, Answering(c),
         RLock(c)
  PROVE  Answering(c)'
  <1> DEFINE new == [call[c] EXCEPT !.pc = "lookup"]
  <1>1. Formed(call[c]) /\ DOMAIN call = Callers
    BY DEF MutexInd, CallsFormed
  <1>2. call[c].pc = "rlock" /\ call'[c] = new
    BY <1>1 DEF RLock
  <1>3. /\ new.pc = "lookup" /\ new.op = call[c].op /\ new.asked = call[c].asked
        /\ new.todo = call[c].todo /\ new.got = call[c].got
        /\ new.text = call[c].text
    BY <1>1 DEF Formed
  <1> HIDE DEF new
  <1>4. Resolving(c) /\ Resolving(c)'
    BY <1>1, <1>2, <1>3 DEF Resolving, Formed
  <1>5. /\ ProvidersAsked(c)' \subseteq seenProviders'[c]
        /\ SecretsAsked(c)' \subseteq seenSecrets'[c]
        /\ seenProviders[c] \subseteq seenProviders'[c]
        /\ seenSecrets[c] \subseteq seenSecrets'[c]
    BY <1>4, WitnessKeeps
  <1>6. \A g \in call[c].got : Right(c, g[1], g[2])'
    BY <1>5, RightStays DEF Answering
  <1>7. Accounted(new)
    BY <1>2, <1>3 DEF Answering, Accounted, AtHand
  <1> QED
    BY <1>2, <1>3, <1>5, <1>6, <1>7 DEF Answering

\* The vault found is the one registered now, in a map the call has seen.
LEMMA LookUpAnswers ==
  ASSUME MutexInd, SeenTyped, Witness, NEW c \in Callers, Answering(c),
         LookUp(c), Resolving(c)'
  PROVE  Answering(c)'
  <1> DEFINE v == Registered(call[c].text)
             new == Found(call[c], v)
  <1>1. Formed(call[c]) /\ DOMAIN call = Callers
    BY DEF MutexInd, CallsFormed
  <1>2. call[c].pc = "lookup"
    BY DEF LookUp
  <1>3. v # None
    <2>1. SUFFICES ASSUME v = None PROVE FALSE
      OBVIOUS
    <2>2. call'[c] = Failed
      BY <1>1, <2>1 DEF LookUp, Fail
    <2> QED
      BY <2>2 DEF Resolving, Failed, Idle
  <1>4. call'[c] = new
    BY <1>1, <1>3 DEF LookUp, Found
  <1>5. /\ new.pc = "get" /\ new.op = call[c].op /\ new.asked = call[c].asked
        /\ new.todo = call[c].todo /\ new.got = call[c].got
        /\ new.text = call[c].text /\ new.vault = v
    BY <1>1, <1>2, FoundFields
  <1> HIDE DEF new
  <1>6. Resolving(c)
    BY <1>1, <1>2 DEF Resolving, Formed
  <1>7. /\ ProvidersAsked(c)' \subseteq seenProviders'[c]
        /\ SecretsAsked(c)' \subseteq seenSecrets'[c]
        /\ seenProviders[c] \subseteq seenProviders'[c]
        /\ seenSecrets[c] \subseteq seenSecrets'[c]
    BY <1>6, WitnessKeeps
  <1>8. \A g \in call[c].got : Right(c, g[1], g[2])'
    BY <1>7, RightStays DEF Answering
  <1>9. Accounted(new)
    BY <1>2, <1>5 DEF Answering, Accounted, AtHand
  <1>10. ASSUME NEW ref \in Refs, call[c].text = Text(ref)
         PROVE  <<ref.scheme, v>> \in seenProviders'[c]
    <2>1. v = providers[ref.scheme]
      BY <1>10, RegisteredOfText
    <2>2. Accounted(call[c]) /\ AtHand(call[c])
      BY <1>2 DEF Answering, AtHand
    <2>3. ref \in Asked(c)
      BY <1>10, <2>2, AskedTexts
    <2>4. <<ref.scheme, providers[ref.scheme]>> \in ProvidersAsked(c)
      BY <2>3 DEF ProvidersAsked
    <2> QED
      BY <1>7, <2>1, <2>4 DEF Answering
  <1> QED
    BY <1>4, <1>5, <1>7, <1>8, <1>9, <1>10 DEF Answering

\* The vault answers what it holds while the call sees it.
LEMMA GetAnswers ==
  ASSUME MutexInd, SeenTyped, Witness, NEW c \in Callers, Answering(c),
         Get(c), Resolving(c)'
  PROVE  Answering(c)'
  <1> PICK s : s = call[c].text
    OBVIOUS
  <1> PICK vault : vault = call[c].vault
    OBVIOUS
  <1> PICK secret : secret = Held(vault, Path(s))
    OBVIOUS
  <1> PICK value : value = Revealed(secret, Fragment(s))
    OBVIOUS
  <1> DEFINE new == GotText(call[c], secret)
  <1>1. Formed(call[c]) /\ DOMAIN call = Callers
    BY DEF MutexInd, CallsFormed
  <1>2. call[c].pc = "get"
    BY DEF Get
  <1>3. secret \notin {None, Error}
    <2>1. SUFFICES ASSUME secret \in {None, Error} PROVE FALSE
      OBVIOUS
    <2>2. call'[c] = Failed
      BY <1>1, <2>1 DEF Get, Fail
    <2> QED
      BY <2>2 DEF Resolving, Failed, Idle
  <1>4. call'[c] = new
    BY <1>1, <1>3 DEF Get, GotText
  <1>5. /\ new.pc = "next" /\ new.op = call[c].op /\ new.asked = call[c].asked
        /\ new.todo = call[c].todo
        /\ new.got = call[c].got \cup {<<s, value>>}
    BY <1>1, <1>2, GotFields
  <1> HIDE DEF new
  <1>6. Resolving(c)
    BY <1>1, <1>2 DEF Resolving, Formed
  <1>7. /\ ProvidersAsked(c)' \subseteq seenProviders'[c]
        /\ SecretsAsked(c)' \subseteq seenSecrets'[c]
        /\ seenProviders[c] \subseteq seenProviders'[c]
        /\ seenSecrets[c] \subseteq seenSecrets'[c]
    BY <1>6, WitnessKeeps
  <1>8. \A g \in call[c].got : Right(c, g[1], g[2])'
    BY <1>7, RightStays DEF Answering
  <1>9. Accounted(call[c]) /\ AtHand(call[c])
    BY <1>2 DEF Answering, AtHand
  <1>10. Accounted(new)
    <2>1. Firsts(new.got) = Firsts(call[c].got) \cup {s}
      <3>1. Firsts(call[c].got \cup {<<s, value>>}) =
              Firsts(call[c].got) \cup {s}
        BY ONLY FirstsGrow
      <3>2. new.got = call[c].got \cup {<<s, value>>}
        BY <1>5
      <3> QED
        BY <3>1, <3>2
    <2> QED
      BY <1>5, <1>9, <2>1 DEF Accounted, AtHand
  <1>11. vault \in Vaults
    BY <1>2 DEF MutexInd, MutexInv, TypeOK
  <1>12. Path(s) \in Paths /\ secret \in Secrets
    BY <1>3, <1>11 DEF Held, MutexInd, MutexInv, TypeOK
  <1>13. s \notin Plain
    BY <1>12, PlainTexts
  <1>14. ASSUME NEW ref \in Refs, s = Text(ref)
         PROVE  Rightly(c, ref, value)'
    <2>1. <<ref.scheme, vault>> \in seenProviders'[c]
      BY <1>2, <1>7, <1>14 DEF Answering
    <2>2. Path(s) = ref.path
      BY <1>14, PathOfText
    <2>3. ref \in Asked(c)
      BY <1>9, <1>14, AskedTexts
    <2>4. <<vault, ref.path, secret>> \in SecretsAsked(c)
      BY <1>2, <1>14, <2>2, <2>3 DEF SecretsAsked
    <2>5. <<vault, ref.path, secret>> \in seenSecrets'[c]
      BY <1>7, <2>4 DEF Answering
    <2>6. value = FieldOf(secret, ref.field)
      BY <1>14, RevealedIsField
    <2> QED
      BY <1>11, <1>12, <2>1, <2>5, <2>6 DEF Rightly
  <1>15. Right(c, s, value)'
    BY <1>13, <1>14 DEF Right
  <1>16. \A g \in new.got : Right(c, g[1], g[2])'
    BY <1>5, <1>8, <1>15
  <1> QED
    BY <1>4, <1>5, <1>7, <1>10, <1>16 DEF Answering

\* The invariant holds, whoever resolves, registers, closes or changes a
\* vault meanwhile.
LEMMA StepInv ==
  ASSUME Inv, [Next]_vars
  PROVE  Inv'
  <1>1. MutexInd /\ SeenTyped /\ MutexInd'
    BY MutexNext DEF Inv
  <1>2. CASE UNCHANGED vars
    <2>1. UNCHANGED <<call, providers, holds, closed, seenProviders, seenSecrets>>
      BY <1>2 DEF vars, vaults, seen
    <2>2. SeenTyped'
      BY <1>1, <2>1 DEF SeenTyped
    <2>3. \A c \in Callers : Resolving(c)' => Answering(c)'
      <3>1. \A v, p : Held(v, p)' = Held(v, p)
        BY <2>1 DEF Held
      <3> QED
        BY <2>1, <3>1 DEF Inv, Resolving, Answering, ProvidersAsked, SecretsAsked,
                          Asked, Right, Rightly
    <2> QED
      BY <1>1, <2>2, <2>3 DEF Inv
  <1>3. CASE Next
    <2>1. Witness
      BY <1>3 DEF Next
    <2>2. ASSUME NEW c \in Callers, Resolving(c)'
          PROVE  Answering(c)'
      <3>1. call'[c].op # "none"
        BY <2>2 DEF Resolving
      <3>2. Resolving(c) => Answering(c)
        BY DEF Inv
      <3>3. CASE call'[c] = call[c]
        <4>1. Resolving(c)
          BY <2>2, <3>3 DEF Resolving
        <4> QED
          BY <1>1, <2>1, <3>2, <3>3, <4>1, WaitAnswers
      <3>4. CASE \E op \in {"all", "map"}, texts \in Asks : Resolve(c, op, texts)
        BY <1>1, <2>1, <3>4, ResolveAnswers
      <3>5. CASE \E s \in call[c].todo : Take(c, s)
        <4>1. Resolving(c)
          BY <1>1, <3>5, TakeCases DEF Resolving
        <4> QED
          BY <1>1, <2>1, <2>2, <3>2, <3>5, <4>1, TakeAnswers
      <3>6. CASE RLock(c)
        <4>1. Resolving(c)
          BY <1>1, <3>6, ResolvingIs DEF RLock
        <4> QED
          BY <1>1, <2>1, <3>2, <3>6, <4>1, RLockAnswers
      <3>7. CASE LookUp(c)
        <4>1. Resolving(c)
          BY <1>1, <3>7, ResolvingIs DEF LookUp
        <4> QED
          BY <1>1, <2>1, <2>2, <3>2, <3>7, <4>1, LookUpAnswers
      <3>8. CASE Get(c)
        <4>1. Resolving(c)
          BY <1>1, <3>8, ResolvingIs DEF Get
        <4> QED
          BY <1>1, <2>1, <2>2, <3>2, <3>8, <4>1, GetAnswers
      <3>9. CASE Return(c)
        <4>1. call'[c] = Idle
          BY <1>1, <3>9 DEF Return, MutexInd, CallsFormed
        <4> QED
          BY <3>1, <4>1 DEF Idle
      <3> QED
        BY <1>1, <1>3, <3>1, <3>3, <3>4, <3>5, <3>6, <3>7, <3>8, <3>9, CallCases
    <2>3. SeenTyped'
      BY <2>1 DEF Witness, SeenTyped
    <2> QED
      BY <1>1, <2>2, <2>3 DEF Inv
  <1> QED
    BY <1>2, <1>3

LEMMA InitInv ==
  ASSUME Init
  PROVE  Inv
  <1>1. /\ Idle.op = "none" /\ Idle.pc = "idle" /\ Formed(Idle)
    BY IdleFormed DEF Idle
  <1>2. CallsFormed /\ \A c \in Callers : call[c] = Idle
    BY <1>1 DEF Init, CallsFormed
  <1>3. TypeOK
    BY <1>1, <1>2, ResolverConstants DEF Init, TypeOK
  <1>4. CloseIsComplete
    BY <1>1, <1>2 DEF CloseIsComplete
  <1>5. MutexInv
    BY <1>1, <1>2, <1>3, <1>4, ResolverConstants DEF Init, MutexInv
  <1>6. SeenTyped
    BY DEF Init, SeenTyped
  <1>7. \A c \in Callers : ~Resolving(c)
    BY <1>1, <1>2 DEF Resolving
  <1> QED
    BY <1>2, <1>5, <1>6, <1>7 DEF Inv, MutexInd

\* The invariant holds in every state, however vaults are registered, closed
\* and changed under the calls.
THEOREM Inductive == Spec => []Inv
  <1>1. Init => Inv
    BY InitInv
  <1>2. Inv /\ [Next]_vars => Inv'
    BY StepInv
  <1> QED
    BY <1>1, <1>2, PTL DEF Spec

\* Types; Close closes every vault that is registered when it ends; and the
\* mutex is held by one writer or by readers, and by nobody who is not in
\* the section it guards.
THEOREM MutexCorrect == Spec => []MutexInv
  <1>1. Inv => MutexInv
    BY DEF Inv, MutexInd
  <1> QED
    BY <1>1, Inductive, PTL

\* A call that is going ends in no other step than these.
LEMMA Ending ==
  ASSUME Inv, [Next]_vars, NEW c \in Callers, Resolving(c),
         call'[c] # call[c]
  PROVE  \/ \E s \in call[c].todo : Take(c, s)
         \/ RLock(c) \/ LookUp(c) \/ Get(c) \/ Return(c)
  <1>1. MutexInd
    BY DEF Inv
  <1>2. Next
    BY DEF vars
  <1>3. ~\E op \in {"all", "map"}, texts \in Asks : Resolve(c, op, texts)
    <2>1. Idle.op = "none" /\ Failed.op = "none"
      BY DEF Idle, Failed
    <2> QED
      BY <2>1 DEF Resolve, Resolving
  <1>4. call[c].op # "none"
    BY DEF Resolving
  <1> QED
    BY <1>1, <1>2, <1>3, <1>4, CallCases

\* A call that succeeds answers every text, and every reference with what a
\* vault registered for its scheme during the call held at its path then.
THEOREM AnswersCorrect == Spec => AnswersAreRight
  <1>1. ASSUME Inv, [Next]_vars, NEW c \in Resolvers, Resolving(c),
               call'[c] = Idle
        PROVE  /\ {g[1] : g \in call[c].got} = call[c].asked
               /\ \A g \in call[c].got : Right(c, g[1], g[2])
    <2>1. /\ c \in Callers /\ MutexInd /\ Answering(c)
          /\ Formed(call[c]) /\ DOMAIN call = Callers
      BY <1>1 DEF Inv, Callers, MutexInd, CallsFormed
    <2>2. Idle.op = "none" /\ Idle.pc = "idle" /\ Failed.pc = "failed"
      BY DEF Idle, Failed
    <2>3. call'[c] # call[c]
      BY <1>1, <2>2 DEF Resolving
    <2>4. ASSUME NEW s \in call[c].todo, Take(c, s) PROVE FALSE
      <3>1. call[c].pc = "next"
        BY <2>1, <2>4, TakeCases
      <3>2. PassedOn(call[c], s).pc = "next" /\ ToMutex(call[c], s).pc = "rlock"
        BY <2>1, <3>1, TakeFields
      <3> QED
        BY <1>1, <2>1, <2>2, <2>4, <3>2, TakeCases
    <2>5. ~RLock(c)
      <3>1. RLock(c) => call'[c] = [call[c] EXCEPT !.pc = "lookup"]
        BY <2>1 DEF RLock
      <3>2. [call[c] EXCEPT !.pc = "lookup"].pc = "lookup"
        BY <2>1 DEF Formed
      <3> QED
        BY <1>1, <2>2, <3>1, <3>2
    <2>6. ~LookUp(c)
      <3>1. SUFFICES ASSUME LookUp(c) PROVE FALSE
        OBVIOUS
      <3>2. \/ call'[c] = Failed
            \/ call'[c] = Found(call[c], Registered(call[c].text))
        BY <2>1, <3>1 DEF LookUp, Fail, Found
      <3>3. Found(call[c], Registered(call[c].text)).pc = "get"
        BY <2>1, <3>1, FoundFields DEF LookUp
      <3> QED
        BY <1>1, <2>2, <3>2, <3>3
    <2>7. ~Get(c)
      <3> DEFINE secret == Held(call[c].vault, Path(call[c].text))
      <3>1. SUFFICES ASSUME Get(c) PROVE FALSE
        OBVIOUS
      <3>2. call'[c] = Failed \/ call'[c] = GotText(call[c], secret)
        BY <2>1, <3>1 DEF Get, Fail, GotText
      <3>3. GotText(call[c], secret).pc = "next"
        BY <2>1, <3>1, GotFields DEF Get
      <3> QED
        BY <1>1, <2>2, <3>2, <3>3
    <2>8. Return(c)
      BY <1>1, <2>1, <2>3, <2>4, <2>5, <2>6, <2>7, Ending
    <2>9. call[c].todo = {} /\ ~AtHand(call[c])
      BY <2>8 DEF Return, AtHand
    <2>10. Firsts(call[c].got) = call[c].asked
      BY <2>1, <2>9 DEF Answering, Accounted
    <2> QED
      BY <2>1, <2>10 DEF Answering, Firsts
  <1>2. Inv /\ [Next]_vars =>
          [\A c \in Resolvers :
             Resolving(c) /\ call'[c] = Idle =>
               /\ {g[1] : g \in call[c].got} = call[c].asked
               /\ \A g \in call[c].got : Right(c, g[1], g[2])]_vars
    BY <1>1
  <1> QED
    BY <1>2, Inductive, PTL DEF Spec, AnswersAreRight

\* A call fails only over a text it was asked for that is no reference (for
\* ResolveMap: but looks like one), or whose vault or secret was missing, or
\* whose vault answered with an error, at some time during the call.
THEOREM FailuresCorrect == Spec => FailuresAreReal
  <1>1. ASSUME Inv, [Next]_vars, NEW c \in Resolvers, Resolving(c),
               call'[c] = Failed
        PROVE  \/ MissesOne(c)
               \/ \E t \in call[c].asked \cap Plain :
                    call[c].op = "all" \/ IsSecretRef(t)
    <2> DEFINE s == call[c].text
    <2>1. /\ c \in Callers /\ MutexInd /\ Answering(c) /\ Accounted(call[c])
          /\ Formed(call[c]) /\ DOMAIN call = Callers
      BY <1>1 DEF Inv, Callers, MutexInd, CallsFormed, Answering
    <2>2. Idle.pc = "idle" /\ Failed.pc = "failed" /\ Failed.op = "none"
      BY DEF Idle, Failed
    <2>3. call'[c] # call[c] /\ call[c].op \in {"all", "map"}
      BY <1>1, <2>2 DEF Resolving
    <2>4. ASSUME NEW w \in call[c].todo, Take(c, w)
          PROVE  \E t \in call[c].asked \cap Plain :
                   call[c].op = "all" \/ IsSecretRef(t)
      <3>1. call[c].pc = "next"
        BY <2>1, <2>4, TakeCases
      <3>2. PassedOn(call[c], w).pc = "next" /\ ToMutex(call[c], w).pc = "rlock"
        BY <2>1, <3>1, TakeFields
      <3>3. call[c].op = "all" /\ Scheme(w) = <<>>
        BY <1>1, <2>1, <2>2, <2>4, <3>2, TakeCases
      <3>4. w \in call[c].asked /\ w \in Texts
        BY <2>1, <2>4 DEF Accounted
      <3>5. \A ref \in Refs : w # Text(ref)
        BY <3>3, TextIsRef DEF IsSecretRef
      <3> QED
        BY <3>3, <3>4, <3>5, TextOrPlain
    <2>5. ~RLock(c) /\ ~Return(c)
      <3>1. RLock(c) => call'[c] = [call[c] EXCEPT !.pc = "lookup"]
        BY <2>1 DEF RLock
      <3>2. [call[c] EXCEPT !.pc = "lookup"].pc = "lookup"
        BY <2>1 DEF Formed
      <3>3. Return(c) => call'[c] = Idle
        BY <2>1 DEF Return
      <3> QED
        BY <1>1, <2>2, <3>1, <3>2, <3>3
    <2>6. ASSUME AtHand(call[c]), s \in Plain
          PROVE  \E t \in call[c].asked \cap Plain :
                   call[c].op = "all" \/ IsSecretRef(t)
      BY <2>1, <2>3, <2>6 DEF Accounted
    <2>7. ASSUME LookUp(c), NEW ref \in Refs, s = Text(ref)
          PROVE  Text(ref) \in call[c].asked /\ Missing(c, ref)
      <3>1. call[c].pc = "lookup" /\ AtHand(call[c])
        BY <2>7 DEF LookUp, AtHand
      <3>2. Registered(s) = None
        <4>1. Registered(s) # None => call'[c] = Found(call[c], Registered(s))
          BY <2>1, <2>7 DEF LookUp, Found
        <4>2. Found(call[c], Registered(s)).pc = "get"
          BY <2>1, <3>1, FoundFields
        <4> QED
          BY <1>1, <2>2, <4>1, <4>2
      <3>3. providers[ref.scheme] = None
        BY <2>7, <3>2, RegisteredOfText
      <3>4. Text(ref) \in call[c].asked /\ ref \in Asked(c)
        BY <2>1, <2>7, <3>1, AskedTexts
      <3>5. <<ref.scheme, None>> \in ProvidersAsked(c)
        BY <3>3, <3>4 DEF ProvidersAsked
      <3> QED
        BY <2>1, <3>4, <3>5 DEF Answering, Missing
    <2>8. ASSUME Get(c), NEW ref \in Refs, s = Text(ref)
          PROVE  Text(ref) \in call[c].asked /\ Missing(c, ref)
      <3> DEFINE vault == call[c].vault
                 secret == Held(vault, Path(s))
      <3>1. call[c].pc = "get" /\ AtHand(call[c])
        BY <2>8 DEF Get, AtHand
      <3>2. secret \in {None, Error}
        <4>1. secret \notin {None, Error} => call'[c] = GotText(call[c], secret)
          BY <2>1, <2>8 DEF Get, GotText
        <4>2. GotText(call[c], secret).pc = "next"
          BY <2>1, <3>1, GotFields
        <4> QED
          BY <1>1, <2>2, <4>1, <4>2
      <3>3. Path(s) = ref.path
        BY <2>8, PathOfText
      <3>4. Text(ref) \in call[c].asked /\ ref \in Asked(c)
        BY <2>1, <2>8, <3>1, AskedTexts
      <3>5. <<vault, ref.path, secret>> \in SecretsAsked(c)
        BY <2>8, <3>1, <3>2, <3>3, <3>4 DEF SecretsAsked
      <3>6. <<ref.scheme, vault>> \in seenProviders[c]
        BY <2>1, <2>8, <3>1 DEF Answering
      <3>7. vault \in Vaults
        BY <2>1, <3>1 DEF MutexInd, MutexInv, TypeOK
      <3> QED
        BY <2>1, <3>2, <3>4, <3>5, <3>6, <3>7 DEF Answering, Missing
    <2>9. CASE LookUp(c) \/ Get(c)
      <3>1. AtHand(call[c])
        BY <2>9 DEF LookUp, Get, AtHand
      <3>2. s \in Texts
        BY <2>1, <3>1, AskedTexts
      <3>3. s \in Plain \/ \E ref \in Refs : s = Text(ref)
        BY <3>2, TextOrPlain
      <3> QED
        BY <2>6, <2>7, <2>8, <2>9, <3>1, <3>3 DEF MissesOne
    <2> QED
      BY <1>1, <2>1, <2>3, <2>4, <2>5, <2>9, Ending
  <1>2. Inv /\ [Next]_vars =>
          [\A c \in Resolvers :
             Resolving(c) /\ call'[c] = Failed =>
               \/ MissesOne(c)
               \/ \E s \in call[c].asked \cap Plain :
                    call[c].op = "all" \/ IsSecretRef(s)]_vars
    BY <1>1
  <1> QED
    BY <1>2, Inductive, PTL DEF Spec, FailuresAreReal
=============================================================================
