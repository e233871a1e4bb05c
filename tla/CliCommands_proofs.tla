------------------------- MODULE CliCommands_proofs -------------------------
(***************************************************************************)
(* Theorems about CliCommands for any commands, names, values and          *)
(* passwords: what a command tells its user was so while it ran.           *)
(*                                                                         *)
(* The inductive invariant says what is known of a request under way       *)
(* (Formed), that the facts of the present are among those a running       *)
(* command has seen (Watched), and that an answer that has not reached     *)
(* its command yet agrees with one of the facts it has seen (Answered).    *)
(*                                                                         *)
(* At the end, what the command get says of a secret's date: theorems      *)
(* about ExpiryWarning for any instants, units, settings and any longest   *)
(* duration (WarnInv).                                                     *)
(***************************************************************************)
EXTENDS CliCommands, WarningRequirements, TLAPS

Bodies == Values \cup {None} \cup [exists : BOOLEAN, unlocked : BOOLEAN]
            \cup SUBSET Paths

\* What comes back of a request, and what a command tells its user.
Codes == {"none", "ok", "lost", "error", "exists", "noVault", "locked",
          "wrong", "notFound", "invalid", "already", "refused", "cancelled",
          "noDaemon"}

CallRecords ==
  [pc : {"new", "dial", "sent", "answered", "prompt", "ended"},
   op : AllOps \cup {"none"}, asking : AllOps \cup {"none"},
   name : Names \cup {None}, value : Values \cup Passwords \cup {None},
   old : Passwords \cup {None}, code : Codes, body : Bodies]

\* What is known of a command by how far it is.
Formed(r) ==
  /\ r.pc = "new" => r = New
  /\ r.pc \in {"dial", "sent", "answered", "prompt"} =>
       /\ r.op \in AllOps
       /\ r.op \in Naming => r.name \in Names
       /\ r.op = "set" => r.value \in Values
  /\ r.pc = "dial" /\ r.op # "set" => r.value = None
  /\ r.pc \in {"sent", "answered"} =>
       \/ r.asking = "status" /\ r.op \in Looking /\ r.value = None
       \/ r.asking = r.op /\ r.asking # "status"

CallsFormed ==
  /\ call \in [Commands -> CallRecords]
  /\ late \in [Commands -> CallRecords \cup {None}]
  /\ \A c \in Commands :
       /\ Formed(call[c])
       /\ late[c] # None =>
            /\ late[c].pc = "sent" /\ Formed(late[c])
            /\ call[c].pc = "ended" /\ call[c].code = "error"

VaultFormed ==
  /\ daemon \in {"up", "stopping", "down"}
  /\ password \in LongEnough \cup {None}
  /\ secrets \in [Paths -> Values \cup {None}]
  /\ unlocked \in BOOLEAN
  /\ unlocked => password # None /\ daemon # "down"

\* A command has changed the vault only if its answer says so, or got lost.
ActedFormed ==
  /\ acted \subseteq Commands
  /\ \A c \in acted :
       \/ /\ call[c].pc = "answered" /\ call[c].asking # "status"
          /\ call[c].code = "ok"
       \/ call[c].pc = "ended" /\ call[c].code \in {"ok", "error"}

Inv == CallsFormed /\ VaultFormed /\ ActedFormed

Watched == \A c \in Commands : Running(c) => Fact(c) \in seen[c]

\* The status a command has been told.
StatusSeen(c, f) ==
  /\ call[c].body.unlocked = f.unlocked
  /\ call[c].body.exists = (f.password # None)

Reasons == {"noDaemon", "exists", "noVault", "locked", "wrong", "notFound"}

AnswerRight(c) ==
  IF call[c].asking = "status"
  THEN \/ call[c].code = "lost"
       \/ call[c].code = "ok" /\ \E f \in seen[c] : StatusSeen(c, f)
  ELSE /\ call[c].code \notin {"noDaemon", "already"}
       /\ call[c].code = "ok" =>
            \E f \in seen[c] : Achieved(c, f) \/ (call[c].op = "list" /\ ~f.up)
       /\ call[c].code \in Reasons =>
            \E f \in seen[c] : Reason(c, call[c].code, f)

Answered == \A c \in Commands : call[c].pc = "answered" => AnswerRight(c)

FullInv == Inv /\ Watched /\ Answered
-----------------------------------------------------------------------------
(* What the parts of a step do to the calls *)

\* A command that is told something ends, and the others go on.
LEMMA TellEnds ==
  ASSUME CallsFormed, NEW c \in Commands, NEW told \in Codes, Tell(c, told)
  PROVE  /\ call' \in [Commands -> CallRecords]
         /\ \A d \in Commands \ {c} : call'[d] = call[d]
         /\ call'[c].pc = "ended" /\ call'[c].code = told
<1>1. [New EXCEPT !.pc = "ended", !.code = told] \in CallRecords
  BY DEF New, CallRecords, Bodies, Codes
<1>. QED  BY <1>1 DEF Tell, CallsFormed, New

\* A record of a call in which some fields change is the record of a call.
LEMMA SendSends ==
  ASSUME CallsFormed, NEW c \in Commands, NEW what \in AllOps, Send(c, what)
  PROVE  /\ call' \in [Commands -> CallRecords]
         /\ \A d \in Commands \ {c} : call'[d] = call[d]
         /\ call'[c] = [call[c] EXCEPT !.pc = "sent", !.asking = what]
<1>1. call[c] \in CallRecords
  BY DEF CallsFormed
<1>2. call' = [call EXCEPT ![c] = [call[c] EXCEPT !.pc = "sent", !.asking = what]]
  BY DEF Send, CallsFormed
<1>3. [call[c] EXCEPT !.pc = "sent", !.asking = what] \in CallRecords
  BY <1>1 DEF CallRecords
<1>. QED  BY <1>2, <1>3 DEF CallsFormed

\* A submitted request carries what the user typed.
LEMMA SubmitSends ==
  ASSUME CallsFormed, NEW c \in Commands, call[c].op \in AllOps,
         NEW old \in Passwords \cup {None}, NEW new \in Passwords,
         Submit(c, old, new)
  PROVE  /\ call' \in [Commands -> CallRecords]
         /\ \A d \in Commands \ {c} : call'[d] = call[d]
         /\ call'[c].pc = "sent" /\ call'[c].value = new
         /\ call'[c].asking = call[c].op /\ call'[c].op = call[c].op
<1>. DEFINE r == [call[c] EXCEPT !.pc = "sent", !.asking = call[c].op,
                                 !.old = old, !.value = new]
<1>1. call[c] \in CallRecords
  BY DEF CallsFormed
<1>2. call' = [call EXCEPT ![c] = r]
  BY DEF Submit, CallsFormed
<1>3. /\ r \in CallRecords /\ r.pc = "sent" /\ r.value = new
      /\ r.asking = call[c].op /\ r.op = call[c].op
  BY <1>1 DEF CallRecords
<1>. QED  BY <1>2, <1>3 DEF CallsFormed

\* An answer reaches the command that waits for it, or nobody.
LEMMA ReplyAnswers ==
  ASSUME CallsFormed, NEW c \in Commands, Pending(c),
         NEW code \in Codes, NEW body \in Bodies, Reply(c, code, body)
  PROVE  /\ call' \in [Commands -> CallRecords]
         /\ late' \in [Commands -> CallRecords \cup {None}]
         /\ \A d \in Commands \ {c} : call'[d] = call[d] /\ late'[d] = late[d]
         /\ late'[c] = None
         /\ \/ /\ late[c] = None /\ call[c].pc = "sent" /\ Request(c) = call[c]
               /\ call'[c] = [call[c] EXCEPT !.pc = "answered", !.code = code,
                                             !.body = body]
            \/ late[c] # None /\ call' = call
<1>. DEFINE r == [call[c] EXCEPT !.pc = "answered", !.code = code, !.body = body]
<1>1. call[c] \in CallRecords
  BY DEF CallsFormed
<1>2. CASE late[c] # None
  BY <1>2 DEF Reply, CallsFormed
<1>3. CASE late[c] = None
  <2>1. call' = [call EXCEPT ![c] = r] /\ late' = late
    BY <1>3 DEF Reply, CallsFormed
  <2>2. r \in CallRecords
    BY <1>1 DEF CallRecords
  <2>. QED  BY <1>3, <2>1, <2>2 DEF CallsFormed, Pending, Request
<1>. QED  BY <1>2, <1>3

\* A request that is pending is formed as requests are.
LEMMA RequestFormed ==
  ASSUME CallsFormed, NEW c \in Commands, Pending(c)
  PROVE  Request(c) \in CallRecords /\ Formed(Request(c)) /\ Request(c).pc = "sent"
BY DEF CallsFormed, Pending, Request

\* The steps that concern one command alone keep the calls formed if its own
\* record is.
LEMMA OneCallFormed ==
  ASSUME CallsFormed, NEW c \in Commands,
         call' \in [Commands -> CallRecords],
         \A d \in Commands \ {c} : call'[d] = call[d],
         Formed(call'[c]),
         UNCHANGED late,
         late[c] = None
  PROVE  CallsFormed'
BY DEF CallsFormed
-----------------------------------------------------------------------------
(* What the daemon answers *)

\* The answer to the request r, as far as it tells something of the vault,
\* is so when it is given, and only an "ok" goes with a changed vault.
TellsTruth(r, code, body) ==
  /\ r.asking = "status" =>
       /\ code = "ok"
       /\ body = [exists |-> password' # None, unlocked |-> unlocked']
  /\ code \notin {"noDaemon", "already"}
  /\ code = "ok" =>
       /\ r.asking = "init" => password' = r.value /\ unlocked'
       /\ r.asking = "unlock" => password' = r.value /\ unlocked'
       /\ r.asking = "lock" => ~unlocked'
       /\ r.asking = "passwd" => password' = r.value
       /\ r.asking = "set" => secrets'[Named[r.name]] = r.value
       /\ r.asking = "delete" => secrets'[Named[r.name]] = None
       /\ r.asking = "get" => secrets'[Named[r.name]] = body /\ unlocked'
       /\ r.asking = "search" => body = Held' /\ unlocked'
       /\ r.asking = "list" => (body = Held' /\ unlocked') \/ daemon' # "up"
  /\ code = "exists" => r.asking = "init" /\ password' # None
  /\ code = "noVault" => r.asking = "unlock" /\ password' = None
  /\ code = "locked" => ~unlocked'
  /\ code = "wrong" => \/ r.asking = "unlock" /\ password' # r.value
                       \/ r.asking = "passwd" /\ password' # r.old
  /\ code = "notFound" =>
       r.asking = "get" /\ secrets'[Named[r.name]] = None

Replies(c) ==
  \E code \in Codes, body \in Bodies :
    /\ Reply(c, code, body)
    /\ TellsTruth(Request(c), code, body)
    /\ vault' # vault => code = "ok" /\ Request(c).asking # "status"

\* A password that is long enough, and with it a vault, is not None.
LEMMA PasswordsNotNone == None \notin LongEnough
BY CliConstants

LEMMA RepliesWith ==
  ASSUME NEW c \in Commands, NEW code \in Codes, NEW body \in Bodies,
         Reply(c, code, body), TellsTruth(Request(c), code, body),
         vault' # vault => code = "ok" /\ Request(c).asking # "status"
  PROVE  Replies(c)
BY DEF Replies

\* Every handler answers the truth and keeps the types of the vault.
LEMMA HandlersTellTruth ==
  ASSUME CallsFormed, VaultFormed, NEW c \in Commands, Handle(c)
  PROVE  Pending(c) /\ Replies(c) /\ VaultFormed'
<1>. DEFINE r == Request(c)
            Goal == Replies(c) /\ VaultFormed'
<1>1. Pending(c) /\ daemon # "down" /\ daemon' = daemon
  BY DEF Handle, Handles, Status, InitVault, Unlock, Lock, ChangePassword, Get,
         Change, List, Fails
<1>. SUFFICES Goal
  BY <1>1
<1>2. r \in CallRecords /\ Formed(r) /\ r.pc = "sent"
  BY <1>1, RequestFormed
<1>3. None \in Bodies
  BY DEF Bodies
<1>4. r.asking \in Naming =>
        /\ Named[r.name] \in Paths
        /\ secrets[Named[r.name]] \in Values \cup {None}
        /\ r.asking = "set" => r.value \in Values
  <2>1. r.asking \in Naming => r.asking = r.op
    BY <1>2 DEF Formed, Naming
  <2>2. r.asking \in Naming => r.name \in Names
    BY <1>2, <2>1 DEF Formed
  <2>. QED  BY <1>2, <2>1, <2>2 DEF Formed, Paths, VaultFormed
<1>5. ASSUME NEW code \in Codes, Refuse(c, code),
             r.asking # "status", code \notin {"ok", "noDaemon", "already"},
             code = "exists" => r.asking = "init" /\ password # None,
             code = "noVault" => r.asking = "unlock" /\ password = None,
             code = "locked" => ~unlocked,
             code = "wrong" => \/ r.asking = "unlock" /\ password # r.value
                               \/ r.asking = "passwd" /\ password # r.old,
             code # "notFound"
      PROVE  Goal
  <2>1. UNCHANGED vault /\ UNCHANGED <<password, secrets, unlocked>>
    BY <1>5 DEF Refuse, vault
  <2>2. Reply(c, code, None) /\ TellsTruth(r, code, None)
    BY <1>5, <2>1 DEF Refuse, Answer, TellsTruth, Codes
  <2>. QED  BY <1>1, <1>3, <2>1, <2>2, RepliesWith DEF VaultFormed, Codes
<1>6. CASE Status(c)
  <2>. DEFINE body == [exists |-> password # None, unlocked |-> unlocked]
  <2>1. UNCHANGED vault /\ UNCHANGED <<password, secrets, unlocked>>
    BY <1>6 DEF Status, vault
  <2>2. body \in Bodies
    BY DEF Bodies, VaultFormed
  <2>3. Reply(c, "ok", body) /\ TellsTruth(r, "ok", body)
    BY <1>6, <2>1 DEF Status, Handles, TellsTruth
  <2>. QED  BY <1>1, <2>1, <2>2, <2>3, RepliesWith DEF VaultFormed, Codes
<1>7. CASE InitVault(c)
  <2>1. CASE TooShort(r.value)
    BY <1>5, <1>7, <2>1 DEF InitVault, Handles, Codes
  <2>2. CASE ~TooShort(r.value) /\ password # None
    BY <1>5, <1>7, <2>2 DEF InitVault, Handles, Codes
  <2>3. CASE ~TooShort(r.value) /\ password = None
    <3>1. /\ password' = r.value /\ secrets' = NoSecrets /\ unlocked' = TRUE
          /\ Reply(c, "ok", None) /\ r.asking = "init"
      BY <1>7, <2>3 DEF InitVault, Handles, Answer
    <3>2. TellsTruth(r, "ok", None)
      BY <3>1 DEF TellsTruth
    <3>3. VaultFormed'
      BY <1>1, <2>3, <3>1, PasswordsNotNone DEF VaultFormed, TooShort, NoSecrets
    <3>. QED  BY <1>3, <3>1, <3>2, <3>3, RepliesWith DEF Codes
  <2>. QED  BY <2>1, <2>2, <2>3
<1>8. CASE Unlock(c)
  <2>1. CASE password = None
    BY <1>5, <1>8, <2>1 DEF Unlock, Handles, Codes
  <2>2. CASE password # None /\ r.value # password
    BY <1>5, <1>8, <2>2 DEF Unlock, Handles, Codes
  <2>3. CASE password # None /\ r.value = password
    <3>1. /\ UNCHANGED <<password, secrets>> /\ unlocked' = TRUE
          /\ Reply(c, "ok", None) /\ r.asking = "unlock"
      BY <1>8, <2>3 DEF Unlock, Handles, Answer
    <3>2. TellsTruth(r, "ok", None)
      BY <2>3, <3>1 DEF TellsTruth
    <3>3. VaultFormed'
      BY <1>1, <2>3, <3>1 DEF VaultFormed
    <3>. QED  BY <1>3, <3>1, <3>2, <3>3, RepliesWith DEF Codes
  <2>. QED  BY <2>1, <2>2, <2>3
<1>9. CASE Lock(c)
  <2>1. /\ UNCHANGED <<password, secrets>> /\ unlocked' = FALSE
        /\ Reply(c, "ok", None) /\ r.asking = "lock"
    BY <1>9 DEF Lock, Handles, Answer
  <2>2. TellsTruth(r, "ok", None)
    BY <2>1 DEF TellsTruth
  <2>3. VaultFormed'
    BY <1>1, <2>1 DEF VaultFormed
  <2>. QED  BY <1>3, <2>1, <2>2, <2>3, RepliesWith DEF Codes
<1>10. CASE ChangePassword(c)
  <2>1. CASE TooShort(r.value)
    BY <1>5, <1>10, <2>1 DEF ChangePassword, Handles, Codes
  <2>2. CASE ~TooShort(r.value) /\ ~unlocked
    BY <1>5, <1>10, <2>2 DEF ChangePassword, Handles, Codes
  <2>3. CASE ~TooShort(r.value) /\ unlocked /\ r.old # password
    BY <1>5, <1>10, <2>3 DEF ChangePassword, Handles, Codes
  <2>4. CASE ~TooShort(r.value) /\ unlocked /\ r.old = password
    <3>1. /\ UNCHANGED <<secrets, unlocked>> /\ password' = r.value
          /\ Reply(c, "ok", None) /\ r.asking = "passwd"
      BY <1>10, <2>4 DEF ChangePassword, Handles, Answer
    <3>2. TellsTruth(r, "ok", None)
      BY <3>1 DEF TellsTruth
    <3>3. VaultFormed'
      BY <1>1, <2>4, <3>1, PasswordsNotNone DEF VaultFormed, TooShort
    <3>. QED  BY <1>3, <3>1, <3>2, <3>3, RepliesWith DEF Codes
  <2>. QED  BY <2>1, <2>2, <2>3, <2>4
<1>11. CASE Get(c)
  <2>. DEFINE p == Named[r.name]
  <2>1. UNCHANGED vault /\ UNCHANGED <<password, secrets, unlocked>>
        /\ r.asking = "get"
    BY <1>11 DEF Get, vault, Handles
  <2>2. CASE ~unlocked
    BY <1>5, <1>11, <2>1, <2>2 DEF Get, Refuse, Codes
  <2>3. CASE unlocked /\ secrets[p] = None
    <3>1. Reply(c, "notFound", None) /\ TellsTruth(r, "notFound", None)
      BY <1>11, <2>1, <2>3 DEF Get, Path, Answer, TellsTruth
    <3>. QED  BY <1>1, <1>3, <2>1, <3>1, RepliesWith DEF VaultFormed, Codes
  <2>4. CASE unlocked /\ secrets[p] # None
    <3>1. Reply(c, "ok", secrets[p]) /\ TellsTruth(r, "ok", secrets[p])
      BY <1>11, <2>1, <2>4 DEF Get, Path, TellsTruth
    <3>2. secrets[p] \in Bodies
      BY <1>4, <2>1 DEF Naming, Bodies
    <3>. QED  BY <1>1, <2>1, <3>1, <3>2, RepliesWith DEF VaultFormed, Codes
  <2>. QED  BY <2>2, <2>3, <2>4
<1>12. CASE Change(c)
  <2>1. CASE ~unlocked
    BY <1>5, <1>12, <2>1 DEF Change, Handles, Codes
  <2>2. CASE unlocked
    <3>. DEFINE p == Named[r.name]
                new == IF r.asking = "set" THEN r.value ELSE None
    <3>1. /\ secrets' = [secrets EXCEPT ![p] = new]
          /\ UNCHANGED <<password, unlocked>>
          /\ Reply(c, "ok", None) /\ r.asking \in {"set", "delete"}
      BY <1>12, <2>2 DEF Change, Handles, Answer, Path
    <3>2. p \in Paths /\ new \in Values \cup {None}
      BY <1>4, <3>1 DEF Naming
    <3>3. VaultFormed' /\ secrets'[p] = new
      BY <1>1, <3>1, <3>2 DEF VaultFormed
    <3>4. TellsTruth(r, "ok", None)
      BY <3>1, <3>3 DEF TellsTruth
    <3>. QED  BY <1>3, <3>1, <3>3, <3>4, RepliesWith DEF Codes
  <2>. QED  BY <2>1, <2>2
<1>13. CASE List(c)
  <2>1. /\ UNCHANGED vault /\ UNCHANGED <<password, secrets, unlocked>>
        /\ r.asking \in {"list", "search"} /\ Held' = Held
    BY <1>13 DEF List, vault, Handles, Held
  <2>2. CASE unlocked /\ Reply(c, "ok", Held)
    <3>1. TellsTruth(r, "ok", Held)
      BY <2>1, <2>2 DEF TellsTruth
    <3>2. Held \in Bodies
      BY DEF Held, Bodies
    <3>. QED  BY <1>1, <2>1, <2>2, <3>1, <3>2, RepliesWith DEF VaultFormed, Codes
  <2>3. CASE ~unlocked /\ Answer(c, "locked")
    BY <1>5, <2>1, <2>3 DEF Refuse, Codes
  <2>4. ASSUME daemon = "stopping", r.asking = "list",
               NEW some \in SUBSET Held, Reply(c, "ok", some)
        PROVE  Goal
    <3>1. TellsTruth(r, "ok", some)
      BY <1>1, <2>1, <2>4 DEF TellsTruth
    <3>2. some \in Bodies
      BY DEF Held, Bodies
    <3>. QED  BY <1>1, <2>1, <2>4, <3>1, <3>2, RepliesWith DEF VaultFormed, Codes
  <2>. QED  BY <1>13, <2>2, <2>3, <2>4 DEF List
<1>14. CASE Fails(c)
  BY <1>5, <1>14 DEF Fails, Handles, Codes
<1>. QED
  BY <1>1, <1>6, <1>7, <1>8, <1>9, <1>10, <1>11, <1>12, <1>13, <1>14 DEF Handle
-----------------------------------------------------------------------------
(* Types, and the vault behind an answer *)

LEMMA InvInit == Init => Inv
<1>. SUFFICES ASSUME Init
              PROVE  Inv
  OBVIOUS
<1>1. New \in CallRecords /\ Formed(New)
  BY DEF New, CallRecords, Bodies, Codes, Formed
<1>2. CallsFormed
  BY <1>1 DEF Init, CallsFormed
<1>3. ActedFormed
  BY DEF Init, ActedFormed
<1>4. VaultFormed
  BY DEF Init, VaultFormed
<1>. QED  BY <1>2, <1>3, <1>4 DEF Inv

\* A command moves on, and nothing else does.
LEMMA OneCallMoves ==
  ASSUME Inv, NEW c \in Commands, call[c].pc # "ended",
         call' \in [Commands -> CallRecords],
         \A d \in Commands \ {c} : call'[d] = call[d],
         Formed(call'[c]),
         UNCHANGED <<daemon, vault, late, acted>>,
         c \in acted => call'[c].pc = "ended" /\ call'[c].code \in {"ok", "error"}
  PROVE  Inv'
<1>1. CallsFormed'
  BY OneCallFormed DEF Inv, CallsFormed
<1>2. VaultFormed'
  BY DEF Inv, VaultFormed, vault
<1>3. ActedFormed'
  BY DEF Inv, ActedFormed
<1>. QED  BY <1>1, <1>2, <1>3 DEF Inv

\* The same for a command that ends.
LEMMA OneCallEnds ==
  ASSUME Inv, NEW c \in Commands, call[c].pc # "ended",
         NEW told \in Codes, Tell(c, told),
         UNCHANGED <<daemon, vault, late, acted>>,
         c \in acted => told \in {"ok", "error"}
  PROVE  Inv'
<1>1. Formed(call'[c])
  BY TellEnds DEF Inv, Formed
<1>. QED  BY <1>1, TellEnds, OneCallMoves DEF Inv

LEMMA InvNext == Inv /\ [Next]_vars => Inv'
<1>. SUFFICES ASSUME Inv, [Next]_vars
              PROVE  Inv'
  OBVIOUS
<1>0. ASSUME NEW c \in Commands
      PROVE  /\ call[c] \in CallRecords /\ Formed(call[c])
             /\ c \in acted => call[c].pc \in {"answered", "ended"}
  BY DEF Inv, CallsFormed, ActedFormed
<1>1. CASE UNCHANGED vars
  BY <1>1 DEF vars, vault, history, Inv, CallsFormed, VaultFormed, ActedFormed
<1>2. ASSUME NEW c \in Commands, NEW op \in Ops, NEW a \in Arguments(op),
             Begin(c, op, a.name, a.value)
      PROVE  Inv'
  <2>. DEFINE r == [New EXCEPT !.pc = "dial", !.op = op,
                               !.name = a.name, !.value = a.value]
  <2>1. call[c].pc = "new" /\ c \notin acted
    BY <1>0, <1>2 DEF Begin, New
  <2>2. op \in AllOps
    BY CliConstants
  <2>3. CASE call' = [call EXCEPT ![c] = r]
    <3>1. r \in CallRecords /\ Formed(r)
      BY <2>2 DEF New, CallRecords, Bodies, Codes, Formed, Arguments, Naming
    <3>. QED  BY <1>2, <2>1, <2>3, <3>1, OneCallMoves DEF Begin, Inv, CallsFormed
  <2>4. CASE ReadFails(c)
    BY <1>2, <2>1, <2>4, OneCallEnds DEF Begin, ReadFails, Codes
  <2>. QED  BY <1>2, <2>3, <2>4 DEF Begin
<1>3. ASSUME NEW c \in Commands, Dial(c)
      PROVE  Inv'
  <2>1. call[c].pc = "dial" /\ c \notin acted /\ call[c].op \in AllOps
    BY <1>0, <1>3 DEF Dial, Formed
  <2>2. CASE Tell(c, "noDaemon")
    BY <1>3, <2>1, <2>2, OneCallEnds DEF Dial, Codes
  <2>3. ASSUME NEW what \in AllOps, Send(c, what),
               \/ what = "status" /\ call[c].op \in Looking
               \/ what = call[c].op /\ what # "status"
        PROVE  Inv'
    <3>. DEFINE r == [call[c] EXCEPT !.pc = "sent", !.asking = what]
    <3>1. /\ r.pc = "sent" /\ r.asking = what /\ r.op = call[c].op
          /\ r.name = call[c].name /\ r.value = call[c].value
      BY <1>0 DEF CallRecords
    <3>2. Formed(r)
      BY <1>0, <2>1, <2>3, <3>1 DEF Formed, Looking
    <3>3. Formed(call'[c])
      BY <2>3, <3>2, SendSends DEF Inv
    <3>. QED  BY <1>3, <2>1, <2>3, <3>3, SendSends, OneCallMoves DEF Dial, Inv
  <2>4. CASE call' = [call EXCEPT ![c].pc = "prompt"]
    <3>. DEFINE r == [call[c] EXCEPT !.pc = "prompt"]
    <3>1. call' = [call EXCEPT ![c] = r]
      BY <2>4 DEF Inv, CallsFormed
    <3>2. r \in CallRecords /\ Formed(r)
      BY <1>0, <2>1 DEF CallRecords, Formed
    <3>. QED  BY <1>3, <2>1, <3>1, <3>2, OneCallMoves DEF Dial, Inv, CallsFormed
  <2>5. "status" \in AllOps /\ (call[c].op \in Direct => call[c].op # "status")
    BY DEF AllOps, Looking, Direct
  <2>. QED  BY <1>3, <2>1, <2>2, <2>3, <2>4, <2>5 DEF Dial, AllOps, Naming, Direct
<1>4. ASSUME NEW c \in Commands, Return(c)
      PROVE  Inv'
  <2>1. call[c].pc = "answered" /\ call[c].op \in AllOps
    BY <1>0, <1>4 DEF Return, Formed
  <2>2. CASE call[c].asking = "status" /\ call[c].code = "ok"
    <3>. DEFINE verdict == Verdict(call[c].op, call[c].body)
                r == [call[c] EXCEPT !.pc = "prompt", !.code = "none", !.body = None]
    <3>1. c \notin acted
      BY <2>1, <2>2 DEF Inv, ActedFormed
    <3>2. CASE verdict = "goOn"
      <4>1. call' = [call EXCEPT ![c] = r]
        BY <1>4, <2>2, <3>2 DEF Return, Inv, CallsFormed
      <4>2. r \in CallRecords /\ Formed(r)
        BY <1>0, <2>1 DEF CallRecords, Formed, Bodies, Codes
      <4>. QED
        BY <1>4, <2>1, <3>1, <4>1, <4>2, OneCallMoves DEF Return, Inv, CallsFormed
    <3>3. CASE verdict # "goOn"
      <4>1. verdict \in Codes /\ Tell(c, verdict)
        BY <1>4, <2>2, <3>3 DEF Return, Verdict, Codes
      <4>. QED  BY <1>4, <2>1, <3>1, <4>1, OneCallEnds DEF Return
    <3>. QED  BY <3>2, <3>3
  <2>3. CASE ~(call[c].asking = "status" /\ call[c].code = "ok")
    <3>1. Tell(c, Outcome(call[c].code))
      BY <1>4, <2>3 DEF Return
    <3>2. Outcome(call[c].code) \in Codes
      BY <1>0 DEF Outcome, CallRecords, Codes
    <3>3. c \in acted => Outcome(call[c].code) = "ok"
      BY <2>1 DEF Inv, ActedFormed, Outcome
    <3>. QED  BY <1>4, <2>1, <3>1, <3>2, <3>3, OneCallEnds DEF Return
  <2>. QED  BY <2>2, <2>3
<1>5. ASSUME NEW c \in Commands, Enter(c)
      PROVE  Inv'
  <2>1. call[c].pc = "prompt" /\ c \notin acted /\ call[c].op \in AllOps
    BY <1>0, <1>5 DEF Enter, EnterForInit, EnterForUnlock, EnterForPasswd,
       EnterNothing, AtPrompt, Formed
  <2>2. ASSUME NEW told \in Codes, Tell(c, told)
        PROVE  Inv'
    BY <1>5, <2>1, <2>2, OneCallEnds DEF Enter
  <2>3. ASSUME NEW old \in Passwords \cup {None}, NEW new \in Passwords,
               Submit(c, old, new), call[c].op \in {"init", "unlock", "passwd"}
        PROVE  Inv'
    <3>1. /\ call'[c].pc = "sent"
          /\ call'[c].asking = call[c].op /\ call'[c].op = call[c].op
      BY <2>1, <2>3, SubmitSends DEF Inv
    <3>2. Formed(call'[c])
      BY <2>1, <2>3, <3>1 DEF Formed, Naming
    <3>. QED  BY <1>5, <2>1, <2>3, <3>2, SubmitSends, OneCallMoves DEF Enter, Inv
  <2>. QED
    BY <1>5, <2>2, <2>3 DEF Enter, EnterForInit, EnterForUnlock, EnterForPasswd,
       EnterNothing, ReadFails, AtPrompt, Codes
<1>6. ASSUME NEW c \in Commands, Lost(c)
      PROVE  Inv'
  <2>1. /\ call[c].pc \in {"sent", "answered"} /\ Tell(c, "error")
        /\ UNCHANGED <<daemon, vault, acted>>
        /\ late' = late \/ (call[c].pc = "sent" /\ late' = [late EXCEPT ![c] = call[c]])
    BY <1>6 DEF Lost
  <2>2. CASE late' = late
    BY <2>1, <2>2, OneCallEnds DEF Codes
  <2>3. CASE call[c].pc = "sent" /\ late' = [late EXCEPT ![c] = call[c]]
    <3>1. /\ call' \in [Commands -> CallRecords]
          /\ \A d \in Commands \ {c} : call'[d] = call[d]
          /\ call'[c].pc = "ended" /\ call'[c].code = "error"
      BY <2>1, TellEnds DEF Inv, Codes
    <3>2. CallsFormed'
      <4>1. late' \in [Commands -> CallRecords \cup {None}]
        BY <1>0, <2>3 DEF Inv, CallsFormed
      <4>2. ASSUME NEW d \in Commands
            PROVE  /\ Formed(call'[d])
                   /\ late'[d] # None =>
                        /\ late'[d].pc = "sent" /\ Formed(late'[d])
                        /\ call'[d].pc = "ended" /\ call'[d].code = "error"
        <5>1. CASE d = c
          BY <1>0, <2>3, <3>1, <5>1 DEF Inv, CallsFormed, Formed
        <5>2. CASE d # c
          BY <2>3, <3>1, <5>2 DEF Inv, CallsFormed
        <5>. QED  BY <5>1, <5>2
      <4>. QED  BY <3>1, <4>1, <4>2 DEF CallsFormed
    <3>3. VaultFormed' /\ ActedFormed'
      BY <2>1, <3>1 DEF Inv, VaultFormed, ActedFormed, vault
    <3>. QED  BY <3>2, <3>3 DEF Inv
  <2>. QED  BY <2>1, <2>2, <2>3
<1>7. ASSUME NEW c \in Commands, NEW response \in {"y", "n", ""},
             AnswerDelete(c, response)
      PROVE  Inv'
  <2>1. call[c].pc = "prompt" /\ c \notin acted /\ call[c].op = "delete"
    BY <1>0, <1>7 DEF AnswerDelete, AtPrompt
  <2>2. CASE Send(c, "delete")
    <3>1. "delete" \in AllOps
      BY DEF AllOps, Naming
    <3>. DEFINE r == [call[c] EXCEPT !.pc = "sent", !.asking = "delete"]
    <3>2. /\ r.pc = "sent" /\ r.asking = "delete" /\ r.op = call[c].op
          /\ r.name = call[c].name /\ r.value = call[c].value
      BY <1>0 DEF CallRecords
    <3>3. Formed(r)
      BY <1>0, <2>1, <3>2 DEF Formed
    <3>4. Formed(call'[c])
      BY <2>2, <3>1, <3>3, SendSends DEF Inv
    <3>. QED
      BY <1>7, <2>1, <2>2, <3>1, <3>4, SendSends, OneCallMoves DEF AnswerDelete, Inv
  <2>3. CASE Tell(c, "cancelled")
    BY <1>7, <2>1, <2>3, OneCallEnds DEF AnswerDelete, Codes
  <2>. QED  BY <1>7, <2>2, <2>3 DEF AnswerDelete
<1>8. ASSUME NEW c \in Commands, Handle(c)
      PROVE  Inv'
  <2>1. Pending(c) /\ Replies(c) /\ VaultFormed'
    BY <1>8, HandlersTellTruth DEF Inv
  <2>2. PICK code \in Codes, body \in Bodies :
          /\ Reply(c, code, body)
          /\ vault' # vault => code = "ok" /\ Request(c).asking # "status"
    BY <2>1 DEF Replies
  <2>3. acted' = IF vault' # vault THEN acted \cup {c} ELSE acted
    BY <1>8 DEF Handle
  <2>4. /\ call' \in [Commands -> CallRecords]
        /\ late' \in [Commands -> CallRecords \cup {None}]
        /\ \A d \in Commands \ {c} : call'[d] = call[d] /\ late'[d] = late[d]
        /\ late'[c] = None
    BY <2>1, <2>2, ReplyAnswers DEF Inv
  <2>5. CASE late[c] = None
    <3>1. /\ call[c].pc = "sent" /\ Request(c) = call[c]
          /\ call'[c] = [call[c] EXCEPT !.pc = "answered", !.code = code,
                                        !.body = body]
      BY <2>1, <2>2, <2>5, ReplyAnswers DEF Inv
    <3>2. Formed(call'[c]) /\ call'[c].pc = "answered" /\ call'[c].code = code
          /\ call'[c].asking = call[c].asking
      BY <1>0, <3>1 DEF CallRecords, Formed
    <3>3. CallsFormed'
      BY <2>4, <3>2 DEF Inv, CallsFormed
    <3>4. ActedFormed'
      <4>1. c \notin acted
        BY <1>0, <3>1
      <4>2. c \in acted' => code = "ok" /\ call[c].asking # "status"
        BY <2>2, <2>3, <3>1, <4>1
      <4>3. acted' \subseteq acted \cup {c}
        BY <2>3
      <4>. QED  BY <2>4, <3>2, <4>2, <4>3 DEF Inv, ActedFormed
    <3>. QED  BY <2>1, <3>3, <3>4 DEF Inv
  <2>6. CASE late[c] # None
    <3>1. call' = call /\ call[c].pc = "ended" /\ call[c].code = "error"
      BY <2>1, <2>2, <2>6, ReplyAnswers DEF Inv, CallsFormed
    <3>2. CallsFormed'
      BY <2>4, <3>1 DEF Inv, CallsFormed
    <3>3. ActedFormed'
      BY <2>3, <3>1 DEF Inv, ActedFormed
    <3>. QED  BY <2>1, <3>2, <3>3 DEF Inv
  <2>. QED  BY <2>5, <2>6
<1>9. CASE AutoLock
  BY <1>9 DEF AutoLock, Inv, CallsFormed, VaultFormed, ActedFormed
<1>10. CASE Stop
  BY <1>10 DEF Stop, Inv, CallsFormed, VaultFormed, ActedFormed
<1>11. CASE Start
  BY <1>11 DEF Start, vault, Inv, CallsFormed, VaultFormed, ActedFormed
<1>12. CASE Exit
  <2>1. PICK cut \in SUBSET {c \in Commands : call[c].pc = "sent"} :
          call' = [c \in Commands |->
            IF c \in cut THEN [call[c] EXCEPT !.pc = "answered", !.code = "lost"]
                         ELSE call[c]]
    BY <1>12 DEF Exit
  <2>2. ASSUME NEW c \in Commands
        PROVE  /\ call'[c] \in CallRecords /\ Formed(call'[c])
               /\ call[c].pc # "sent" => call'[c] = call[c]
    <3>1. CASE c \in cut
      <4>. DEFINE r == [call[c] EXCEPT !.pc = "answered", !.code = "lost"]
      <4>1. call'[c] = r /\ call[c].pc = "sent"
        BY <2>1, <3>1
      <4>2. r \in CallRecords /\ r.pc = "answered" /\ r.op = call[c].op
            /\ r.asking = call[c].asking /\ r.name = call[c].name
            /\ r.value = call[c].value
        BY <1>0 DEF CallRecords, Codes
      <4>. QED  BY <1>0, <4>1, <4>2 DEF Formed
    <3>2. CASE c \notin cut
      BY <1>0, <2>1, <3>2
    <3>. QED  BY <3>1, <3>2
  <2>3. CallsFormed'
    BY <1>12, <2>1, <2>2 DEF Exit, CallsFormed
  <2>4. ActedFormed'
    BY <1>0, <1>12, <2>2 DEF Exit, Inv, ActedFormed
  <2>5. VaultFormed'
    BY <1>12 DEF Exit, Inv, VaultFormed
  <2>. QED  BY <2>3, <2>4, <2>5 DEF Inv
<1>13. CASE Done
  BY <1>1, <1>13 DEF Done
<1>. QED
  BY <1>1, <1>2, <1>3, <1>4, <1>5, <1>6, <1>7, <1>8, <1>9, <1>10, <1>11, <1>12,
     <1>13 DEF Next, Step

\* Every variable has its type, however commands, requests and the daemon's
\* own steps interleave.
THEOREM TypeCorrect == Spec => []TypeOK
<1>1. Inv => TypeOK
  BY DEF Inv, CallsFormed, VaultFormed, ActedFormed, TypeOK, Formed, AllOps,
         Looking
<1>. QED  BY <1>1, InvInit, InvNext, PTL DEF Spec

\* No refusal, cancellation or failure that a command gives a reason for
\* leaves something behind in the vault, then or later.
THEOREM FailuresLeaveNothing == Spec => []DefiniteFailures
<1>1. Inv => DefiniteFailures
  BY DEF Inv, ActedFormed, DefiniteFailures
<1>. QED  BY <1>1, InvInit, InvNext, PTL DEF Spec
-----------------------------------------------------------------------------
(* A changed password *)

\* Once there is a vault, its password changes only at the request of a user
\* who gave the old one.
THEOREM PasswordHandedOn == Spec => PasswordIsHandedOn
<1>1. ASSUME [Next]_vars, password # None, password' # password
      PROVE  \E c \in Commands :
               /\ Pending(c) /\ Request(c).asking = "passwd"
               /\ Request(c).old = password /\ Request(c).value = password'
  <2>1. PICK c \in Commands : Handle(c)
    BY <1>1 DEF Next, Step, Begin, Dial, Return, Enter, Lost, AnswerDelete,
       AutoLock, Stop, Exit, Start, Done, vars, vault
  <2>2. InitVault(c) \/ ChangePassword(c)
    BY <1>1, <2>1 DEF Handle, Status, Unlock, Lock, Get, Change, List, Fails,
       Refuse, vault
  <2>3. ~InitVault(c)
    BY <1>1 DEF InitVault, Refuse, vault
  <2>4. /\ Pending(c) /\ Request(c).asking = "passwd"
        /\ Request(c).old = password /\ Request(c).value = password'
    BY <1>1, <2>2, <2>3 DEF ChangePassword, Handles, Refuse, vault
  <2>. QED  BY <2>4
<1>. QED  BY <1>1, PTL DEF Spec, PasswordIsHandedOn

-----------------------------------------------------------------------------
(* What a command has seen *)

\* All that a command sees while it runs is remembered until it ends.
LEMMA SeenGrows ==
  ASSUME [Next]_vars, NEW c \in Commands, Watched
  PROVE  /\ Running(c)' => Fact(c)' \in seen'[c]
         /\ Running(c) /\ Running(c)' => seen[c] \subseteq seen'[c]
<1>1. CASE UNCHANGED vars
  BY <1>1 DEF vars, vault, history, Watched, Running, Fact, Held
<1>2. CASE Witness
  BY <1>2 DEF Witness
<1>3. CASE Done
  BY <1>1, <1>3 DEF Done
<1>. QED  BY <1>1, <1>2, <1>3 DEF Next

LEMMA WatchedNext == Watched /\ [Next]_vars => Watched'
BY SeenGrows DEF Watched

\* How a command can have come by an answer, or to its end.
LEMMA WhoMoves ==
  ASSUME Inv, [Next]_vars, NEW c \in Commands
  PROVE  \/ call'[c] = call[c]
         \/ call'[c].pc \notin {"answered", "ended"}
         \/ call'[c].pc = "answered" /\ call'[c].code = "lost"
         \/ Handle(c) /\ late[c] = None
         \/ Return(c)
         \/ ~Running(c) /\ call'[c].pc # "answered"
         \/ /\ call'[c].pc = "ended"
            /\ \/ call'[c].code \in {"refused", "cancelled", "error"}
               \/ call'[c].code = "noDaemon" /\ daemon # "up"
<1>. DEFINE Goal(d) ==
         \/ call'[d] = call[d]
         \/ call'[d].pc \notin {"answered", "ended"}
         \/ call'[d].pc = "answered" /\ call'[d].code = "lost"
         \/ Handle(d) /\ late[d] = None
         \/ Return(d)
         \/ ~Running(d) /\ call'[d].pc # "answered"
         \/ /\ call'[d].pc = "ended"
            /\ \/ call'[d].code \in {"refused", "cancelled", "error"}
               \/ call'[d].code = "noDaemon" /\ daemon # "up"
<1>0. CallsFormed
  BY DEF Inv
<1>1. ASSUME NEW d \in Commands, NEW told \in Codes, Tell(d, told),
             \/ told \in {"refused", "cancelled", "error"}
             \/ told = "noDaemon" /\ daemon # "up"
      PROVE  Goal(c)
  BY <1>0, <1>1, TellEnds
<1>2. ASSUME NEW d \in Commands, NEW op \in Ops, NEW a \in Arguments(op),
             Begin(d, op, a.name, a.value)
      PROVE  Goal(c)
  <2>1. d = c => ~Running(c) /\ call'[c].pc # "answered"
    <3>1. call[d].pc = "new"
      BY <1>2 DEF Begin, New
    <3>2. call'[d].pc = "dial" \/ call'[d].pc = "ended"
      <4>1. ASSUME ReadFails(d)
            PROVE  call'[d].pc = "ended"
        BY <1>0, <4>1, TellEnds DEF ReadFails, Codes
      <4>. QED  BY <1>0, <1>2, <4>1 DEF Begin, CallsFormed, New
    <3>. QED  BY <3>1, <3>2 DEF Running
  <2>2. d # c => call'[c] = call[c]
    BY <1>0, <1>2, TellEnds DEF Begin, ReadFails, CallsFormed, Codes
  <2>. QED  BY <2>1, <2>2
<1>3. ASSUME NEW d \in Commands, Dial(d)
      PROVE  Goal(c)
  <2>1. CASE daemon # "up" /\ Tell(d, "noDaemon")
    BY <1>1, <2>1 DEF Codes
  <2>2. ASSUME NEW what, Send(d, what)
        PROVE  Goal(c)
    BY <1>0, <2>2 DEF Send, CallsFormed, CallRecords
  <2>3. CASE call' = [call EXCEPT ![d].pc = "prompt"]
    BY <1>0, <2>3 DEF CallsFormed, CallRecords
  <2>4. call[d].op \in AllOps
    BY <1>0, <1>3 DEF Dial, CallsFormed, Formed
  <2>. QED  BY <1>3, <2>1, <2>2, <2>3, <2>4 DEF Dial, AllOps, Naming, Direct
<1>4. ASSUME NEW d \in Commands, Return(d)
      PROVE  Goal(c)
  <2>1. CASE d = c
    BY <1>4, <2>1
  <2>2. CASE d # c
    BY <1>0, <1>4, <2>2 DEF Return, Tell, CallsFormed
  <2>. QED  BY <2>1, <2>2
<1>5. ASSUME NEW d \in Commands, Enter(d)
      PROVE  Goal(c)
  <2>1. ASSUME NEW old, NEW new, Submit(d, old, new)
        PROVE  Goal(c)
    BY <1>0, <2>1 DEF Submit, CallsFormed, CallRecords
  <2>. QED
    BY <1>1, <1>5, <2>1 DEF Enter, EnterForInit, EnterForUnlock, EnterForPasswd,
       EnterNothing, ReadFails, Codes
<1>6. ASSUME NEW d \in Commands, Lost(d)
      PROVE  Goal(c)
  BY <1>1, <1>6 DEF Lost, Codes
<1>7. ASSUME NEW d \in Commands, NEW response, AnswerDelete(d, response)
      PROVE  Goal(c)
  <2>1. CASE Send(d, "delete")
    BY <1>0, <2>1 DEF Send, CallsFormed, CallRecords
  <2>. QED  BY <1>1, <1>7, <2>1 DEF AnswerDelete, Codes
<1>8. ASSUME NEW d \in Commands, Handle(d)
      PROVE  Goal(c)
  <2>1. Pending(d) /\ Replies(d)
    BY <1>8, HandlersTellTruth DEF Inv
  <2>2. PICK code \in Codes, body \in Bodies : Reply(d, code, body)
    BY <2>1 DEF Replies
  <2>3. d # c => call'[c] = call[c]
    BY <1>0, <2>1, <2>2, ReplyAnswers
  <2>4. late[d] # None => call' = call
    BY <2>2 DEF Reply
  <2>. QED  BY <1>8, <2>3, <2>4
<1>9. CASE Exit
  <2>1. PICK cut \in SUBSET {d \in Commands : call[d].pc = "sent"} :
          call' = [d \in Commands |->
            IF d \in cut THEN [call[d] EXCEPT !.pc = "answered", !.code = "lost"]
                         ELSE call[d]]
    BY <1>9 DEF Exit
  <2>2. call[c] \in CallRecords
    BY <1>0 DEF CallsFormed
  <2>. QED  BY <2>1, <2>2 DEF CallRecords
<1>10. CASE AutoLock \/ Stop \/ Start \/ Done \/ UNCHANGED vars
  BY <1>10 DEF AutoLock, Stop, Start, Done, vars
<1>. QED
  BY <1>2, <1>3, <1>4, <1>5, <1>6, <1>7, <1>8, <1>9, <1>10 DEF Next, Step
-----------------------------------------------------------------------------
(* Reports are true *)

\* A handler that is heard does not end a command.
LEMMA HandlersAnswer ==
  ASSUME Inv, NEW c \in Commands, Handle(c), late[c] = None
  PROVE  call'[c].pc = "answered"
<1>1. Pending(c) /\ Replies(c)
  BY HandlersTellTruth DEF Inv
<1>2. PICK code \in Codes, body \in Bodies : Reply(c, code, body)
  BY <1>1 DEF Replies
<1>3. call'[c] = [call[c] EXCEPT !.pc = "answered", !.code = code, !.body = body]
  BY <1>1, <1>2, ReplyAnswers DEF Inv
<1>. QED  BY <1>3 DEF Inv, CallsFormed, CallRecords

\* An answer agrees with the vault as it is when the answer is given.
LEMMA HandlersAnswerRight ==
  ASSUME Inv, [Next]_vars, Watched, NEW c \in Commands, Handle(c), late[c] = None
  PROVE  AnswerRight(c)'
<1>1. Pending(c) /\ Replies(c)
  BY HandlersTellTruth DEF Inv
<1>2. PICK code \in Codes, body \in Bodies :
        Reply(c, code, body) /\ TellsTruth(Request(c), code, body)
  BY <1>1 DEF Replies
<1>3. /\ call[c].pc = "sent" /\ Request(c) = call[c]
      /\ call'[c] = [call[c] EXCEPT !.pc = "answered", !.code = code,
                                    !.body = body]
  BY <1>1, <1>2, ReplyAnswers DEF Inv
<1>4. call[c] \in CallRecords /\ Formed(call[c])
  BY DEF Inv, CallsFormed
<1>. DEFINE r == call[c]
<1>5. /\ call'[c].pc = "answered" /\ call'[c].code = code /\ call'[c].body = body
      /\ call'[c].op = r.op /\ call'[c].asking = r.asking
      /\ call'[c].name = r.name /\ call'[c].value = r.value
      /\ call'[c].old = r.old
  BY <1>3, <1>4 DEF CallRecords
<1>6. PICK f \in seen'[c] : f = Fact(c)'
  BY <1>5, SeenGrows DEF Running
<1>7. /\ f.up = (daemon' = "up") /\ f.unlocked = unlocked'
      /\ r.op \in Looking => f.password = password'
      /\ r.op \in Naming => f.held = secrets'[Named[r.name]]
      /\ r.op \in {"list", "search"} => f.held = Held'
  BY <1>5, <1>6 DEF Fact, Naming
<1>8. TellsTruth(r, code, body)
  BY <1>2, <1>3
<1>9. CASE r.asking = "status"
  <2>1. r.op \in Looking
    BY <1>3, <1>4, <1>9 DEF Formed
  <2>2. code = "ok" /\ body.exists = (password' # None) /\ body.unlocked = unlocked'
    BY <1>8, <1>9 DEF TellsTruth
  <2>3. StatusSeen(c, f)'
    BY <1>5, <1>7, <2>1, <2>2 DEF StatusSeen
  <2>. QED  BY <1>5, <1>6, <1>9, <2>2, <2>3 DEF AnswerRight
<1>10. CASE r.asking # "status"
  <2>1. r.op = r.asking /\ r.op \in AllOps
    BY <1>3, <1>4, <1>10 DEF Formed
  <2>2. ASSUME code = "ok"
        PROVE  Achieved(c, f)' \/ (r.op = "list" /\ ~f.up)
    BY <1>5, <1>7, <1>8, <1>10, <2>1, <2>2
       DEF TellsTruth, Achieved, Looking, Naming, AllOps, Direct
  <2>3. ASSUME code \in Reasons
        PROVE  Reason(c, code, f)'
    BY <1>5, <1>7, <1>8, <1>10, <2>1, <2>3
       DEF TellsTruth, Reason, Reasons, Looking, Naming
  <2>4. code \notin {"noDaemon", "already"}
    BY <1>8 DEF TellsTruth
  <2>. QED  BY <1>5, <1>6, <1>10, <2>2, <2>3, <2>4 DEF AnswerRight
<1>. QED  BY <1>9, <1>10

LEMMA AnsweredNext == FullInv /\ [Next]_vars => Answered'
<1>. SUFFICES ASSUME FullInv, [Next]_vars, NEW c \in Commands,
                     call'[c].pc = "answered"
              PROVE  AnswerRight(c)'
  BY DEF Answered
<1>1. CASE call'[c] = call[c]
  <2>1. Running(c) /\ Running(c)' /\ AnswerRight(c)
    BY <1>1 DEF FullInv, Answered, Running
  <2>2. seen[c] \subseteq seen'[c]
    BY <2>1, SeenGrows DEF FullInv
  <2>3. \A f : /\ StatusSeen(c, f)' <=> StatusSeen(c, f)
               /\ Achieved(c, f)' <=> Achieved(c, f)
               /\ \A code : Reason(c, code, f)' <=> Reason(c, code, f)
    BY <1>1 DEF StatusSeen, Achieved, Reason
  <2>. QED  BY <1>1, <2>1, <2>2, <2>3 DEF AnswerRight
<1>2. CASE call'[c].code = "lost"
  BY <1>2 DEF AnswerRight, Reasons
<1>3. CASE Handle(c) /\ late[c] = None
  BY <1>3, HandlersAnswerRight DEF FullInv
<1>4. ~Return(c)
  <2>1. call \in [Commands -> CallRecords]
    BY DEF FullInv, Inv, CallsFormed
  <2>2. \A told : ~Tell(c, told)
    BY <2>1 DEF Tell, New
  <2>. QED  BY <2>1, <2>2 DEF Return, CallRecords
<1>. QED  BY <1>1, <1>2, <1>3, <1>4, WhoMoves DEF FullInv

LEMMA FullInvInit == Init => FullInv
<1>1. Init => \A c \in Commands : call[c].pc = "new"
  BY DEF Init, New
<1>. QED  BY <1>1, InvInit DEF FullInv, Watched, Answered, Running

LEMMA FullInvNext == FullInv /\ [Next]_vars => FullInv'
BY InvNext, WatchedNext, AnsweredNext DEF FullInv

\* A command that ends with an answer ends as the answer says.
LEMMA ReturnsTrue ==
  ASSUME FullInv, NEW c \in Commands, Return(c), call'[c].pc = "ended"
  PROVE  /\ call'[c].code \in {"ok", "already"} =>
              \E f \in seen[c] : \/ Achieved(c, f)
                                 \/ call[c].op = "list" /\ ~f.up
         /\ call'[c].code \in Reasons =>
              \E f \in seen[c] : Reason(c, call'[c].code, f)
<1>. DEFINE r == call[c]
<1>1. /\ r \in CallRecords /\ Formed(r) /\ r.pc = "answered" /\ AnswerRight(c)
      /\ CallsFormed
  BY DEF Return, FullInv, Inv, CallsFormed, Answered
<1>2. CASE r.asking = "status" /\ r.code = "ok"
  <2>. DEFINE verdict == Verdict(r.op, r.body)
  <2>1. r.op \in Looking /\ r.value = None
    BY <1>1, <1>2 DEF Formed
  <2>2. verdict # "goOn" /\ Tell(c, verdict)
    BY <1>1, <1>2 DEF Return, CallsFormed, CallRecords
  <2>3. call'[c].code = verdict
    BY <1>1, <2>2 DEF Tell, CallsFormed, New
  <2>4. PICK f \in seen[c] : StatusSeen(c, f)
    BY <1>1, <1>2 DEF AnswerRight
  <2>5. verdict \in {"ok", "already"} => Achieved(c, f)
    BY <2>1, <2>4 DEF Verdict, Achieved, StatusSeen, Looking
  <2>6. verdict \in Reasons => Reason(c, verdict, f)
    BY <2>1, <2>4 DEF Verdict, Reason, Reasons, StatusSeen, Looking
  <2>. QED  BY <2>3, <2>5, <2>6
<1>3. CASE ~(r.asking = "status" /\ r.code = "ok")
  <2>1. Tell(c, Outcome(r.code))
    BY <1>3 DEF Return
  <2>2. call'[c].code = Outcome(r.code)
    BY <1>1, <2>1 DEF Tell, CallsFormed, New
  <2>3. CASE r.code = "lost"
    BY <2>2, <2>3 DEF Outcome, Reasons
  <2>4. CASE r.code # "lost"
    <3>1. r.asking # "status" /\ call'[c].code = r.code
      BY <1>1, <1>3, <2>2, <2>4 DEF AnswerRight, Outcome
    <3>. QED  BY <1>1, <3>1 DEF AnswerRight
  <2>. QED  BY <2>3, <2>4
<1>. QED  BY <1>2, <1>3

\* A command that reports success reports what was so while it ran, whatever
\* happened before, after and between its requests.
THEOREM SuccessTrue == Spec => SuccessIsTrue
<1>1. ASSUME FullInv, [Next]_vars, NEW c \in Commands, Ends(c, {"ok", "already"})
      PROVE  \E f \in seen[c] : \/ Achieved(c, f)
                                \/ call[c].op = "list" /\ ~f.up
  <2>1. Return(c)
    BY <1>1, WhoMoves, HandlersAnswer DEF Ends, Running, FullInv
  <2>. QED  BY <1>1, <2>1, ReturnsTrue DEF Ends
<1>2. FullInv /\ [Next]_vars =>
        [\A c \in Commands : Ends(c, {"ok", "already"}) =>
           \E f \in seen[c] : \/ Achieved(c, f)
                              \/ call[c].op = "list" /\ ~f.up]_vars
  BY <1>1
<1>. QED  BY <1>2, FullInvInit, FullInvNext, PTL DEF Spec, SuccessIsTrue

\* The reason a command gives for failing was so while it ran.
THEOREM FailureTrue == Spec => FailureIsTrue
<1>1. ASSUME FullInv, [Next]_vars, NEW c \in Commands, NEW code \in Reasons,
             Ends(c, {code})
      PROVE  \E f \in seen[c] : Reason(c, code, f)
  <2>1. CASE Return(c)
    BY <1>1, <2>1, ReturnsTrue DEF Ends
  <2>2. CASE code = "noDaemon" /\ daemon # "up"
    BY <1>1, <2>2 DEF Ends, FullInv, Watched, Reason, Fact
  <2>. QED
    BY <1>1, <2>1, <2>2, WhoMoves, HandlersAnswer
       DEF Ends, Running, FullInv, Reasons
<1>2. FullInv /\ [Next]_vars =>
        [\A c \in Commands,
            code \in {"noDaemon", "exists", "noVault", "locked", "wrong",
                     "notFound"} :
           Ends(c, {code}) => \E f \in seen[c] : Reason(c, code, f)]_vars
  BY <1>1 DEF Reasons
<1>. QED  BY <1>2, FullInvInit, FullInvNext, PTL DEF Spec, FailureIsTrue
-----------------------------------------------------------------------------
(* What get says of the secret's date *)

CONSTANTS Instants, Starts, MaxTicks, Minute, Hour, Blur

VARIABLES ticks, secret, backup, givenBackup

Warn == INSTANCE ExpiryWarning

\* What ExpiryWarning assumes of them.
WarnConstants ==
  /\ Instants \subseteq Int /\ Starts \subseteq Int
  /\ MaxDuration \in Nat \ {0}
  /\ {Second, Minute, Hour, Day} \subseteq Nat \ {0}
  /\ Slack \in Nat /\ Blur \in [0..MaxDuration -> 0..Slack]
  /\ Settings \subseteq Int /\ DefaultDays \in Nat \ {0}

Durations == Warn!MinDuration .. MaxDuration

\* What overflows is a duration still, and what does not is left as it is.
LEMMA WrappedIs ==
  ASSUME WarnConstants, NEW n \in Int
  PROVE  /\ Warn!Wrapped(n) \in Durations
         /\ n \in Durations => Warn!Wrapped(n) = n
<1> DEFINE m == 2 * (MaxDuration + 1)
           k == n + MaxDuration + 1
<1>1. m \in Nat /\ 0 < m /\ k \in Int /\ Warn!Wrapped(n) = (k % m) - MaxDuration - 1
  BY DEF WarnConstants, Warn!Wrapped, Warn!MinDuration
<1>2. k % m \in 0..(m - 1)
  BY <1>1, Z3
<1>3. k \in 0..(m - 1) => k % m = k
  BY <1>1, Z3
<1>4. n \in Durations => k \in 0..(m - 1)
  BY DEF WarnConstants, Durations, Warn!MinDuration
<1>5. m = MaxDuration + MaxDuration + 2 /\ MaxDuration \in Nat
  BY DEF WarnConstants
<1> HIDE DEF m
<1>. QED  BY <1>1, <1>2, <1>3, <1>4, <1>5 DEF Durations, Warn!MinDuration

\* time.Time.Sub stops at the ends, and is exact and ordered between them.
LEMMA SubIs ==
  ASSUME WarnConstants, NEW t \in Int, NEW u \in Int
  PROVE  /\ Warn!Sub(t, u) \in Durations
         /\ t - u \in Durations => Warn!Sub(t, u) = t - u
         /\ Warn!Sub(t, u) <= 0 <=> t <= u
         /\ t - u > MaxDuration => Warn!Sub(t, u) = MaxDuration
         /\ \A v \in Int : u <= v => Warn!Sub(t, v) <= Warn!Sub(t, u)
BY DEF WarnConstants, Durations, Warn!Sub, Warn!MinDuration

\* Only the shortest duration has no opposite.
LEMMA NegatedIs ==
  ASSUME WarnConstants, NEW d \in Int, -MaxDuration <= d, d <= MaxDuration
  PROVE  Warn!Negated(d) = -d
<1>1. -d \in Durations /\ -d \in Int
  BY DEF WarnConstants, Durations, Warn!MinDuration
<1>. QED  BY <1>1, WrappedIs DEF Warn!Negated

\* The division that cuts a duration to whole units, of which it may find
\* one too many at the end of the last one.
LEMMA QuotientIs ==
  ASSUME WarnConstants, NEW d \in 0..MaxDuration, NEW u \in Nat \ {0}
  PROVE  /\ Warn!Quotient(d, u) \in Nat
         /\ Warn!Quotient(d, u) * u <= d + Slack
         /\ d < (Warn!Quotient(d, u) + 1) * u
<1>1. d \in Nat /\ Slack \in Nat /\ Blur[d] \in 0..Slack
  BY DEF WarnConstants
<1>2. \E more \in 0..Slack : Warn!Quotient(d, u) = (d + more) \div u
  <2>1. CASE u = Day
    BY <1>1, <2>1 DEF Warn!Quotient
  <2>2. CASE u # Day
    <3>1. Warn!Quotient(d, u) = d \div u
      BY <1>1, <2>2 DEF Warn!Quotient
    <3>. QED  BY <1>1, <3>1
  <2>. QED  BY <2>1, <2>2
<1>3. PICK more \in 0..Slack : Warn!Quotient(d, u) = (d + more) \div u
  BY <1>2
<1> DEFINE n == d + more
           q == n \div u
<1>4. n \in Nat /\ d <= n /\ n <= d + Slack
  BY <1>1
<1> HIDE DEF n
<1>5. q \in Nat /\ q * u <= n /\ n < (q + 1) * u
  BY <1>4, Z3
<1>6. q * u \in Nat /\ (q + 1) * u \in Nat
  BY <1>5, Z3
<1>7. Warn!Quotient(d, u) = q
  BY <1>3 DEF n
<1> HIDE DEF q
<1>. QED  BY <1>1, <1>4, <1>5, <1>6, <1>7

\* What is printed of a duration is its length, cut to a whole unit, or a
\* little more.
LEMMA FormatIs ==
  ASSUME WarnConstants, NEW d \in Int, NEW length \in Nat,
         length <= MaxDuration, d = length \/ d = -length
  PROVE  LET f == Warn!FormatDuration(d)
         IN  f[1] * f[2] <= length + Slack /\ length < (f[1] + 1) * f[2]
<1> DEFINE units == {u \in {Minute, Hour, Day} : Warn!Quotient(length, u) > 0}
           largest == CHOOSE u \in units : \A w \in units : u >= w
<1>1. /\ (IF d < 0 THEN Warn!Negated(d) ELSE d) = length
      /\ {Minute, Hour, Day} \subseteq Nat \ {0}
  BY NegatedIs DEF WarnConstants
<1>2. Warn!FormatDuration(d) =
        IF units = {} THEN <<0, Minute>>
        ELSE <<Warn!Quotient(length, largest), largest>>
  BY <1>1 DEF Warn!FormatDuration
<1>3. CASE units = {}
  <2>1. ~(Warn!Quotient(length, Minute) > 0) /\ Minute \in Nat \ {0}
    BY <1>1, <1>3
  <2>2. Warn!Quotient(length, Minute) = 0
    BY <2>1, QuotientIs
  <2>3. length < (0 + 1) * Minute
    BY <2>1, <2>2, QuotientIs
  <2>4. 0 * Minute <= length + Slack
    BY <2>1 DEF WarnConstants
  <2>. QED  BY <1>2, <1>3, <2>1, <2>3, <2>4
<1>4. CASE units # {}
  <2>1. \E u \in units : \A w \in units : u >= w
    <3>1. units \subseteq {Minute, Hour, Day}
      OBVIOUS
    <3> HIDE DEF units
    <3>. QED  BY <1>1, <1>4, <3>1
  <2>2. largest \in {Minute, Hour, Day}
    BY <2>1
  <2>3. largest \in Nat \ {0}
    BY <1>1, <2>2
  <2> HIDE DEF largest, units
  <2>. QED  BY <1>2, <1>4, <2>3, QuotientIs
<1>. QED  BY <1>3, <1>4

\* The days before expiry from which on a warning is due.
LEMMA DaysAre ==
  ASSUME WarnConstants
  PROVE  /\ Warn!WarningDays \in Nat \ {0}
         /\ PromisedPeriod = Day * Warn!WarningDays
         /\ Day * Warn!WarningDays = Warn!WarningDays * Day
         /\ PromisedPeriod \in Nat
<1>1. /\ Warn!WarningDays \in Nat \ {0}
      /\ PromisedPeriod = Day * Warn!WarningDays
  <2>1. Warn!WarningDays = IF Configured THEN config ELSE DefaultDays
    BY DEF Configured, Warn!WarningDays
  <2>2. Configured => config \in Nat \ {0}
    BY DEF WarnConstants, Configured
  <2>. QED  BY <2>1, <2>2 DEF WarnConstants, PromisedPeriod
<1>2. Day \in Nat
  BY DEF WarnConstants
<1>3. ASSUME NEW a \in Nat, NEW b \in Nat
      PROVE  a * b = b * a /\ a * b \in Nat
  OBVIOUS
<1>. QED  BY <1>1, <1>2, <1>3
-----------------------------------------------------------------------------
\* What get would print of the secret now.
Present == IF secret = Never THEN Warn!Silence ELSE Warn!Warning(secret)

\* A date reaches the secret by whatever way the user's did, less its fraction
\* of a second, what a get has
\* just printed is still so, and what one said since the last change was not
\* worse than what one would say now.
WarnInv ==
  /\ now \in Int
  /\ {given, givenBackup} \subseteq Warn!Expiries \cup {Nothing}
  /\ secret = Warn!Marshalled(given) /\ backup = Warn!Marshalled(givenBackup)
  /\ printed # Nothing => secret # Nothing /\ printed = Present
  /\ last # Nothing =>
       /\ secret # Nothing
       /\ last \in {"ok", "warning", "expired"}
       /\ Rank(last) <= Rank(Present.status)

\* A date without fraction of a second has no more to lose.
LEMMA MarshalledIs ==
  ASSUME WarnConstants, NEW expiry \in Warn!Expiries \cup {Nothing}
  PROVE  /\ Warn!Marshalled(expiry) \in Int \cup {Never, Nothing}
         /\ Warn!Marshalled(Warn!Marshalled(expiry)) = Warn!Marshalled(expiry)
         /\ Warn!Marshalled(Never) = Never /\ Warn!Marshalled(Nothing) = Nothing
         /\ Warn!Marshalled(expiry) # Nothing =>
              Warn!Marshalled(expiry) \in DatesFor(expiry)
<1>1. Warn!Marshalled(Never) = Never /\ Warn!Marshalled(Nothing) = Nothing
  BY DEF Warn!Marshalled
<1>2. CASE expiry \in {Never, Nothing}
  BY <1>1, <1>2 DEF DatesFor
<1>3. CASE expiry \notin {Never, Nothing}
  <2> DEFINE whole == (expiry \div Second) * Second
  <2>1. expiry \in Int /\ Second \in Nat \ {0}
    BY <1>3 DEF WarnConstants, Warn!Expiries
  <2>2. /\ whole \in Int /\ (whole \div Second) * Second = whole
        /\ whole <= expiry /\ expiry < whole + Second
    BY <2>1, Z3
  <2>3. Warn!Marshalled(expiry) = whole
    BY <1>3 DEF Warn!Marshalled
  <2> HIDE DEF whole
  <2>4. whole \in expiry - Second + 1 .. expiry
    BY <2>1, <2>2
  <2>. QED  BY <1>1, <1>3, <2>2, <2>3, <2>4 DEF Warn!Marshalled, DatesFor
<1>. QED  BY <1>2, <1>3

\* The date of a secret that may expire is an instant, and how far it is.
LEMMA PresentIs ==
  ASSUME WarnConstants, WarnInv, secret # Nothing, secret # Never
  PROVE  /\ secret \in Int
         /\ Present = Warn!Warning(secret)
         /\ Warn!Sub(secret, now) \in Int
<1>1. secret \in Int /\ now \in Int
  BY MarshalledIs DEF WarnInv
<1>2. Warn!Sub(secret, now) \in Durations
  BY <1>1, SubIs
<1>3. Warn!Sub(secret, now) \in Int
  BY <1>2 DEF WarnConstants, Durations, Warn!MinDuration
<1>4. Present = Warn!Warning(secret)
  BY DEF Present
<1>. QED  BY <1>1, <1>3, <1>4

\* A get says one of three things, which have their order.
LEMMA StatusIs ==
  ASSUME WarnConstants, WarnInv, secret # Nothing
  PROVE  /\ Present.status \in {"ok", "warning", "expired"}
         /\ Rank(Present.status) \in Int
<1>1. Present.status \in {"ok", "warning", "expired"}
  BY DEF Present, Warn!Silence, Warn!Warning, Warn!Status
<1>. QED  BY <1>1 DEF Rank

\* As time goes by what get would print becomes no better.
LEMMA TickWarns ==
  ASSUME WarnConstants, WarnInv, secret # Nothing, now' = now + 1,
         UNCHANGED <<secret, config>>
  PROVE  Rank(Present.status) <= Rank(Present.status)'
<1>1. CASE secret = Never
  BY <1>1 DEF Present, Warn!Silence, Rank
<1>2. CASE secret # Never
  <2> DEFINE before == Warn!Sub(secret, now)
             after == Warn!Sub(secret, now + 1)
             period == Warn!Wrapped(Warn!WarningDays * Day)
  <2>1. secret \in Int /\ now \in Int
    BY <1>2, PresentIs DEF WarnInv
  <2>2. before \in Int /\ after \in Int /\ after <= before
    <3>1. now + 1 \in Int /\ now <= now + 1
      BY <2>1
    <3>2. before \in Durations /\ after \in Durations /\ after <= before
      BY <2>1, <3>1, SubIs
    <3> HIDE DEF before, after
    <3>. QED  BY <3>2 DEF Durations, Warn!MinDuration, WarnConstants
  <2>3. period \in Int
    <3>1. Warn!WarningDays * Day \in Int
      BY DaysAre
    <3>. QED  BY <3>1, WrappedIs DEF Durations, Warn!MinDuration, WarnConstants
  <2>4. Present.status = Warn!Status(before, Warn!WarningDays)
    BY <1>2 DEF Present, Warn!Warning
  <2>5. Present'.status = Warn!Status(after, Warn!WarningDays)
    BY <1>2 DEF Present, Warn!Warning, Warn!WarningDays, Warn!Status,
                Warn!Sub, Warn!MinDuration, Warn!Wrapped
  <2> HIDE DEF before, after
  <2>6. Rank(Warn!Status(before, Warn!WarningDays)) <=
          Rank(Warn!Status(after, Warn!WarningDays))
    <3>1. before <= 0 => after <= 0
      BY <2>2
    <3>2. before <= period => after <= period
      BY <2>2, <2>3
    <3> HIDE DEF period
    <3>. QED  BY <3>1, <3>2 DEF Warn!Status, Rank, period
  <2>. QED  BY <2>4, <2>5, <2>6
<1>. QED  BY <1>1, <1>2

\* Before the first import no date is anywhere.
LEMMA WarnInvInit ==
  ASSUME WarnConstants, Warn!Init
  PROVE  WarnInv
BY DEF WarnConstants, Warn!Init, WarnInv, Warn!Marshalled

\* Every step keeps the dates, what was printed and what was said last right.
LEMMA WarnInvNext ==
  ASSUME WarnConstants, WarnInv, [Warn!Next]_(Warn!vars)
  PROVE  WarnInv'
<1>1. CASE Warn!Get
  <2>1. /\ secret # Nothing
        /\ printed' = Present /\ last' = Present.status
        /\ UNCHANGED <<now, secret, backup, config, given, givenBackup>>
    BY <1>1 DEF Warn!Get, Warn!clock, Present
  <2>2. Present' = Present
    BY <2>1 DEF Present, Warn!Warning, Warn!WarningDays
  <2>3. last' \in {"ok", "warning", "expired"} /\ Rank(Present.status) \in Int
    BY <2>1, StatusIs
  <2>. QED  BY <2>1, <2>2, <2>3 DEF WarnInv, Rank
<1>2. ASSUME printed' = Nothing, last' = Nothing, UNCHANGED now,
             secret' = Warn!Marshalled(given'), backup' = Warn!Marshalled(givenBackup'),
             {given', givenBackup'} \subseteq Warn!Expiries \cup {Nothing}
      PROVE  WarnInv'
  BY <1>2 DEF WarnInv, Warn!Expiries, Warn!Marshalled
<1>3. ASSUME NEW expiry \in Warn!Expiries, NEW merge \in BOOLEAN,
             Warn!Import(expiry, merge)
      PROVE  WarnInv'
  <2>1. /\ secret' = Warn!Merged(Warn!Marshalled(expiry), merge)
        /\ given' = IF merge /\ secret # Nothing THEN given ELSE expiry
        /\ printed' = Nothing /\ last' = Nothing
        /\ UNCHANGED <<now, backup, givenBackup>>
    BY <1>3 DEF Warn!Import, Warn!Changed, Warn!clock
  <2>2. secret' = Warn!Marshalled(given')
    BY <2>1 DEF Warn!Merged, WarnInv
  <2>3. backup' = Warn!Marshalled(givenBackup')
    BY <2>1 DEF WarnInv
  <2>4. {given', givenBackup'} \subseteq Warn!Expiries \cup {Nothing}
    BY <2>1 DEF WarnInv
  <2>. QED  BY <1>2, <2>1, <2>2, <2>3, <2>4
<1>4. CASE Warn!Export
  <2>1. Present' = Present
    BY <1>4 DEF Warn!Export, Warn!clock, Present, Warn!Warning,
                Warn!WarningDays
  <2>. QED  BY <1>4, <2>1 DEF Warn!Export, Warn!clock, WarnInv, Warn!Expiries,
                              Rank, Warn!Marshalled
<1>5. ASSUME NEW merge \in BOOLEAN, Warn!Restore(merge)
      PROVE  WarnInv'
  <2>1. Warn!Marshalled(backup) = backup
    BY MarshalledIs DEF WarnInv
  <2>2. /\ secret' = Warn!Merged(Warn!Marshalled(backup), merge)
        /\ given' = IF merge /\ secret # Nothing THEN given ELSE givenBackup
        /\ printed' = Nothing /\ last' = Nothing
        /\ UNCHANGED <<now, backup, givenBackup>>
    BY <1>5 DEF Warn!Restore, Warn!Changed, Warn!clock
  <2>3. secret' = Warn!Marshalled(given')
    BY <2>1, <2>2 DEF Warn!Merged, WarnInv
  <2>4. backup' = Warn!Marshalled(givenBackup')
    BY <2>2 DEF WarnInv
  <2>5. {given', givenBackup'} \subseteq Warn!Expiries \cup {Nothing}
    BY <2>2 DEF WarnInv
  <2>. QED  BY <1>2, <2>2, <2>3, <2>4, <2>5
<1>6. CASE Warn!Set \/ Warn!Delete
  BY <1>2, <1>6, MarshalledIs DEF Warn!Set, Warn!Delete, Warn!Changed,
                                   Warn!clock, WarnInv, Warn!Expiries
<1>7. ASSUME NEW file, Warn!EditConfig(file)
      PROVE  WarnInv'
  BY <1>2, <1>7 DEF Warn!EditConfig, Warn!Changed, Warn!clock, WarnInv
<1>8. CASE Warn!Tick
  <2>1. /\ now' = now + 1 /\ printed' = Nothing
        /\ UNCHANGED <<secret, backup, config, given, givenBackup, last>>
    BY <1>8 DEF Warn!Tick
  <2>2. ASSUME last # Nothing
        PROVE  Rank(last) <= Rank(Present.status)'
    <3>1. Rank(last) <= Rank(Present.status) /\ secret # Nothing
      BY <2>2 DEF WarnInv
    <3>2. Rank(Present.status) <= Rank(Present.status)'
      BY <2>1, <3>1, TickWarns
    <3>3. Rank(last) \in Int
      BY <2>2 DEF WarnInv, Rank
    <3>4. Rank(Present.status) \in Int
      BY <3>1, StatusIs
    <3>5. Rank(Present.status)' \in Int
      <4>1. Present'.status \in {"ok", "warning", "expired"}
        BY DEF Present, Warn!Silence, Warn!Warning, Warn!Status
      <4>. QED  BY <4>1 DEF Rank
    <3>. QED  BY <3>1, <3>2, <3>3, <3>4, <3>5
  <2>. QED  BY <2>1, <2>2 DEF WarnInv, Warn!Expiries, Warn!Marshalled
<1>9. CASE UNCHANGED Warn!vars
  <2>1. /\ UNCHANGED <<now, secret, backup, config, printed, given,
                       givenBackup, last>>
    BY <1>9 DEF Warn!vars, Warn!clock
  <2>2. Present' = Present
    BY <2>1 DEF Present, Warn!Warning, Warn!WarningDays
  <2>. QED  BY <2>1, <2>2 DEF WarnInv, Warn!Expiries, Rank, Warn!Marshalled
<1>. QED
  BY <1>1, <1>3, <1>4, <1>5, <1>6, <1>7, <1>8, <1>9 DEF Warn!Next

\* After any imports, exports, restores, edits and waiting, the date a secret
\* has is the one its user gave it last, to the second.
THEOREM WarnInductive ==
  ASSUME WarnConstants
  PROVE  Warn!Spec => []WarnInv
<1>1. Warn!Init => WarnInv
  BY WarnInvInit
<1>2. WarnInv /\ [Warn!Next]_(Warn!vars) => WarnInv'
  BY WarnInvNext
<1>. QED  BY <1>1, <1>2, PTL DEF Warn!Spec

\* What a get has just printed is right for the date the user gave.
LEMMA PresentRight ==
  ASSUME WarnConstants, WarnInv
  PROVE  WarningsAreRight
<1>0. SUFFICES ASSUME printed # Nothing, PromisedPeriod < MaxDuration
               PROVE  /\ printed.status = RightStatus(secret)
                      /\ printed.text # Nothing /\ Length(secret) <= MaxDuration =>
                           /\ printed.text[1] * printed.text[2] <=
                                Length(secret) + Slack
                           /\ Length(secret) <
                                (printed.text[1] + 1) * printed.text[2]
  <2>1. ASSUME printed # Nothing PROVE secret \in DatesFor(given)
    BY <2>1, MarshalledIs DEF WarnInv, DatesFor
  <2>. QED  BY <2>1 DEF WarningsAreRight, RightFor
<1>1. secret # Nothing /\ printed = Present
  BY <1>0 DEF WarnInv
<1>2. CASE secret = Never
  BY <1>1, <1>2 DEF Present, Warn!Silence, RightStatus
<1>3. CASE secret # Never
  <2> DEFINE until == Warn!Sub(secret, now)
             period == Warn!WarningDays * Day
             status == Warn!Status(until, Warn!WarningDays)
             text == CASE status = "expired" ->
                            Warn!FormatDuration(Warn!Negated(until))
                       [] status = "warning" -> Warn!FormatDuration(until)
                       [] OTHER -> Nothing
  <2>1. secret \in Int /\ now \in Int /\ until \in Int
    BY <1>1, <1>3, PresentIs DEF WarnInv
  <2>2. printed = [status |-> status, text |-> text]
    BY <1>1, <1>3 DEF Present, Warn!Warning
  <2>3. /\ until \in Durations
        /\ secret - now \in Durations => until = secret - now
        /\ until <= 0 <=> secret <= now
        /\ secret - now > MaxDuration => until = MaxDuration
    BY <2>1, SubIs
  <2>4. /\ period \in Nat /\ PromisedPeriod = period
        /\ Warn!Wrapped(period) = period
        /\ MaxDuration \in Nat \ {0}
    <3>1. period \in Nat /\ PromisedPeriod = period /\ MaxDuration \in Nat \ {0}
      BY DaysAre DEF WarnConstants
    <3>2. period \in Durations
      BY <1>0, <3>1 DEF Durations, Warn!MinDuration
    <3>. QED  BY <3>1, <3>2, WrappedIs
  <2>5. status = IF until <= 0 THEN "expired"
                 ELSE IF until <= period THEN "warning" ELSE "ok"
    BY <2>4 DEF Warn!Status
  <2>6. until > 0 => (until <= period <=> secret - period <= now)
    <3> HIDE DEF until, period
    <3>. QED  BY <1>0, <2>1, <2>3, <2>4 DEF Durations, Warn!MinDuration
  <2> HIDE DEF until, period
  <2>7. status = RightStatus(secret)
    <3> HIDE DEF status
    <3>. QED  BY <1>3, <2>1, <2>3, <2>4, <2>5, <2>6 DEF RightStatus
  <2>8. ASSUME text # Nothing, Length(secret) <= MaxDuration
        PROVE  /\ text[1] * text[2] <= Length(secret) + Slack
               /\ Length(secret) < (text[1] + 1) * text[2]
    <3>1. /\ Length(secret) \in Nat
          /\ until = secret - now
          /\ until = Length(secret) \/ until = -Length(secret)
          /\ -MaxDuration <= until /\ until <= MaxDuration
      BY <2>1, <2>3, <2>4, <2>8 DEF Length, Durations, Warn!MinDuration
    <3>2. /\ Warn!Negated(until) = -until
          /\ -until = Length(secret) \/ -until = -Length(secret)
          /\ -until \in Int
      BY <2>1, <3>1, NegatedIs
    <3>3. \A d \in {until, -until} :
            LET f == Warn!FormatDuration(d)
            IN  /\ f[1] * f[2] <= Length(secret) + Slack
                /\ Length(secret) < (f[1] + 1) * f[2]
      BY <2>1, <2>8, <3>1, <3>2, FormatIs
    <3>4. text \in {Warn!FormatDuration(until), Warn!FormatDuration(-until)}
      BY <2>8, <3>2
    <3> HIDE DEF text
    <3>. QED  BY <3>3, <3>4
  <2> HIDE DEF text, status
  <2>. QED  BY <1>1, <2>2, <2>7, <2>8
<1>. QED  BY <1>2, <1>3

\* checkExpiryWarning warns from the instant on that the configuration
\* promises, calls a secret expired from the second of its date on, and names
\* the time that has gone by or is left, up to what float64 rounds, whatever
\* the dates, the positive settings and the units.
THEOREM WarningsCorrect ==
  ASSUME WarnConstants
  PROVE  Warn!Spec => []WarningsAreRight
<1>1. WarnInv => WarningsAreRight
  BY PresentRight
<1>. QED  BY <1>1, WarnInductive, PTL

\* No get takes back what an earlier one said of a secret nobody changed since,
\* also where the product of days and hours overflows.
THEOREM WarningsAdvance ==
  ASSUME WarnConstants
  PROVE  Warn!Spec => NeverBack
<1>1. ASSUME WarnInv, [Warn!Next]_(Warn!vars), last # Nothing, last' # Nothing
      PROVE  Rank(last) <= Rank(last')
  <2>1. /\ Rank(last) <= Rank(Present.status)
        /\ last \in {"ok", "warning", "expired"}
    BY <1>1 DEF WarnInv
  <2>2. CASE UNCHANGED last
    <3>1. Rank(last) \in Int
      BY <2>1 DEF Rank
    <3>2. last' = last
      BY <2>2
    <3>. QED  BY <3>1, <3>2
  <2>3. CASE Warn!Get
    BY <2>1, <2>3 DEF Warn!Get, Present
  <2>4. \/ Warn!Get \/ UNCHANGED last \/ last' = Nothing
    BY <1>1 DEF Warn!Next, Warn!vars, Warn!Import, Warn!Export, Warn!Restore,
                Warn!Set, Warn!Delete, Warn!EditConfig, Warn!Tick, Warn!Changed
  <2>. QED  BY <1>1, <2>2, <2>3, <2>4
<1>2. WarnInv /\ [Warn!Next]_(Warn!vars) =>
        [last # Nothing /\ last' # Nothing => Rank(last) <= Rank(last')]_last
  BY <1>1
<1>. QED  BY <1>2, WarnInductive, PTL DEF Warn!Spec, NeverBack
=============================================================================
