---------------------------- MODULE CliCommands -----------------------------
(***************************************************************************)
(* The commands of the command line that work on the vault (init.go and    *)
(* secrets.go), each a process with a user at its terminal.  A command     *)
(* looks whether the daemon runs, some ask for its status, some ask the    *)
(* user, then they send one request (client.go) and tell the user what     *)
(* came back.  Between any two of these the daemon may lock the vault,     *)
(* stop, be killed or start again, other commands may do anything, an      *)
(* answer may be lost, and a request may be handled after its command gave *)
(* up on it.                                                               *)
(*                                                                         *)
(* One request is one step of the daemon: handlers exclude one another     *)
(* (DaemonServer), and what Shutdown, which they do not exclude, does to   *)
(* them is an answer of its own.  The disk works: what failing writes do   *)
(* is told in EncryptedStore.  There is one daemon at a time               *)
(* (DaemonLifecycle).                                                      *)
(***************************************************************************)
EXTENDS Naturals, FiniteSets

CONSTANTS
  Commands,   \* processes, each one command
  Ops,        \* the commands that are run
  Passwords, LongEnough,  \* what users type, and what has 8 characters
  Names,      \* what users type for a secret's path
  Named,      \* the path the request names: client.go puts the name into
              \* the URL as it is, where "?" or "#" ends the path and "//"
              \* and ".." are cleaned away
  Values,
  None

VARIABLES
  daemon,     \* "up", "stopping" or "down"
  password, secrets,  \* the vault on disk; password is None without one
  unlocked,   \* whether the daemon has the key in memory
  call,       \* each command and how far it is
  late,       \* the request a command gave up on and the daemon may handle
  acted,      \* history: commands whose request changed the vault
  seen        \* history: what was so while each command ran

vault == <<password, secrets, unlocked>>
history == <<acted, seen>>
vars == <<daemon, vault, call, late, history>>

Paths == {Named[n] : n \in Names}
NoSecrets == [p \in Paths |-> None]
Held == {p \in Paths : secrets[p] # None}

Looking == {"init", "unlock", "passwd", "status"}  \* ask for the status first
Naming == {"get", "set", "delete"}
Direct == {"lock", "get", "set", "list", "search"}  \* send their request at once
AllOps == Looking \cup Naming \cup Direct

New == [pc |-> "new", op |-> "none", asking |-> "none", name |-> None,
        value |-> None, old |-> None, code |-> "none", body |-> None]

ASSUME CliConstants ==
  /\ Ops \subseteq AllOps
  /\ LongEnough \subseteq Passwords
  /\ Named \in [Names -> Names]
  /\ None \notin Passwords \cup Names \cup Values \cup Commands

\* A command ends and tells its user what came of it.
Tell(c, told) == call' = [call EXCEPT ![c] = [New EXCEPT !.pc = "ended", !.code = told]]

\* A command sends its request.
Send(c, what) ==
  call' = [call EXCEPT ![c].pc = "sent", ![c].asking = what]
-----------------------------------------------------------------------------
(* The commands *)

\* Reading from the user fails at the end of the input: always for the
\* second password of a pipe that held both, because each read buffers what
\* is there and drops it.
ReadFails(c) == Tell(c, "refused")

\* set takes or reads its value before it does anything else.
Begin(c, op, name, value) ==
  /\ call[c] = New
  /\ \/ call' = [call EXCEPT ![c] = [New EXCEPT !.pc = "dial", !.op = op,
                                                !.name = name, !.value = value]]
     \/ op = "set" /\ ReadFails(c)
  /\ UNCHANGED <<daemon, vault, late, acted>>

\* IsDaemonRunning: a daemon that is stopping may have closed its listener.
Dial(c) ==
  /\ call[c].pc = "dial"
  /\ \/ /\ daemon # "down"
        /\ CASE call[c].op \in Looking -> Send(c, "status")
             [] call[c].op \in Direct -> Send(c, call[c].op)
             [] call[c].op = "delete" -> call' = [call EXCEPT ![c].pc = "prompt"]
     \/ daemon # "up" /\ Tell(c, "noDaemon")
  /\ UNCHANGED <<daemon, vault, late, acted>>

\* What a status makes of a command before it asks for passwords.
Verdict(op, status) ==
  CASE op = "status" -> "ok"
    [] op = "init" /\ status.exists -> "exists"
    [] op # "init" /\ ~status.exists -> "noVault"
    [] op = "unlock" /\ status.unlocked -> "already"
    [] op = "passwd" /\ ~status.unlocked -> "locked"
    [] OTHER -> "goOn"

\* The answer to a command's own request, taken from the HTTP status.
OutcomeOfAny(code) == IF code = "lost" THEN "error" ELSE "ok"
Outcome(code) == IF code = "lost" THEN "error" ELSE code

Return(c) ==
  /\ call[c].pc = "answered"
  /\ IF call[c].asking = "status" /\ call[c].code = "ok"
     THEN LET verdict == Verdict(call[c].op, call[c].body)
          IN  IF verdict = "goOn"
              THEN call' = [call EXCEPT ![c].pc = "prompt", ![c].code = "none",
                                        ![c].body = None]
              ELSE Tell(c, verdict)
     ELSE Tell(c, Outcome(call[c].code))
  /\ UNCHANGED <<daemon, vault, late, acted>>

TooShortIfEmpty(p) == p = None
TooShort(p) == p \notin LongEnough

\* The user has typed what was asked for.
Submit(c, old, new) ==
  call' = [call EXCEPT ![c].pc = "sent", ![c].asking = call[c].op,
                       ![c].old = old, ![c].value = new]

AtPrompt(c, op) == call[c].pc = "prompt" /\ call[c].op = op

Confirmed(new, again) == ~TooShort(new) /\ new = again

EnterForInit(c, new, again) ==
  /\ AtPrompt(c, "init")
  /\ IF Confirmed(new, again) THEN Submit(c, None, new) ELSE Tell(c, "refused")

EnterForUnlock(c, entered) ==
  /\ AtPrompt(c, "unlock")
  /\ Submit(c, None, entered)

EnterForPasswd(c, old, new, again) ==
  /\ AtPrompt(c, "passwd")
  /\ IF Confirmed(new, again) THEN Submit(c, old, new) ELSE Tell(c, "refused")

EnterNothing(c) == call[c].pc = "prompt" /\ ReadFails(c)

Enter(c) ==
  /\ \/ \E new, again \in Passwords : EnterForInit(c, new, again)
     \/ \E entered \in Passwords : EnterForUnlock(c, entered)
     \/ \E old, new, again \in Passwords : EnterForPasswd(c, old, new, again)
     \/ EnterNothing(c)
  /\ UNCHANGED <<daemon, vault, late, acted>>

Yes(response) == response \in {"y", "yes"}

AnswerDelete(c, response) ==
  /\ AtPrompt(c, "delete")
  /\ IF Yes(response) THEN Send(c, "delete") ELSE Tell(c, "cancelled")
  /\ UNCHANGED <<daemon, vault, late, acted>>

\* The connection breaks, or the client's 30 seconds are over, which the
\* handler does not notice.
LostAsNotRunning(c) ==
  /\ call[c].pc \in {"sent", "answered"}
  /\ late' = [late EXCEPT ![c] = IF call[c].pc = "sent" THEN call[c] ELSE None]
  /\ Tell(c, "noDaemon")
  /\ UNCHANGED <<daemon, vault, acted>>
Lost(c) ==
  /\ call[c].pc \in {"sent", "answered"}
  /\ \/ UNCHANGED late
     \/ /\ call[c].pc = "sent" /\ daemon # "down"
        /\ late' = [late EXCEPT ![c] = call[c]]
  /\ Tell(c, "error")
  /\ UNCHANGED <<daemon, vault, acted>>
-----------------------------------------------------------------------------
(* The daemon's handlers *)

Request(c) == IF late[c] # None THEN late[c] ELSE call[c]
Pending(c) == late[c] # None \/ call[c].pc = "sent"

Handles(c, kinds) ==
  /\ daemon # "down"
  /\ Pending(c) /\ Request(c).asking \in kinds

\* Nobody hears the answer to a late request.
Reply(c, code, body) ==
  IF late[c] # None
  THEN late' = [late EXCEPT ![c] = None] /\ UNCHANGED call
  ELSE /\ call' = [call EXCEPT ![c].pc = "answered", ![c].code = code,
                               ![c].body = body]
       /\ UNCHANGED late

Answer(c, code) == Reply(c, code, None)
Refuse(c, code) == Answer(c, code) /\ UNCHANGED vault

Status(c) ==
  /\ Handles(c, {"status"})
  /\ Reply(c, "ok", [exists |-> password # None, unlocked |-> unlocked])
  /\ UNCHANGED vault

InitAnyway(c) ==
  /\ Handles(c, {"init"})
  /\ password' = Request(c).value
  /\ secrets' = NoSecrets /\ unlocked' = TRUE
  /\ Answer(c, "ok")
InitVault(c) ==
  /\ Handles(c, {"init"})
  /\ IF TooShort(Request(c).value) THEN Refuse(c, "invalid")
     ELSE IF password # None THEN Refuse(c, "exists")
     ELSE /\ password' = Request(c).value
          /\ secrets' = NoSecrets /\ unlocked' = TRUE
          /\ Answer(c, "ok")

Unlock(c) ==
  /\ Handles(c, {"unlock"})
  /\ IF password = None THEN Refuse(c, "noVault")
     ELSE IF Request(c).value # password THEN Refuse(c, "wrong")
     ELSE /\ unlocked' = TRUE
          /\ UNCHANGED <<password, secrets>>
          /\ Answer(c, "ok")

Lock(c) ==
  /\ Handles(c, {"lock"})
  /\ unlocked' = FALSE
  /\ UNCHANGED <<password, secrets>>
  /\ Answer(c, "ok")

\* A Shutdown that locks the vault between the check and ChangePassword
\* makes the handler panic (DaemonServer): no answer.
ChangePassword(c) ==
  /\ Handles(c, {"passwd"})
  /\ IF TooShort(Request(c).value) THEN Refuse(c, "invalid")
     ELSE IF ~unlocked
     THEN \/ Refuse(c, "locked")
          \/ daemon = "stopping" /\ Refuse(c, "lost")
     ELSE IF Request(c).old # password THEN Refuse(c, "wrong")
     ELSE /\ password' = Request(c).value
          /\ UNCHANGED <<secrets, unlocked>>
          /\ Answer(c, "ok")

Path(c) == Named[Request(c).name]

GetUnchecked(c) ==
  /\ Handles(c, {"get"})
  /\ IF ~unlocked \/ secrets[Path(c)] = None THEN Answer(c, "notFound")
     ELSE Reply(c, "ok", secrets[Path(c)])
  /\ UNCHANGED vault
Get(c) ==
  /\ Handles(c, {"get"})
  /\ IF ~unlocked THEN Answer(c, "locked")
     ELSE IF secrets[Path(c)] = None THEN Answer(c, "notFound")
     ELSE Reply(c, "ok", secrets[Path(c)])
  /\ UNCHANGED vault

\* delete does not ask whether there is something to delete.
Change(c) ==
  /\ Handles(c, {"set", "delete"})
  /\ IF ~unlocked THEN Refuse(c, "locked")
     ELSE /\ secrets' = [secrets EXCEPT ![Path(c)] =
                 IF Request(c).asking = "set" THEN Request(c).value ELSE None]
          /\ UNCHANGED <<password, unlocked>>
          /\ Answer(c, "ok")

\* The listing reads one secret after the other and leaves out what a
\* Shutdown keeps it from reading; the search only has the names.
List(c) ==
  /\ Handles(c, {"list", "search"})
  /\ \/ unlocked /\ Reply(c, "ok", Held)
     \/ ~unlocked /\ Answer(c, "locked")
     \/ /\ daemon = "stopping" /\ Request(c).asking = "list"
        /\ \E some \in SUBSET Held : Reply(c, "ok", some)
  /\ UNCHANGED vault

\* Something else fails before the vault is changed: no randomness for a
\* salt, or a Shutdown between the handler's check and its call.
Fails(c) == Handles(c, AllOps \ {"status"}) /\ Refuse(c, "error")

Handle(c) ==
  /\ \/ Status(c) \/ InitVault(c) \/ Unlock(c) \/ Lock(c) \/ ChangePassword(c)
     \/ Get(c) \/ Change(c) \/ List(c) \/ Fails(c)
  /\ acted' = IF vault' # vault THEN acted \cup {c} ELSE acted
  /\ UNCHANGED <<daemon>>
-----------------------------------------------------------------------------
(* The daemon's own life *)

AutoLock ==
  /\ daemon # "down" /\ unlocked
  /\ unlocked' = FALSE
  /\ UNCHANGED <<daemon, password, secrets, call, late, acted>>

\* Shutdown locks the vault first, and handles requests for a while yet.
Stop ==
  /\ daemon = "up"
  /\ daemon' = "stopping" /\ unlocked' = FALSE
  /\ UNCHANGED <<password, secrets, call, late, acted>>

\* The process is gone, at the end of Shutdown or killed, and with it the
\* key, the late requests and the connections of those that had one.
Exit ==
  /\ daemon # "down"
  /\ daemon' = "down" /\ unlocked' = FALSE
  /\ late' = [c \in Commands |-> None]
  /\ \E cut \in SUBSET {c \in Commands : call[c].pc = "sent"} :
       call' = [c \in Commands |->
         IF c \in cut THEN [call[c] EXCEPT !.pc = "answered", !.code = "lost"]
                      ELSE call[c]]
  /\ UNCHANGED <<password, secrets, acted>>

Start ==
  /\ daemon = "down"
  /\ daemon' = "up"
  /\ UNCHANGED <<vault, call, late, acted>>
-----------------------------------------------------------------------------
(* What was so while a command ran, as far as it can tell of it *)

Fact(c) ==
  [up |-> daemon = "up", unlocked |-> unlocked,
   password |-> IF call[c].op \in Looking THEN password ELSE None,
   held |-> CASE call[c].op \in Naming -> secrets[Named[call[c].name]]
              [] call[c].op \in {"list", "search"} -> Held
              [] OTHER -> None]

Running(c) == call[c].pc \notin {"new", "ended"}

Witness ==
  seen' = [c \in Commands |->
    IF ~Running(c)' THEN {}
    ELSE (IF Running(c) THEN seen[c] ELSE {}) \cup {Fact(c)'}]
-----------------------------------------------------------------------------
Init ==
  /\ daemon \in {"up", "down"}
  /\ password \in LongEnough \cup {None}
  /\ secrets \in [Paths -> Values \cup {None}]
  /\ password = None => secrets = NoSecrets
  /\ unlocked \in {FALSE, daemon = "up" /\ password # None}
  /\ call = [c \in Commands |-> New]
  /\ late = [c \in Commands |-> None]
  /\ acted = {} /\ seen = [c \in Commands |-> {}]

\* What a command is started with.
Arguments(op) ==
  [name : IF op \in Naming THEN Names ELSE {None},
   value : IF op = "set" THEN Values ELSE {None}]

Step(c) ==
  \/ Dial(c) \/ Return(c) \/ Enter(c) \/ Lost(c)
  \/ \E response \in {"y", "n", ""} : AnswerDelete(c, response)

Done ==
  /\ \A c \in Commands : call[c].pc = "ended"
  /\ UNCHANGED vars

Next ==
  \/ /\ \/ \E c \in Commands, op \in Ops : \E a \in Arguments(op) :
             Begin(c, op, a.name, a.value)
        \/ \E c \in Commands : Step(c) \/ Handle(c)
        \/ AutoLock \/ Stop \/ Exit \/ Start
     /\ Witness
  \/ Done

Spec == Init /\ [][Next]_vars
-----------------------------------------------------------------------------
(* Properties *)

\* Every variable has its type, the vault's password is long enough, only a
\* vault that exists can be unlocked, and only by a daemon that runs.
TypeOK ==
  /\ daemon \in {"up", "stopping", "down"}
  /\ password \in LongEnough \cup {None}
  /\ secrets \in [Paths -> Values \cup {None}]
  /\ unlocked => password # None /\ daemon # "down"
  /\ \A c \in Commands :
       /\ late[c] # None => call[c].pc = "ended" /\ call[c].code = "error"
       /\ call[c].pc \in {"sent", "answered"} => call[c].asking \in AllOps
  /\ acted \subseteq Commands

\* What command c says when it succeeds with this answer is so in fact f.
Achieved(c, f) ==
  CASE call[c].op = "init" -> f.password = call[c].value /\ f.unlocked
    [] call[c].op = "unlock" -> f.unlocked /\ call[c].value \in {None, f.password}
    [] call[c].op = "lock" -> ~f.unlocked
    [] call[c].op = "passwd" -> f.password = call[c].value
    [] call[c].op = "status" -> f.unlocked = call[c].body.unlocked
                                /\ (f.password # None) = call[c].body.exists
    [] call[c].op = "set" -> f.held = call[c].value
    [] call[c].op = "delete" -> f.held = None
    [] OTHER -> f.held = call[c].body /\ f.unlocked

Ends(c, codes) == Running(c) /\ call'[c].pc = "ended" /\ call'[c].code \in codes

\* A command that reports success reports what was so at some time while it
\* ran, whatever happened before, after and between its requests.  A listing
\* may be partial if the daemon was being stopped.
SuccessIsTrue ==
  [][\A c \in Commands : Ends(c, {"ok", "already"}) =>
       \E f \in seen[c] : \/ Achieved(c, f)
                          \/ call[c].op = "list" /\ ~f.up]_vars

\* The reason a command gives for failing was so at some time while it ran.
Reason(c, code, f) ==
  CASE code = "noDaemon" -> ~f.up
    [] code = "exists" -> f.password # None
    [] code = "noVault" -> f.password = None
    [] code = "locked" -> ~f.unlocked
    [] code = "wrong" -> f.password \notin
         {IF call[c].op = "passwd" THEN call[c].old ELSE call[c].value}
    [] code = "notFound" -> f.held = None
    [] OTHER -> TRUE

FailureIsTrue ==
  [][\A c \in Commands, code \in {"noDaemon", "exists", "noVault", "locked",
                                  "wrong", "notFound"} :
       Ends(c, {code}) => \E f \in seen[c] : Reason(c, code, f)]_vars

\* A command changes the vault only if it reports success or that it does
\* not know (a lost answer): no refusal, cancellation or failure it gives a
\* reason for leaves something behind, and none does so later.
DefiniteFailures ==
  \A c \in acted : call[c].pc = "ended" => call[c].code \in {"ok", "error"}

\* Once there is a vault, its password changes only at the request of a user
\* who gave the old one: of several inits that found no vault, one makes it.
PasswordIsHandedOn ==
  [][password # None /\ password' # password =>
       \E c \in Commands :
         /\ Pending(c) /\ Request(c).asking = "passwd"
         /\ Request(c).old = password /\ Request(c).value = password']_vars
=============================================================================
