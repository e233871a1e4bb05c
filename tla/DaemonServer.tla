---------------------------- MODULE DaemonServer ----------------------------
(***************************************************************************)
(* The daemon's HTTP server (internal/daemon/server.go): requests, each in *)
(* a goroutine of its own, the auto-lock timers with their callbacks, and  *)
(* Shutdown, all working on one store.                                     *)
(*                                                                         *)
(* Handlers hold Server.mu, for reading or for writing, from Begin to      *)
(* Finish; the auto-lock callback takes it for writing; Shutdown takes it  *)
(* not at all.  One call into the store is one step, for the store has its *)
(* own mutex: the calls are the actions of VaultLock, which EncryptedStore *)
(* implements (module StoreCalls).  A request runs once, so it also names  *)
(* the timer it may start.  Time is left out: an armed timer may expire at *)
(* any moment.                                                             *)
(*                                                                         *)
(* A definition named as a variation of the next one (AfterStopIgnored,    *)
(* AfterStop) is a mistake the code could have made, kept to show that a   *)
(* property would notice it; no action uses it.                            *)
(***************************************************************************)
EXTENDS Naturals, FiniteSets

CONSTANTS Requests,   \* requests, and the timers they start
          Kinds,      \* the kinds of request the clients send
          SaveErrors, \* whether writing a file may fail
          Signals,    \* whether the daemon may be signalled to stop
          None        \* no request, no timer

VARIABLES
  writer, readers,          \* Server.mu
  kind, pc,                 \* each request and how far it is
  exists, unlocked, dirty,  \* the store
  timer,                    \* each request's time.Timer
  autoLockTimer,            \* the timer Server.autoLockTimer points to
  down,                     \* each goroutine that runs Shutdown
  closed, exited,           \* the listener is closed; the process is gone
  lockFailed                \* history: a vault stayed unlocked because a
                            \* save failed, and no timer was started since

Store == INSTANCE VaultLock

mu     == <<writer, readers>>
store  == <<exists, unlocked, dirty>>
timers == <<timer, autoLockTimer>>
ending == <<down, closed, exited>>
vars == <<mu, kind, pc, store, timers, ending, lockFailed>>

\* handleSecrets, handleSearch and handleExport take the mutex for reading;
\* handleStop takes it not at all.
ReadKinds == {"list"}
WriteKinds == {"init", "unlock", "lock", "passwd", "get", "change", "import"}
NeedUnlocked == {"list", "passwd", "get", "change", "import"}

Run == "run"
Stoppers == Requests \cup {Run}

ASSUME ServerConstants ==
  /\ Kinds \subseteq ReadKinds \cup WriteKinds \cup {"stop"}
  /\ SaveErrors \in BOOLEAN
  /\ Signals \in BOOLEAN
  /\ None \notin Requests
  /\ Run \notin Requests

MuFree == writer = None /\ readers = {}
Holds(r) == writer = r \/ r \in readers
Live(t) == timer[t] \in {"armed", "fired"}
ShuttingDown == \E s \in Stoppers : down[s] # "no"
-----------------------------------------------------------------------------
(* Pieces of handlers *)

\* time.Timer.Stop: an armed timer will not fire; one that has fired has its
\* callback running already, which nothing stops.
AfterStopIgnored == timer
AfterStop ==
  [t \in Requests |->
    IF t = autoLockTimer /\ timer[t] = "armed" THEN "stopped" ELSE timer[t]]

\* The deferred Unlock or RUnlock of Server.mu.
ReleaseForgetsReaders(r) ==
  /\ writer' = IF writer = r THEN None ELSE writer
  /\ UNCHANGED readers
Release(r) ==
  /\ writer' = IF writer = r THEN None ELSE writer
  /\ readers' = readers \ {r}

Finish(r) ==
  /\ pc' = [pc EXCEPT ![r] = "done"]
  /\ Release(r)

\* A handler answers early: no auto-lock reset.
AnswerOnly(r) == Finish(r) /\ UNCHANGED <<timers, lockFailed>>

\* A handler goes on to resetAutoLock.
GoOnToReset(r) ==
  /\ pc' = [pc EXCEPT ![r] = "stopping"]
  /\ UNCHANGED <<mu, timers, lockFailed>>

\* EncryptedStore.Lock; if saving fails the vault stays unlocked.
StoreLock ==
  \/ Store!LockSucceeds /\ UNCHANGED lockFailed
  \/ SaveErrors /\ Store!LockFails /\ lockFailed' = TRUE
-----------------------------------------------------------------------------
(* Requests *)

Arrive(r, k) ==
  /\ ~exited /\ ~closed
  /\ pc[r] = "new"
  /\ kind' = [kind EXCEPT ![r] = k]
  /\ pc' = [pc EXCEPT ![r] = "waiting"]
  /\ UNCHANGED <<mu, store, timers, ending, lockFailed>>

\* What a handler asks of the store before it does its work.
MayAct(r) ==
  CASE kind[r] = "init" -> ~exists
    [] kind[r] = "unlock" -> exists
    [] kind[r] = "lock" -> TRUE
    [] kind[r] \in NeedUnlocked -> unlocked

\* A handler gets Server.mu and looks at the store; if the request may not
\* go on it is answered at once.
Begin(r) ==
  /\ ~exited
  /\ pc[r] = "waiting"
  /\ kind[r] # "stop"
  /\ writer = None
  /\ kind[r] \in WriteKinds => readers = {}
  /\ IF MayAct(r)
     THEN /\ pc' = [pc EXCEPT ![r] = "acting"]
          /\ IF kind[r] \in WriteKinds
             THEN writer' = r /\ UNCHANGED readers
             ELSE readers' = readers \cup {r} /\ UNCHANGED writer
     ELSE pc' = [pc EXCEPT ![r] = "done"] /\ UNCHANGED mu
  /\ UNCHANGED <<kind, store, timers, ending, lockFailed>>

Acting(r, k) ==
  /\ ~exited
  /\ pc[r] = "acting" /\ kind[r] = k
  /\ UNCHANGED <<kind, ending>>

\* A failed save leaves the new vault unlocked, with or without its metadata
\* file, and the handler returns before it resets the timer.
ActInit(r) ==
  /\ Acting(r, "init")
  /\ \/ Store!CreateSucceeds /\ GoOnToReset(r)
     \/ /\ SaveErrors
        /\ Store!CreateFails
        /\ lockFailed' = TRUE
        /\ Finish(r)
        /\ UNCHANGED timers

ActUnlockWithoutReset(r) ==
  /\ Acting(r, "unlock")
  /\ Store!UnlockSucceeds \/ Store!UnlockFails
  /\ AnswerOnly(r)
\* The password is right, or wrong, or right and the vault file unreadable.
ActUnlock(r) ==
  /\ Acting(r, "unlock")
  /\ \/ Store!UnlockSucceeds /\ GoOnToReset(r)
     \/ Store!UnlockFails /\ AnswerOnly(r)

ActLock(r) ==
  /\ Acting(r, "lock")
  /\ timer' = AfterStop
  /\ StoreLock
  /\ Finish(r)
  /\ UNCHANGED autoLockTimer

\* ChangePassword takes s.crypto to be there: if Shutdown has locked the
\* vault since Begin it panics, and net/http recovers.
ActPassword(r) ==
  /\ Acting(r, "passwd")
  /\ IF unlocked
     THEN /\ Finish(r)
          /\ \/ Store!PasswordSucceeds
             \/ SaveErrors /\ Store!PasswordFails
             \/ UNCHANGED store
     ELSE pc' = [pc EXCEPT ![r] = "panicked"] /\ Release(r) /\ UNCHANGED store
  /\ UNCHANGED <<timers, lockFailed>>

\* The secret is found and the vault still unlocked, or not.
ActGet(r) ==
  /\ Acting(r, "get")
  /\ \/ unlocked /\ GoOnToReset(r)
     \/ AnswerOnly(r)
  /\ UNCHANGED store

\* The same for a listing, a search (whose pattern may be invalid) and an
\* export.
ActList(r) ==
  /\ Acting(r, "list")
  /\ \/ unlocked /\ GoOnToReset(r)
     \/ AnswerOnly(r)
  /\ UNCHANGED store

\* Set or Delete: saved, or changed in memory only, or refused.
ActChange(r) ==
  /\ Acting(r, "change")
  /\ \/ Store!ChangeSucceeds /\ GoOnToReset(r)
     \/ SaveErrors /\ Store!ChangeFails /\ AnswerOnly(r)
     \/ UNCHANGED store /\ AnswerOnly(r)

\* One entry of an import; errors are counted and the loop goes on.
ActImportEntry(r) ==
  /\ Acting(r, "import")
  /\ Store!ChangeSucceeds \/ (SaveErrors /\ Store!ChangeFails)
  /\ UNCHANGED <<pc, mu, timers, lockFailed>>

ActImportEnds(r) ==
  /\ Acting(r, "import")
  /\ GoOnToReset(r)
  /\ UNCHANGED store

\* resetAutoLock: stop the timer that Server.autoLockTimer points to ...
ResetStops(r) ==
  /\ ~exited
  /\ pc[r] = "stopping"
  /\ timer' = AfterStop
  /\ pc' = [pc EXCEPT ![r] = "arming"]
  /\ UNCHANGED <<mu, kind, store, autoLockTimer, ending, lockFailed>>

\* ... and start a new one; then the handler answers.
ResetArms(r) ==
  /\ ~exited
  /\ pc[r] = "arming"
  /\ timer' = [timer EXCEPT ![r] = "armed"]
  /\ autoLockTimer' = r
  /\ lockFailed' = FALSE
  /\ Finish(r)
  /\ UNCHANGED <<kind, store, ending>>

\* handleStop answers, and starts a goroutine that will call Shutdown.
ActStop(r) ==
  /\ ~exited
  /\ pc[r] = "waiting" /\ kind[r] = "stop"
  /\ pc' = [pc EXCEPT ![r] = "done"]
  /\ down' = [down EXCEPT ![r] = "stopTimer"]
  /\ UNCHANGED <<mu, kind, store, timers, closed, exited, lockFailed>>

Handle(r) ==
  \/ Begin(r)
  \/ ActInit(r) \/ ActUnlock(r) \/ ActLock(r) \/ ActPassword(r)
  \/ ActGet(r) \/ ActList(r) \/ ActChange(r)
  \/ ActImportEnds(r)
  \/ ResetStops(r) \/ ResetArms(r)
  \/ ActStop(r)
-----------------------------------------------------------------------------
(* The auto-lock timer *)

\* The duration is over: the callback's goroutine starts.
Expire(t) ==
  /\ ~exited
  /\ timer[t] = "armed"
  /\ timer' = [timer EXCEPT ![t] = "fired"]
  /\ UNCHANGED <<mu, kind, pc, store, autoLockTimer, ending, lockFailed>>

AutoLockAsReader(t) ==
  /\ ~exited
  /\ timer[t] = "fired"
  /\ writer = None
  /\ timer' = [timer EXCEPT ![t] = "over"]
  /\ StoreLock
  /\ UNCHANGED <<mu, kind, pc, autoLockTimer, ending>>
\* The callback gets Server.mu and locks the vault, whatever happened to the
\* timer since it expired.
AutoLock(t) ==
  /\ ~exited
  /\ timer[t] = "fired"
  /\ MuFree
  /\ timer' = [timer EXCEPT ![t] = "over"]
  /\ StoreLock
  /\ UNCHANGED <<mu, kind, pc, autoLockTimer, ending>>
-----------------------------------------------------------------------------
(* Shutdown, by the goroutine of a stop request or by Run *)

\* Run is signalled, or Serve returns because the listener was closed.
RunStops ==
  /\ ~exited
  /\ down[Run] = "no"
  /\ Signals \/ closed
  /\ down' = [down EXCEPT ![Run] = "stopTimer"]
  /\ UNCHANGED <<mu, kind, pc, store, timers, closed, exited, lockFailed>>

ShutdownStopsTimer(s) ==
  /\ ~exited
  /\ down[s] = "stopTimer"
  /\ timer' = AfterStop
  /\ down' = [down EXCEPT ![s] = "lockStore"]
  /\ UNCHANGED <<mu, kind, pc, store, autoLockTimer, closed, exited,
                 lockFailed>>

\* A failing save is only logged.
ShutdownLocksStore(s) ==
  /\ ~exited
  /\ down[s] = "lockStore"
  /\ StoreLock
  /\ down' = [down EXCEPT ![s] = "closeServer"]
  /\ UNCHANGED <<mu, kind, pc, timers, closed, exited>>

ShutdownClosesServer(s) ==
  /\ ~exited
  /\ down[s] = "closeServer"
  /\ closed' = TRUE
  /\ down' = [down EXCEPT ![s] = "drain"]
  /\ UNCHANGED <<mu, kind, pc, store, timers, exited, lockFailed>>

\* http.Server.Shutdown waits for the open requests for five seconds and no
\* longer; then the process removes its files and exits.
Exit(s) ==
  /\ ~exited
  /\ down[s] = "drain"
  /\ exited' = TRUE
  /\ UNCHANGED <<mu, kind, pc, store, timers, down, closed, lockFailed>>

Shutdown(s) ==
  \/ ShutdownStopsTimer(s) \/ ShutdownLocksStore(s)
  \/ ShutdownClosesServer(s) \/ Exit(s)
-----------------------------------------------------------------------------
Init ==
  /\ writer = None /\ readers = {}
  /\ kind = [r \in Requests |-> None]
  /\ pc = [r \in Requests |-> "new"]
  /\ exists \in BOOLEAN /\ unlocked = FALSE /\ dirty = FALSE
  /\ timer = [r \in Requests |-> "none"]
  /\ autoLockTimer = None
  /\ down = [s \in Stoppers |-> "no"]
  /\ closed = FALSE /\ exited = FALSE
  /\ lockFailed = FALSE

\* The daemon is gone, or has nothing left to do.
Quiet ==
  /\ \/ exited
     \/ \A r \in Requests : pc[r] \in {"done", "panicked"} /\ ~Live(r)
  /\ UNCHANGED vars

Next ==
  \/ \E r \in Requests, k \in Kinds : Arrive(r, k)
  \/ \E r \in Requests : Handle(r) \/ ActImportEntry(r)
  \/ \E t \in Requests : Expire(t) \/ AutoLock(t)
  \/ RunStops
  \/ \E s \in Stoppers : Shutdown(s)
  \/ Quiet

Spec == Init /\ [][Next]_vars

\* The Go scheduler runs every goroutine, a mutex is handed to whoever waits
\* for it, an import has finitely many entries and a timer expires.  Nobody
\* is obliged to send a request or a signal.
Fairness ==
  /\ \A r \in Requests : WF_vars(Handle(r))
  /\ \A t \in Requests : WF_vars(Expire(t)) /\ WF_vars(AutoLock(t))
  /\ WF_vars(RunStops /\ closed)
  /\ \A s \in Stoppers : WF_vars(Shutdown(s))

FairSpec == Spec /\ Fairness
-----------------------------------------------------------------------------
(* Properties *)

\* Every variable has its type, and a request that has arrived has a kind
\* the server routes.
TypeOK ==
  /\ writer \in Requests \cup {None}
  /\ readers \subseteq Requests
  /\ kind \in [Requests -> Kinds \cup {None}]
  /\ pc \in [Requests -> {"new", "waiting", "acting", "stopping", "arming",
                          "done", "panicked"}]
  /\ exists \in BOOLEAN /\ unlocked \in BOOLEAN /\ dirty \in BOOLEAN
  /\ timer \in [Requests -> {"none", "armed", "fired", "stopped", "over"}]
  /\ autoLockTimer \in Requests \cup {None}
  /\ down \in [Stoppers -> {"no", "stopTimer", "lockStore", "closeServer",
                            "drain"}]
  /\ closed \in BOOLEAN /\ exited \in BOOLEAN /\ lockFailed \in BOOLEAN
  /\ \A r \in Requests : pc[r] # "new" => kind[r] \in Kinds

\* Server.mu is held by one writer or by readers, and by exactly the requests
\* between Begin and their answer.
InHandler(r) == pc[r] \in {"acting", "stopping", "arming"}

LockDiscipline ==
  /\ writer # None => readers = {}
  /\ \A r \in Requests :
       /\ InHandler(r) => kind[r] \in ReadKinds \cup WriteKinds
       /\ writer = r <=> InHandler(r) /\ kind[r] \in WriteKinds
       /\ r \in readers <=> InHandler(r) /\ kind[r] \in ReadKinds

\* An unlocked vault does not stay open: whenever no handler is at work, an
\* unlocked vault has a timer that will lock it, or one that has expired and
\* is about to.  The exceptions are a Shutdown under way and a vault that a
\* failed save kept unlocked.
UnlockedIsGuarded ==
  unlocked /\ MuFree /\ ~ShuttingDown /\ ~lockFailed =>
    \E t \in Requests : Live(t)

\* The locked check holds until it is used: a handler that saw an unlocked
\* vault works on an unlocked vault, unless a Shutdown is under way.
CheckedStaysUnlocked ==
  ~ShuttingDown =>
    \A r \in Requests :
      pc[r] = "acting" /\ kind[r] \in NeedUnlocked => unlocked

\* Server.mu comes back: whoever holds it, for reading or for writing, is a
\* handler that has not answered yet and has a next step.  Of what its check
\* saw this needs whether the vault file exists: no call that others make
\* meanwhile, Shutdown's included, can make a vault appear before an init or
\* vanish before an unlock.  It does not need the vault to be unlocked still
\* (which Shutdown may undo, see CheckedStaysUnlocked): a handler that finds
\* it locked is refused by the store, or panics, and lets go either way.
CanGoOn(r) ==
  \/ pc[r] \in {"stopping", "arming"}
  \/ /\ pc[r] = "acting"
     /\ kind[r] = "init" => ~exists
     /\ kind[r] = "unlock" => exists

MutexComesBack == \A r \in Requests : Holds(r) => CanGoOn(r)

\* What every step preserves: the above, and that an unlocked vault without
\* a live timer has a handler on its way to start one.
ResetComing ==
  unlocked /\ ~ShuttingDown /\ ~lockFailed =>
    \/ \E t \in Requests : Live(t)
    \/ \E r \in Requests : pc[r] \in {"stopping", "arming"}

ServerInv ==
  /\ TypeOK
  /\ LockDiscipline
  /\ CheckedStaysUnlocked
  /\ ResetComing

\* Every request that arrives is answered, unless the daemon exits first:
\* no handler leaves Server.mu held.
Answered ==
  \A r \in Requests :
    pc[r] = "waiting" ~> pc[r] \in {"done", "panicked"} \/ exited

\* When the requests stop coming, the vault ends up locked for good.
EventuallyLocked == <>[](~unlocked \/ exited)
=============================================================================
