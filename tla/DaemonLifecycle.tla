-------------------------- MODULE DaemonLifecycle --------------------------
(***************************************************************************)
(* Daemons coming and going on a Unix system: the commands "daemon start", *)
(* "daemon stop" and "daemon run" (cmd/omnivault/daemon.go), what Run and  *)
(* Shutdown do around serving (internal/daemon/server.go), and the two     *)
(* files they share, the socket and the PID file.  Both files are created, *)
(* looked up and removed by name, whoever made them.                       *)
(*                                                                         *)
(* A daemon is named by the command that started it.  What a daemon does   *)
(* while it serves is module DaemonServer; the two modules meet in the     *)
(* stop request and in Shutdown.  Stop requests and Run may each run       *)
(* Shutdown in the same process.                                           *)
(*                                                                         *)
(* A definition named as a variation of the next one (CleanUpNothing,      *)
(* CleanUp) is a mistake the code could have made, kept to show that a     *)
(* property would notice it; no action uses it.                            *)
(*                                                                         *)
(* What it is all for is stated in DaemonRequirements.                     *)
(***************************************************************************)
EXTENDS DaemonRequirements, Naturals, FiniteSets

CONSTANTS Kinds,      \* which of the three commands they are
          PidErrors,  \* whether writing the PID file may fail
          MaxCrashes, \* bound: daemons that are killed
          None        \* no file

VARIABLES
  kind, pc,         \* each command and how far it is
  target            \* the daemon a stop is asking or about to signal

cli   == <<kind, pc, target>>
files == <<socket, pidFile>>
history == <<unnamed, orderly>>
vars  == <<cli, daemon, shutdown, listening, files, history>>

ASSUME LifecycleConstants ==
  /\ Kinds \subseteq {"start", "stop", "run"}
  /\ PidErrors \in BOOLEAN
  /\ MaxCrashes \in Nat
  /\ None \notin Commands

Crashed == {d \in Commands : daemon[d] = "crashed"}

Settled ==
  /\ \A c \in Commands : pc[c] \in {"new", "over"}
  /\ \A d \in Commands : Alive(d) => Serving(d)

IsDaemonRunning == \E d \in Commands : Reaches(d)
-----------------------------------------------------------------------------
(* The commands *)

\* "daemon run" is the daemon itself: it does not ask whether one runs.
Give(c, k) ==
  /\ pc[c] = "new"
  /\ orderly' = (/\ orderly /\ Settled
                 /\ k = "run" => \A d \in Commands : ~Alive(d))
  /\ kind' = [kind EXCEPT ![c] = k]
  /\ IF k = "run"
     THEN /\ pc' = [pc EXCEPT ![c] = "over"]
          /\ daemon' = [daemon EXCEPT ![c] = "cleaning"]
     ELSE pc' = [pc EXCEPT ![c] = "checking"] /\ UNCHANGED daemon
  /\ UNCHANGED <<target, shutdown, listening, files, unnamed>>

CheckIgnored(c) ==
  /\ pc[c] = "checking"
  /\ pc' = [pc EXCEPT ![c] = IF kind[c] = "start" THEN "spawning" ELSE "calling"]
  /\ UNCHANGED <<kind, target, daemon, shutdown, listening, files, history>>
\* A start goes on if no daemon answers, a stop if one does.
Check(c) ==
  /\ pc[c] = "checking"
  /\ pc' = [pc EXCEPT ![c] =
              CASE kind[c] = "start" /\ ~IsDaemonRunning -> "spawning"
                [] kind[c] = "stop" /\ IsDaemonRunning -> "calling"
                [] OTHER -> "over"]
  /\ UNCHANGED <<kind, target, daemon, shutdown, listening, files, history>>

Spawn(c) ==
  /\ pc[c] = "spawning"
  /\ daemon' = [daemon EXCEPT ![c] = "cleaning"]
  /\ pc' = [pc EXCEPT ![c] = "over"]
  /\ UNCHANGED <<kind, target, shutdown, listening, files, history>>

\* What a stop falls back on: the PID file, if there is one.
ReadPidFile(c) ==
  /\ target' = [target EXCEPT ![c] = pidFile]
  /\ pc' = [pc EXCEPT ![c] = IF pidFile = None THEN "over" ELSE "signalling"]

\* The stop request reaches the daemon that listens now, or fails.
StopConnects(c) ==
  /\ pc[c] = "calling"
  /\ \/ \E d \in Commands :
          /\ Reaches(d)
          /\ target' = [target EXCEPT ![c] = d]
          /\ pc' = [pc EXCEPT ![c] = "asking"]
     \/ ~IsDaemonRunning /\ ReadPidFile(c)
  /\ UNCHANGED <<kind, daemon, shutdown, listening, files, history>>

\* The daemon answers, and runs Shutdown shortly after.
StopAnswered(c) ==
  /\ pc[c] = "asking"
  /\ daemon[target[c]] = "serving"
  /\ shutdown' = [shutdown EXCEPT ![target[c]]["stop"] =
                    IF @ = "no" THEN "closing" ELSE @]
  /\ pc' = [pc EXCEPT ![c] = "over"]
  /\ UNCHANGED <<kind, target, daemon, listening, files, history>>

\* The daemon is gone, or leaving, before it has answered.
StopUnanswered(c) ==
  /\ pc[c] = "asking"
  /\ ~listening[target[c]]
  /\ ReadPidFile(c)
  /\ UNCHANGED <<kind, daemon, shutdown, listening, files, history>>

\* A daemon that serves shuts down on SIGTERM; one that does not yet wait for
\* signals dies of it; one that is leaving ignores it.
Terminate(d) ==
  /\ shutdown' = IF Serving(d)
                 THEN [shutdown EXCEPT ![d]["run"] = "closing"]
                 ELSE shutdown
  /\ IF Alive(d) /\ daemon[d] # "serving"
     THEN /\ daemon' = [daemon EXCEPT ![d] = "exited"]
          /\ listening' = [listening EXCEPT ![d] = FALSE]
     ELSE UNCHANGED <<daemon, listening>>

\* Signalling a process that is gone fails and ends the command.
StopBySignal(c) ==
  /\ pc[c] = "signalling"
  /\ Terminate(target[c])
  /\ pc' = [pc EXCEPT ![c] = IF Alive(target[c]) THEN "removing" ELSE "over"]
  /\ UNCHANGED <<kind, target, files, history>>

StopRemovesPid(c) ==
  /\ pc[c] = "removing"
  /\ pidFile' = None
  /\ pc' = [pc EXCEPT ![c] = "over"]
  /\ UNCHANGED <<kind, target, daemon, shutdown, listening, socket, history>>

Command(c) ==
  \/ \E k \in Kinds : Give(c, k)
  \/ Check(c) \/ Spawn(c)
  \/ StopConnects(c) \/ StopAnswered(c) \/ StopUnanswered(c)
  \/ StopBySignal(c) \/ StopRemovesPid(c)
-----------------------------------------------------------------------------
(* A daemon's life *)

CleanUpNothing(d) ==
  /\ daemon[d] = "cleaning"
  /\ daemon' = [daemon EXCEPT ![d] = "binding"]
  /\ UNCHANGED <<cli, shutdown, listening, files, history>>
\* Run removes whatever socket there is ...
CleanUp(d) ==
  /\ daemon[d] = "cleaning"
  /\ daemon' = [daemon EXCEPT ![d] = "binding"]
  /\ socket' = None
  /\ UNCHANGED <<cli, shutdown, listening, pidFile, history>>

\* ... and creates its own, which fails if there is one again.
Bind(d) ==
  /\ daemon[d] = "binding"
  /\ IF socket = None
     THEN /\ socket' = d
          /\ listening' = [listening EXCEPT ![d] = TRUE]
          /\ daemon' = [daemon EXCEPT ![d] = "writing"]
     ELSE /\ daemon' = [daemon EXCEPT ![d] = "failed"]
          /\ UNCHANGED <<socket, listening>>
  /\ UNCHANGED <<cli, shutdown, pidFile, history>>

WritePidFileOnce(d) ==
  /\ daemon[d] = "writing"
  /\ daemon' = [daemon EXCEPT ![d] = "serving"]
  /\ pidFile' = IF pidFile = None THEN d ELSE pidFile
  /\ UNCHANGED <<cli, shutdown, listening, socket, history>>
\* A failure is only logged.
WritePidFile(d) ==
  /\ daemon[d] = "writing"
  /\ daemon' = [daemon EXCEPT ![d] = "serving"]
  /\ \/ pidFile' = d /\ UNCHANGED unnamed
     \/ PidErrors /\ unnamed' = unnamed \cup {d} /\ UNCHANGED pidFile
  /\ UNCHANGED <<cli, shutdown, listening, socket, orderly>>

\* Run is interrupted by a signal, or notices that the listener is closed.
RunStops(d) ==
  /\ daemon[d] = "serving"
  /\ shutdown[d]["run"] = "no"
  /\ shutdown' = [shutdown EXCEPT ![d]["run"] = "closing"]
  /\ orderly' = (orderly /\ (listening[d] => Settled))
  /\ UNCHANGED <<cli, daemon, listening, files, unnamed>>

Shutting(d, w, from, to) ==
  /\ daemon[d] = "serving"
  /\ shutdown[d][w] = from
  /\ shutdown' = [shutdown EXCEPT ![d][w] = to]
  /\ UNCHANGED <<cli, history>>

\* Closing an open listener also unlinks its path; then http.Server.Shutdown
\* waits for open requests, for five seconds at most.
CloseListener(d, w) ==
  /\ Shutting(d, w, "closing", "unlinking")
  /\ listening' = [listening EXCEPT ![d] = FALSE]
  /\ socket' = IF listening[d] THEN None ELSE socket
  /\ UNCHANGED <<daemon, pidFile>>

RemoveSocket(d, w) ==
  /\ Shutting(d, w, "unlinking", "removing")
  /\ socket' = None
  /\ UNCHANGED <<daemon, listening, pidFile>>

RemovePidFile(d, w) ==
  /\ Shutting(d, w, "removing", "exiting")
  /\ pidFile' = None
  /\ UNCHANGED <<daemon, listening, socket>>

\* os.Exit in the one case, the return of Run in the other.
Exit(d, w) ==
  /\ Shutting(d, w, "exiting", "exiting")
  /\ daemon' = [daemon EXCEPT ![d] = "exited"]
  /\ UNCHANGED <<listening, files>>

\* The process is killed, at any moment; its files stay.
Crash(d) ==
  /\ Alive(d)
  /\ Cardinality(Crashed) < MaxCrashes
  /\ daemon' = [daemon EXCEPT ![d] = "crashed"]
  /\ listening' = [listening EXCEPT ![d] = FALSE]
  /\ UNCHANGED <<cli, shutdown, files, history>>

Live(d) ==
  \/ CleanUp(d) \/ Bind(d) \/ WritePidFile(d)
  \/ RunStops(d)
  \/ \E w \in Callers :
       \/ CloseListener(d, w) \/ RemoveSocket(d, w)
       \/ RemovePidFile(d, w) \/ Exit(d, w)
  \/ Crash(d)
-----------------------------------------------------------------------------
Init ==
  /\ kind = [c \in Commands |-> None]
  /\ pc = [c \in Commands |-> "new"]
  /\ target = [c \in Commands |-> None]
  /\ daemon = [d \in Commands |-> "none"]
  /\ shutdown = [d \in Commands |-> [w \in Callers |-> "no"]]
  /\ listening = [d \in Commands |-> FALSE]
  /\ socket = None /\ pidFile = None
  /\ unnamed = {} /\ orderly = TRUE

Next == \E c \in Commands : Command(c) \/ Live(c)

Spec == Init /\ [][Next]_vars
-----------------------------------------------------------------------------
\* Every variable has its type.
TypeOK ==
  /\ kind \in [Commands -> Kinds \cup {None}]
  /\ pc \in [Commands -> {"new", "checking", "spawning", "calling",
                          "asking", "signalling", "removing", "over"}]
  /\ target \in [Commands -> Commands \cup {None}]
  /\ daemon \in [Commands -> {"none", "cleaning", "binding", "writing",
                              "serving", "exited", "failed", "crashed"}]
  /\ shutdown \in [Commands -> [Callers -> {"no", "closing", "unlinking",
                                            "removing", "exiting"}]]
  /\ listening \in [Commands -> BOOLEAN]
  /\ socket \in Commands \cup {None} /\ pidFile \in Commands \cup {None}
  /\ unnamed \subseteq Commands /\ orderly \in BOOLEAN
  /\ \A c \in Commands : pc[c] \in {"asking", "signalling"} => target[c] # None
=============================================================================
