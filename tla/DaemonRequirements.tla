------------------------ MODULE DaemonRequirements -------------------------
(***************************************************************************)
(* What users may rely on about daemons coming and going, in terms of the  *)
(* processes and of the two files by which they are found.  How commands   *)
(* and daemons bring it about is module DaemonLifecycle.                   *)
(***************************************************************************)

CONSTANT Commands   \* runs of the command line tool; a daemon is named by
                    \* the one that started it

VARIABLES
  daemon,           \* each daemon's life
  shutdown,         \* how far each Shutdown running in a daemon is
  listening,        \* whether the daemon's listener is open
  socket, pidFile,  \* the two files, as the daemon they belong to
  unnamed,          \* history: daemons that failed to write the PID file
  orderly           \* history: nobody gave a command or sent a signal before
                    \* earlier ones were settled, or ran a daemon beside one

\* Who runs Shutdown: the goroutine of a stop request, and Run.
Callers == {"stop", "run"}

Alive(d) == daemon[d] \in {"cleaning", "binding", "writing", "serving"}
Leaving(d) == \E w \in Callers : shutdown[d][w] # "no"
Serving(d) == daemon[d] = "serving" /\ ~Leaving(d)

\* Dialling the socket reaches daemon d (IsDaemonRunning and any request).
Reaches(d) == socket = d /\ listening[d]
-----------------------------------------------------------------------------
\* Given in order, the commands keep one daemon at a time: the new one has
\* nothing to do with one that is still starting, serving or leaving.
OneDaemon == \A d, e \in Commands : Alive(d) /\ Alive(e) => d = e

OrderlyOneDaemon == orderly => OneDaemon

\* Given in order, a daemon that serves can be reached, and the PID file
\* names it unless writing it failed.
OrderlyReachable ==
  orderly =>
    \A d \in Commands :
      Serving(d) => Reaches(d) /\ (pidFile = d \/ d \in unnamed)

\* Given in order, a new daemon starts whatever an earlier one, killed or
\* not, left behind.
OrderlyStarts == orderly => \A d \in Commands : daemon[d] # "failed"
=============================================================================
