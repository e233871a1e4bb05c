--------------------------- MODULE MCDaemonServer ---------------------------
(***************************************************************************)
(* DaemonServer for TLC: which kinds of request a run sends, and that it   *)
(* makes no difference which request is which.                             *)
(***************************************************************************)
EXTENDS DaemonServer, TLC

AllKinds == ReadKinds \cup WriteKinds \cup {"stop"}

\* Kinds enough for every way a request may end, and to unlock and to stop.
LiveKinds == {"unlock", "passwd", "import", "list", "stop"}

Symmetry == Permutations(Requests)
=============================================================================
