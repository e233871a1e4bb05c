------------------------- MODULE MCDaemonLifecycle -------------------------
(***************************************************************************)
(* DaemonLifecycle for TLC: it makes no difference which command is which. *)
(***************************************************************************)
EXTENDS DaemonLifecycle, TLC

Symmetry == Permutations(Commands)
=============================================================================
