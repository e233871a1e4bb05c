---------------------------- MODULE MCBulkTransfer ---------------------------
(* Two requests, two paths, two secrets, imports of up to three entries.    *)
EXTENDS BulkTransfer, TLC

MCSymmetry ==
  Permutations(Requests) \cup Permutations(Paths) \cup Permutations(Secrets)
=============================================================================
