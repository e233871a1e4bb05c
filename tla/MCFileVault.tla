----------------------------- MODULE MCFileVault -----------------------------
(* Two clients, a path that is also a directory, a path inside it.          *)
EXTENDS FileVault, TLC

CONSTANTS a, ab, s1, s2

MCInside == {<<a, ab>>}
MCSymmetry == Permutations(Inodes) \cup Permutations(Secrets)
=============================================================================
