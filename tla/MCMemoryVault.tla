---------------------------- MODULE MCMemoryVault ----------------------------
(* Two paths and two callers' secrets, with five maps in use at once.       *)
EXTENDS MemoryVault, TLC

MCSymmetry == Permutations(Holders) \cup Permutations(Refs)
=============================================================================
