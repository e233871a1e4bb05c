-------------------------- MODULE MCEncryptedStore --------------------------
(***************************************************************************)
(* EncryptedStore and its calls for TLC: the constants come from the cfg,  *)
(* and which path, value or password is which makes no difference.         *)
(***************************************************************************)
EXTENDS StoreCalls, TLC

Symmetry ==
  Permutations(Paths) \cup Permutations(Values) \cup Permutations(Passwords)
=============================================================================
