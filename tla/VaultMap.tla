------------------------------ MODULE VaultMap -------------------------------
(***************************************************************************)
(* What a vault promises its callers (vault/interface.go and ErrClosed in  *)
(* vault/errors.go): a map from paths to secrets that only its own         *)
(* operations change, and that is empty and refuses everything once it is  *)
(* closed.  A secret is what a caller can read of it.                      *)
(***************************************************************************)
CONSTANTS Paths, Secrets, Nil

VARIABLES secrets, closed

vars == <<secrets, closed>>

NoSecrets == [p \in Paths |-> Nil]

Init ==
  /\ secrets \in [Paths -> Secrets \cup {Nil}]
  /\ closed = FALSE

Set(p, s) ==
  /\ ~closed
  /\ secrets' = [secrets EXCEPT ![p] = s]
  /\ UNCHANGED closed

Delete(p) ==
  /\ ~closed
  /\ secrets' = [secrets EXCEPT ![p] = Nil]
  /\ UNCHANGED closed

Clear ==
  /\ secrets' = NoSecrets
  /\ UNCHANGED closed

Close ==
  /\ closed' = TRUE
  /\ secrets' = NoSecrets

Next ==
  \/ \E p \in Paths, s \in Secrets : Set(p, s)
  \/ \E p \in Paths : Delete(p)
  \/ Clear
  \/ Close

Spec == Init /\ [][Next]_vars
=============================================================================
