----------------------------- MODULE VaultLock ------------------------------
(***************************************************************************)
(* What one call into the encrypted store does to the three facts the      *)
(* daemon's handlers go by: whether a vault exists, whether it is          *)
(* unlocked, and whether it holds changes that are not on disk.            *)
(*                                                                         *)
(* DaemonServer makes its calls with these actions; EncryptedStore, which  *)
(* does a call write by write, is shown in StoreCalls to do nothing else,  *)
(* each outcome going with its call and its answer (VaultCalls).           *)
(***************************************************************************)
VARIABLES exists, unlocked, dirty

vars == <<exists, unlocked, dirty>>

Init == exists \in BOOLEAN /\ unlocked = FALSE /\ dirty = FALSE

\* Initialize.  A failed save leaves the key in memory, with the metadata
\* file on disk or without it.
CreateSucceeds ==
  /\ ~exists
  /\ exists' = TRUE /\ unlocked' = TRUE /\ dirty' = FALSE

CreateFails ==
  /\ ~exists
  /\ exists' \in BOOLEAN /\ unlocked' = TRUE
  /\ UNCHANGED dirty

\* Unlock.  A refusal changes nothing, an unreadable vault file drops the key.
UnlockSucceeds ==
  /\ exists
  /\ unlocked' = TRUE
  /\ UNCHANGED <<exists, dirty>>

UnlockFails ==
  /\ exists
  /\ unlocked' \in {unlocked, FALSE}
  /\ UNCHANGED <<exists, dirty>>

\* Lock.  Unsaved changes are saved first; if that fails the vault stays as
\* it was.  A locked vault is left alone, dirty or not.
LockSucceeds ==
  /\ unlocked' = FALSE
  /\ dirty' = (dirty /\ ~unlocked)
  /\ UNCHANGED exists

LockFails ==
  /\ unlocked /\ dirty
  /\ UNCHANGED vars

\* Set and Delete.  A failed save leaves the change in memory.
ChangeSucceeds ==
  /\ unlocked
  /\ dirty' = FALSE
  /\ UNCHANGED <<exists, unlocked>>

ChangeFails ==
  /\ unlocked
  /\ dirty' = TRUE
  /\ UNCHANGED <<exists, unlocked>>

\* ChangePassword writes the metadata file, which a failed Initialize may
\* have left missing.
PasswordSucceeds ==
  /\ unlocked
  /\ exists' = TRUE /\ dirty' = FALSE
  /\ UNCHANGED unlocked

PasswordFails ==
  /\ unlocked
  /\ exists' \in {exists, TRUE}
  /\ UNCHANGED <<unlocked, dirty>>

\* The process dies, perhaps in a call, and a new one opens the files.
Restart ==
  /\ exists' \in {exists, TRUE}
  /\ unlocked' = FALSE /\ dirty' = FALSE

Next ==
  \/ CreateSucceeds \/ CreateFails
  \/ UnlockSucceeds \/ UnlockFails
  \/ LockSucceeds \/ LockFails
  \/ ChangeSucceeds \/ ChangeFails
  \/ PasswordSucceeds \/ PasswordFails
  \/ Restart

Spec == Init /\ [][Next]_vars
=============================================================================
