----------------------------- MODULE StoreCalls -----------------------------
(***************************************************************************)
(* EncryptedStore seen from the daemon's handlers.  A call runs under      *)
(* EncryptedStore.mu from its first line to its last, so nobody sees what  *)
(* lies between two of its file writes: two history variables keep what    *)
(* could be seen when the last call ended, and what that call answered.    *)
(***************************************************************************)
EXTENDS EncryptedStore

VARIABLES seen,   \* the store as it was when the last call ended
          answer  \* that call and whether it returned without an error

Status == [exists |-> VaultExists, unlocked |-> ~IsLocked, dirty |-> dirty]
NoAnswer == [call |-> "none", ok |-> TRUE]

\* The call that does a file write.
CallOf(write) ==
  CASE write \in {"initMeta", "initData"} -> "init"
    [] write \in {"passwdMeta", "passwdData"} -> "passwd"
    [] write = "setData" -> "change"
    [] write = "lockData" -> "lock"

Continues == seen' = seen /\ answer' = NoAnswer
Dies == seen' = Status' /\ answer' = NoAnswer
Returns(call, ok) ==
  seen' = Status' /\ answer' = [call |-> call, ok |-> ok]

CallInit == Init /\ seen = Status /\ answer = NoAnswer

CallNext ==
  \/ \E pw \in Passwords :
       \/ Initialize(pw) /\ Continues
       \/ UnlockRefused(pw) /\ Returns("unlock", FALSE)
       \/ UnlockLoadFails(pw) /\ Returns("unlock", FALSE)
       \/ UnlockOpens(pw) /\ Returns("unlock", TRUE)
  \/ \E old, new \in Passwords : ChangePassword(old, new) /\ Continues
  \/ \E p \in Paths, v \in Values : Set(p, v) /\ Continues
  \/ \E p \in Paths : Delete(p) /\ Continues
  \/ InitializeSavesMeta /\ Continues
  \/ InitializeSavesData /\ Returns("init", TRUE)
  \/ Lock /\ IF pc' = "idle" THEN Returns("lock", TRUE) ELSE Continues
  \/ LockSaves /\ Returns("lock", TRUE)
  \/ ChangeSaved /\ Returns("change", TRUE)
  \/ ChangePasswordSavesMeta /\ Continues
  \/ ChangePasswordSavesData /\ Returns("passwd", TRUE)
  \/ WriteFails /\ Returns(CallOf(pc), FALSE)
  \/ Crash /\ Dies

CallSpec == CallInit /\ [][CallNext]_<<vars, seen, answer>>

Calls == INSTANCE VaultCalls WITH
  exists <- seen.exists, unlocked <- seen.unlocked, dirty <- seen.dirty

\* Whatever its writes do, a call leaves the store in the state that goes
\* with its own answer.  One that reports an error has done only what the
\* handlers reckon with: a failed Lock has kept key and changes, a failed
\* password change has neither locked the vault nor touched the dirty flag, a
\* failed Set or Delete has left its change to be saved, a failed Unlock has
\* at most dropped the key.  One that reports success has done all it says,
\* and nothing, the death of the process included, removes a vault.
CallsAsPromised == Calls!AnswerSpec
=============================================================================
