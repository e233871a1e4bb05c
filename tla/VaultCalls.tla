----------------------------- MODULE VaultCalls -----------------------------
(***************************************************************************)
(* VaultLock with the answers: which call ended last and whether it told   *)
(* its caller that it succeeded.  Each outcome of VaultLock is open only   *)
(* to the call it belongs to and only with its own answer, so a Lock that  *)
(* reports a failure must have left the vault as it was, and only the      *)
(* death of the process goes without an answer.                            *)
(***************************************************************************)
EXTENDS VaultLock

VARIABLE answer

CallNames == {"init", "unlock", "lock", "change", "passwd"}
NoAnswer == [call |-> "none", ok |-> TRUE]

Answers(call, ok) == answer' = [call |-> call, ok |-> ok]

AnswerInit == Init /\ answer = NoAnswer

\* A call is running; what it has done so far nobody has seen.
Begins == answer' = NoAnswer /\ UNCHANGED vars

Dies == Restart /\ answer' = NoAnswer

AnswerNext ==
  \/ Begins
  \/ CreateSucceeds /\ Answers("init", TRUE)
  \/ CreateFails /\ Answers("init", FALSE)
  \/ UnlockSucceeds /\ Answers("unlock", TRUE)
  \/ UnlockFails /\ Answers("unlock", FALSE)
  \/ LockSucceeds /\ Answers("lock", TRUE)
  \/ LockFails /\ Answers("lock", FALSE)
  \/ ChangeSucceeds /\ Answers("change", TRUE)
  \/ ChangeFails /\ Answers("change", FALSE)
  \/ PasswordSucceeds /\ Answers("passwd", TRUE)
  \/ PasswordFails /\ Answers("passwd", FALSE)
  \/ Dies

AnswerSpec == AnswerInit /\ [][AnswerNext]_<<vars, answer>>
=============================================================================
