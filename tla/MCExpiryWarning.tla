-------------------------- MODULE MCExpiryWarning ---------------------------
(***************************************************************************)
(* ExpiryWarning for TLC: a day of two hours of two minutes of two         *)
(* seconds of two instants and durations of eight bits, so that eight days *)
(* overflow and the far ends are beyond a duration.  Longer durations are  *)
(* rounded up to a day if they are an instant short of it.                 *)
(***************************************************************************)
EXTENDS ExpiryWarning

MCInstants == {-175, -41, 4, 13, 28, 61, 140}
MCStarts == {-4, 13}
MCSettings == {-1, 0, 2, 9}
MCBlur == [d \in 0..127 |-> IF d < 30 THEN 0 ELSE 1]
=============================================================================
