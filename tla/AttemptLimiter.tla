--------------------------- MODULE AttemptLimiter ---------------------------
(***************************************************************************)
(* What the one-time-code component promises about wrong codes, whatever   *)
(* storage and requests lie behind it: an account takes MaxFailed wrong    *)
(* codes in a row, then it is locked, and a lock runs its time.  After the *)
(* lock the count is still exhausted, so one more wrong code locks again.  *)
(***************************************************************************)
EXTENDS Naturals

CONSTANTS MaxFailed, LockTime

VARIABLES failed,  \* wrong codes in a row, MaxFailed standing for more
          lock     \* minutes until the lock ends, 0 when not locked

Init == failed = 0 /\ lock = 0

Bump(n) == IF n < MaxFailed THEN n + 1 ELSE MaxFailed

CountWrong ==
  /\ lock = 0
  /\ failed' = Bump(failed)
  /\ lock' = IF failed' = MaxFailed THEN LockTime ELSE 0

AcceptRight ==
  /\ lock = 0
  /\ failed' = 0
  /\ lock' = 0

Minute ==
  /\ lock > 0
  /\ lock' = lock - 1
  /\ UNCHANGED failed

Next == CountWrong \/ AcceptRight \/ Minute

Spec == Init /\ [][Next]_<<failed, lock>>
=============================================================================
