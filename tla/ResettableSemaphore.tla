------------------------ MODULE ResettableSemaphore ------------------------
(***************************************************************************)
(* The promise of CountingSemaphore for a semaphore that is also           *)
(* initialised, reset and destroyed: a reset sets the value and fails who  *)
(* waits, and touches nobody who has been granted a token before.          *)
(***************************************************************************)
EXTENDS CountingSemaphore

SetValue(s, v) ==
  /\ tokens' = [tokens EXCEPT ![s] = v]
  /\ phase' = [t \in Threads |-> IF t \in Waiters(s) THEN "failed" ELSE phase[t]]
  /\ UNCHANGED on

ResettableNext == Next \/ \E s \in Sems, v \in 0 .. SemMax : SetValue(s, v)

ResettableSpec == Init /\ [][ResettableNext]_vars
=============================================================================
