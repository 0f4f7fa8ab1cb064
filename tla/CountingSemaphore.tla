-------------------------- MODULE CountingSemaphore --------------------------
(***************************************************************************)
(* What rt_sem_take and rt_sem_release promise their callers, whatever the *)
(* scheduler does in between: a caller is out of any take, waiting in one, *)
(* holds the token it was granted, or has failed (its timeout passed).     *)
(***************************************************************************)
EXTENDS Naturals

CONSTANTS Threads, Sems, None, SemMax

VARIABLES
  tokens,   \* tokens[s]: the value of semaphore s
  phase,    \* phase[t]: how far the take of thread t has come
  on        \* on[t]: the semaphore it is on, or None

vars == <<tokens, phase, on>>

Waiters(s) == {t \in Threads : phase[t] = "waiting" /\ on[t] = s}

Init ==
  /\ tokens = [s \in Sems |-> 0]
  /\ phase = [t \in Threads |-> "out"]
  /\ on = [t \in Threads |-> None]

\* A token is there for the taking.
TakeNow(s) ==
  /\ tokens[s] > 0
  /\ tokens' = [tokens EXCEPT ![s] = @ - 1]
  /\ UNCHANGED <<phase, on>>

\* There is none: the caller waits.
Wait(t, s) ==
  /\ phase[t] = "out"
  /\ tokens[s] = 0
  /\ phase' = [phase EXCEPT ![t] = "waiting"]
  /\ on' = [on EXCEPT ![t] = s]
  /\ UNCHANGED tokens

\* A release serves a waiter if there is one ...
Grant(t, s) ==
  /\ t \in Waiters(s)
  /\ phase' = [phase EXCEPT ![t] = "granted"]
  /\ UNCHANGED <<tokens, on>>

\* ... and is counted otherwise.
Count(s) ==
  /\ Waiters(s) = {}
  /\ tokens[s] < SemMax
  /\ tokens' = [tokens EXCEPT ![s] = @ + 1]
  /\ UNCHANGED <<phase, on>>

\* The timeout passes before a release.
Fail(t) ==
  /\ phase[t] = "waiting"
  /\ phase' = [phase EXCEPT ![t] = "failed"]
  /\ UNCHANGED <<tokens, on>>

\* The caller returns, with the token or with -RT_ETIMEOUT; never while it waits.
Return(t) ==
  /\ phase[t] \in {"granted", "failed"}
  /\ phase' = [phase EXCEPT ![t] = "out"]
  /\ on' = [on EXCEPT ![t] = None]
  /\ UNCHANGED tokens

Next ==
  \/ \E s \in Sems : TakeNow(s) \/ Count(s)
  \/ \E t \in Threads, s \in Sems : Wait(t, s) \/ Grant(t, s)
  \/ \E t \in Threads : Fail(t) \/ Return(t)

Spec == Init /\ [][Next]_vars
=============================================================================
