------------------------------- MODULE Alarms -------------------------------
(***************************************************************************)
(* What the kernel's timers promise: an alarm that is set for n ticks goes *)
(* off at the n-th tick, those of one tick in the order of their ticks and *)
(* then in the order they were set, and a cancelled one does not go off.   *)
(* An alarm set for 0 ticks goes off with the alarms of this tick, or at   *)
(* the next one if those are done.                                         *)
(***************************************************************************)
EXTENDS Integers, Sequences, Lists

CONSTANTS
  Timers,   \* the alarms
  Ticks,    \* the numbers of ticks an alarm may be set for
  None      \* no alarm

VARIABLES
  queue,    \* the alarms that are set, in the order they will go off
  left,     \* left[t]: the ticks before t goes off, 0 if it is not set
  phase,    \* "threads", or "check" while the alarms of a tick go off
  firing    \* the alarm whose callback runs, or None

vars == <<queue, left, phase, firing>>

Init ==
  /\ queue = <<>>
  /\ left = [t \in Timers |-> 0]
  /\ phase = "threads"
  /\ firing = None

\* A thread calls, or the callback of an alarm.
CodeRuns == phase = "threads" \/ firing # None

Schedule(t, n) ==
  /\ left' = [left EXCEPT ![t] = n]
  /\ queue' = InsertSorted(Unlink(queue, t), t, left')

Set(t, n) ==
  /\ CodeRuns
  /\ Schedule(t, n)
  /\ UNCHANGED <<phase, firing>>

Cancel(t) ==
  /\ CodeRuns
  /\ queue' = Unlink(queue, t)
  /\ left' = [left EXCEPT ![t] = 0]
  /\ UNCHANGED <<phase, firing>>

Tick ==
  /\ phase = "threads"
  /\ left' = [t \in Timers |-> IF left[t] > 0 THEN left[t] - 1 ELSE 0]
  /\ phase' = "check"
  /\ UNCHANGED <<queue, firing>>

\* The first alarm goes off; its callback begins.
GoOff ==
  /\ phase = "check" /\ firing = None
  /\ queue # <<>> /\ left[Head(queue)] = 0
  /\ firing' = Head(queue)
  /\ queue' = Tail(queue)
  /\ UNCHANGED <<left, phase>>

\* The callback ends; unless it was set again, a periodic alarm is.
Return ==
  /\ firing # None
  /\ firing' = None
  /\ \/ UNCHANGED <<queue, left>>
     \/ ~Contains(queue, firing) /\ \E n \in Ticks : Schedule(firing, n)
  /\ UNCHANGED phase

\* Nothing is left to go off at this tick.
Done ==
  /\ phase = "check" /\ firing = None
  /\ queue = <<>> \/ left[Head(queue)] > 0
  /\ phase' = "threads"
  /\ UNCHANGED <<queue, left, firing>>

Next ==
  \/ \E t \in Timers : Cancel(t) \/ \E n \in Ticks : Set(t, n)
  \/ Tick \/ GoOff \/ Return \/ Done

Spec == Init /\ [][Next]_vars
=============================================================================
