---------------------------- MODULE PeriodicDelay ----------------------------
(***************************************************************************)
(* rt_thread_delay_until of thread.c: a thread does its work once every    *)
(* inc_tick ticks.  It keeps the tick of its last period in *tick, and     *)
(* rt_tick wraps.  rt_tick_from_millisecond is here too.                   *)
(***************************************************************************)
EXTENDS Integers

CONSTANTS
  Wrap,      \* rt_tick has the values 0 .. Wrap - 1
  Incs,      \* the periods it is called with
  Late,      \* how late, after a deadline, the thread may call again: below Wrap
  MaxClock   \* bounds the run

VARIABLES
  rt_tick,   \* the tick counter
  tick,      \* *tick of the thread
  inc_tick,  \* the period of the thread
  timeout,   \* timeout_tick of the thread's timer, while the thread sleeps
  asleep,    \* the thread is suspended until then
  clock,     \* history: the ticks since the start, without wrap
  anchor,    \* history: when the thread last began to count its periods
  periods    \* history: the periods it has been put to sleep for since

vars == <<rt_tick, tick, inc_tick, timeout, asleep, clock, anchor, periods>>

Deadline == anchor + periods * inc_tick

Init ==
  /\ rt_tick \in 0 .. Wrap - 1 /\ tick = rt_tick /\ timeout = rt_tick /\ inc_tick \in Incs
  /\ asleep = FALSE /\ clock = 0 /\ anchor = 0 /\ periods = 0

\* The tick interrupt; the timer of the thread ends the sleep.  Between a deadline
\* and the next call the thread works, or others do.
rt_tick_increase ==
  /\ clock < MaxClock
  /\ asleep \/ clock - Deadline < Late
  /\ rt_tick' = (rt_tick + 1) % Wrap
  /\ clock' = clock + 1
  /\ asleep' = (asleep /\ timeout # rt_tick')
  /\ UNCHANGED <<tick, inc_tick, timeout, anchor, periods>>

\* Mutant: the deadline is compared with the tick, which has wrapped or not.
rt_thread_delay_untilAbsolute ==
  /\ ~asleep
  /\ IF rt_tick < (tick + inc_tick) % Wrap
     THEN /\ tick' = (tick + inc_tick) % Wrap
          /\ timeout' = (rt_tick + ((tick' - rt_tick) % Wrap)) % Wrap
          /\ asleep' = TRUE
          /\ periods' = periods + 1
          /\ UNCHANGED anchor
     ELSE /\ tick' = rt_tick
          /\ anchor' = clock /\ periods' = 0
          /\ UNCHANGED <<timeout, asleep>>
  /\ UNCHANGED <<rt_tick, inc_tick, clock>>

\* The timer is set to what is left, and started.
rt_thread_delay_until ==
  /\ ~asleep
  /\ IF (rt_tick - tick) % Wrap < inc_tick
     THEN /\ tick' = (tick + inc_tick) % Wrap
          /\ timeout' = (rt_tick + ((tick' - rt_tick) % Wrap)) % Wrap
          /\ asleep' = TRUE
          /\ periods' = periods + 1
          /\ UNCHANGED anchor
     ELSE /\ tick' = rt_tick
          /\ anchor' = clock /\ periods' = 0
          /\ UNCHANGED <<timeout, asleep>>
  /\ UNCHANGED <<rt_tick, inc_tick, clock>>

Next == rt_tick_increase \/ rt_thread_delay_until

rt_tick_from_millisecond(ms, persecond, forever) ==
  IF ms < 0 THEN forever
  ELSE persecond * (ms \div 1000) + (persecond * (ms % 1000) + 999) \div 1000

-----------------------------------------------------------------------------
\* A step keeps the periods: the thread is put to sleep only for a period that is not
\* over, wakes at its end, and begins to count anew only when it is a period late.
PeriodKept ==
  /\ asleep => (clock < Deadline)
  /\ (asleep /\ ~asleep') => (clock' = Deadline)
  /\ (anchor' # anchor) => (clock >= Deadline + inc_tick)
=============================================================================
