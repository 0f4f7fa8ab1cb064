----------------------------- MODULE TimerList -----------------------------
(***************************************************************************)
(* The hard timers of timer.c at the level of the pointers of _timer_list  *)
(* and of the tick counter, which wraps: rt_timer_start, _stop, _detach,   *)
(* _init and _control called by threads and by the callbacks of timers,    *)
(* and rt_timer_check in the tick interrupt.                               *)
(*                                                                         *)
(* An action is a section that runs with interrupts masked.  rt_timer_stop *)
(* is two, since it looks at the ACTIVATED flag before it masks them; the  *)
(* loop of rt_timer_check is one for each timer and one for each return    *)
(* of a callback, between which the callback may call the operations.      *)
(*                                                                         *)
(* A list node is its timer.  ListHead is _timer_list, Temp the local list of  *)
(* rt_timer_check that holds the timer whose callback runs.  Null and      *)
(* Wild are not nodes of a list: what lies at address 0, whose words are   *)
(* instructions, and what its next pointer points at.                      *)
(***************************************************************************)
EXTENDS Integers, Sequences, FiniteSets

CONSTANTS
  Timers,          \* the timer objects
  RT_TICK_MAX,     \* the largest rt_tick_t, 2^32 - 1 in the code
  Delays,          \* the values given to rt_timer_init and RT_TIMER_CTRL_SET_TIME
  NullTick,        \* the word at address 20, read as a timeout_tick
  ListHead, Temp, Null, Wild,
  None             \* no timer

Half == RT_TICK_MAX \div 2
Ticks == 0 .. RT_TICK_MAX
Nodes == Timers \cup {ListHead, Temp, Null, Wild}

ASSUME TimersAssumption ==
  /\ IsFiniteSet(Timers)
  /\ Cardinality({ListHead, Temp, Null, Wild, None}) = 5
  /\ Timers \cap {ListHead, Temp, Null, Wild, None} = {}
ASSUME TicksAssumption ==
  RT_TICK_MAX \in Nat /\ RT_TICK_MAX >= 7 /\ NullTick \in Ticks
\* The limit that rt_timer_init states, and asserts in a debug build.
ASSUME DelaysAssumption == Delays \subseteq 0 .. Half - 1 /\ Delays # {}

VARIABLES
  list,                        \* the next and prev pointers of the nodes
  active, periodic,            \* the flags RT_TIMER_FLAG_ACTIVATED and _PERIODIC
  init_tick, timeout_tick,
  live,                        \* the timers between rt_timer_init and rt_timer_detach
  tick,                        \* rt_tick
  phase,                       \* "threads", or "check" in rt_timer_check
  firing,                      \* the node whose callback rt_timer_check has called
  stopping,                    \* the timer a thread has found ACTIVATED in rt_timer_stop
  armed                        \* ghost: the timers that were started, neither stopped
                               \*   nor detached since, nor expired for good

timers == <<active, periodic, init_tick, timeout_tick, live, armed>>
vars == <<list, timers, tick, phase, firing, stopping>>

TypeOK ==
  /\ list \in [next : [Nodes -> Nodes], prev : [Nodes -> Nodes]]
  /\ active \in [Timers -> BOOLEAN] /\ periodic \in [Timers -> BOOLEAN]
  /\ init_tick \in [Timers -> Delays] /\ timeout_tick \in [Timers -> Ticks]
  /\ live \subseteq Timers /\ armed \subseteq live
  /\ tick \in Ticks
  /\ phase \in {"threads", "check"}
  /\ firing \in Nodes \cup {None}
  /\ stopping \in Timers \cup {None}

-----------------------------------------------------------------------------
(* The lists of rtservice.h, one assignment to a pointer after the other.  *)

rt_list_insert_after(l, at, n) ==
  LET prev == [l.prev EXCEPT ![l.next[at]] = n]
  IN  [next |-> [l.next EXCEPT ![n] = l.next[at], ![at] = n],
       prev |-> [prev EXCEPT ![n] = at]]

rt_list_remove(l, n) ==
  LET prev == [l.prev EXCEPT ![l.next[n]] = l.prev[n]]
      next == [l.next EXCEPT ![prev[n]] = l.next[n]]
  IN  [next |-> [next EXCEPT ![n] = n], prev |-> [prev EXCEPT ![n] = n]]

rt_list_isempty(l, head) == l.next[head] = head

\* Subtraction of ticks.
Minus(a, b) == (a - b) % (RT_TICK_MAX + 1)

Timeout(timeouts, n) == IF n \in Timers THEN timeouts[n] ELSE NullTick

\* A timer of timeout b must stand before one of timeout a.
Later(a, b) == Minus(a, b) # 0 /\ Minus(a, b) < Half

\* Mutant: timeouts are compared as numbers.
PlaceByNumber(l, timeouts, timeout) ==
  LET from[n \in Nodes] ==
        IF n = l.prev[ListHead] \/ Timeout(timeouts, l.next[n]) > timeout
        THEN n
        ELSE from[l.next[n]]
  IN  from[ListHead]

\* The node behind which rt_timer_start inserts a timer of the given timeout.
Place(l, timeouts, timeout) ==
  LET from[n \in Nodes] ==
        IF n = l.prev[ListHead] \/ Later(Timeout(timeouts, l.next[n]), timeout)
        THEN n
        ELSE from[l.next[n]]
  IN  from[ListHead]

\* rt_timer_start for t, in the list l.
StartIn(l, t) ==
  LET timeout == (tick + init_tick[t]) % (RT_TICK_MAX + 1)
      without == rt_list_remove(l, t)
  IN  /\ list' = rt_list_insert_after(without, Place(without, timeout_tick, timeout), t)
      /\ timeout_tick' = [timeout_tick EXCEPT ![t] = timeout]
      /\ active' = [active EXCEPT ![t] = TRUE]
      /\ armed' = armed \cup {t}

\* rt_timer_stop for t once interrupts are masked.
Unarm(t) ==
  /\ list' = rt_list_remove(list, t)
  /\ active' = [active EXCEPT ![t] = FALSE]
  /\ armed' = armed \ {t}

-----------------------------------------------------------------------------
(* The operations.                                                         *)

InThread == phase = "threads"
InCallback == firing \in Timers

rt_timer_start(t) ==
  /\ InThread \/ InCallback
  /\ t \in live
  /\ StartIn(list, t)
  /\ UNCHANGED <<periodic, init_tick, live, tick, phase, firing, stopping>>

\* The test of rt_timer_stop; with the flag clear it returns -RT_ERROR.
StopTest(t) ==
  /\ InThread
  /\ stopping = None
  /\ t \in live /\ active[t]
  /\ stopping' = t
  /\ UNCHANGED <<list, timers, tick, phase, firing>>

\* The masked section of rt_timer_stop.
StopRemove ==
  /\ InThread
  /\ stopping # None
  /\ Unarm(stopping)
  /\ stopping' = None
  /\ UNCHANGED <<periodic, init_tick, timeout_tick, live, tick, phase, firing>>

\* Mutant: rt_timer_stop leaves the timer on the list.
CallbackStopLinked(t) ==
  /\ InCallback
  /\ t \in live /\ active[t]
  /\ active' = [active EXCEPT ![t] = FALSE]
  /\ armed' = armed \ {t}
  /\ UNCHANGED <<list, periodic, init_tick, timeout_tick, live, tick, phase, firing, stopping>>

\* rt_timer_stop in a callback, where interrupts are masked from the start.
CallbackStop(t) ==
  /\ InCallback
  /\ t \in live /\ active[t]
  /\ Unarm(t)
  /\ UNCHANGED <<periodic, init_tick, timeout_tick, live, tick, phase, firing, stopping>>

rt_timer_detach(t) ==
  /\ InThread \/ InCallback
  /\ t \in live
  /\ Unarm(t)
  /\ live' = live \ {t}
  /\ UNCHANGED <<periodic, init_tick, timeout_tick, tick, phase, firing, stopping>>

rt_timer_init(t, time, flag) ==
  /\ InThread
  /\ t \notin live
  /\ live' = live \cup {t}
  /\ active' = [active EXCEPT ![t] = FALSE]
  /\ periodic' = [periodic EXCEPT ![t] = flag]
  /\ init_tick' = [init_tick EXCEPT ![t] = time]
  /\ timeout_tick' = [timeout_tick EXCEPT ![t] = 0]
  /\ list' = [next |-> [list.next EXCEPT ![t] = t], prev |-> [list.prev EXCEPT ![t] = t]]
  /\ UNCHANGED <<armed, tick, phase, firing, stopping>>

\* rt_timer_control with SET_TIME, SET_ONESHOT and SET_PERIODIC.
SetTime(t, time) ==
  /\ InThread \/ InCallback
  /\ t \in live
  /\ init_tick' = [init_tick EXCEPT ![t] = time]
  /\ UNCHANGED <<list, active, periodic, timeout_tick, live, armed, tick, phase, firing, stopping>>

SetPeriodic(t, flag) ==
  /\ InThread \/ InCallback
  /\ t \in live
  /\ periodic' = [periodic EXCEPT ![t] = flag]
  /\ UNCHANGED <<list, active, init_tick, timeout_tick, live, armed, tick, phase, firing, stopping>>

-----------------------------------------------------------------------------
(* The tick interrupt.                                                     *)

\* rt_tick_increase up to rt_timer_check.
Tick ==
  /\ InThread
  /\ tick' = (tick + 1) % (RT_TICK_MAX + 1)
  /\ phase' = "check"
  /\ UNCHANGED <<list, timers, firing, stopping>>

Due(n) == Minus(tick, Timeout(timeout_tick, n)) < Half

\* A round of the loop of rt_timer_check, up to the callback.
Expire ==
  LET n == list.next[ListHead] IN
  /\ phase = "check" /\ firing = None
  /\ ~rt_list_isempty(list, ListHead) /\ Due(n)
  /\ list' = rt_list_insert_after(rt_list_remove(list, n), Temp, n)
  /\ active' = [t \in Timers |-> active[t] /\ (t = n => periodic[t])]
  /\ armed' = {t \in armed : t = n => periodic[t]}
  /\ firing' = n
  /\ UNCHANGED <<periodic, init_tick, timeout_tick, live, tick, phase, stopping>>

\* The rest of the round: the timer is started again if it is periodic, unless
\* the callback has stopped, detached or started it.
CallbackReturn ==
  /\ InCallback
  /\ IF rt_list_isempty(list, Temp)
     THEN UNCHANGED <<list, active, timeout_tick, armed>>
     ELSE IF periodic[firing] /\ active[firing]
          THEN StartIn(rt_list_remove(list, firing), firing)
          ELSE /\ list' = rt_list_remove(list, firing)
               /\ armed' = armed \ {firing}
               /\ UNCHANGED <<active, timeout_tick>>
  /\ firing' = None
  /\ UNCHANGED <<periodic, init_tick, live, tick, phase, stopping>>

\* The loop ends; the interrupt returns.
CheckDone ==
  /\ phase = "check" /\ firing = None
  /\ rt_list_isempty(list, ListHead) \/ ~Due(list.next[ListHead])
  /\ phase' = "threads"
  /\ UNCHANGED <<list, timers, tick, firing, stopping>>

-----------------------------------------------------------------------------
\* The timers exist, and nothing has happened yet.
Fresh(pointers) ==
  /\ list = [next |-> pointers, prev |-> pointers]
  /\ active = [t \in Timers |-> FALSE]
  /\ periodic \in [Timers -> BOOLEAN]
  /\ init_tick \in [Timers -> Delays]
  /\ timeout_tick = [t \in Timers |-> 0]
  /\ live = Timers
  /\ tick = 0
  /\ phase = "threads"
  /\ firing = None
  /\ stopping = None
  /\ armed = {}

\* Mutant: nobody has called rt_system_timer_init, as in main.c; the pointers of
\* the head are 0, those of address 0 what instructions make of them.
InitZeroed == Fresh([n \in Nodes |-> CASE n = ListHead -> Null [] n = Null -> Wild [] OTHER -> n])

\* rt_system_timer_init points the head at itself.
Init == Fresh([n \in Nodes |-> n])

Next ==
  \/ \E t \in Timers :
       \/ rt_timer_start(t) \/ StopTest(t) \/ CallbackStop(t) \/ rt_timer_detach(t)
       \/ \E time \in Delays, flag \in BOOLEAN : rt_timer_init(t, time, flag)
       \/ \E time \in Delays : SetTime(t, time)
       \/ \E flag \in BOOLEAN : SetPeriodic(t, flag)
  \/ StopRemove \/ Tick \/ Expire \/ CallbackReturn \/ CheckDone

Spec == Init /\ [][Next]_vars

-----------------------------------------------------------------------------
(* Properties.                                                             *)

\* The nodes reached from ListHead.
Reached ==
  LET after[i \in 0 .. Cardinality(Timers) + 1] ==
        IF i = 0 THEN ListHead ELSE list.next[after[i - 1]]
  IN  after

\* The timers on _timer_list, in order.
Queue ==
  LET node == Reached
      last == CHOOSE i \in 0 .. Cardinality(Timers) :
                /\ i = Cardinality(Timers) \/ node[i + 1] \notin Timers
                /\ \A j \in 1 .. i : node[j] \in Timers
  IN  [i \in 1 .. last |-> node[i]]

Listed(t) == \E i \in DOMAIN Queue : Queue[i] = t

\* The ticks before t expires, 0 if it is overdue.
Remaining(t) ==
  IF Minus(tick, timeout_tick[t]) < Half THEN 0 ELSE Minus(timeout_tick[t], tick)

\* A timer that was started and neither stopped nor detached since is found by
\* rt_timer_check: it is on the list, or its own callback runs.
NoLostTimer == \A t \in armed : Listed(t) \/ firing = t

\* rt_list_remove may be called for a timer at any time: a timer on no list
\* points at itself, and on a list each node is the prev of its next.
ListSound ==
  /\ LET node == Reached IN \A i \in 0 .. Len(Queue) : list.prev[list.next[node[i]]] = node[i]
  /\ \A t \in Timers : ~Listed(t) /\ list.next[Temp] # t => list.next[t] = t /\ list.prev[t] = t
  /\ list.next[Temp] # Temp => list.next[Temp] = firing

\* After rt_timer_stop or rt_timer_detach, and once a one-shot has expired, the
\* callback is not called until the timer is started again, not even when a
\* timer is stopped from a callback, by a thread that found it active a tick
\* ago, or in the tick in which it is due.
OnlyArmedFire == [][firing' # firing => firing' \in armed \cup {None}]_vars

\* The timers as alarms.
Left ==
  LET queue == Queue
      listed == {queue[i] : i \in DOMAIN queue}
  IN  [t \in Timers |-> IF t \in listed THEN Remaining(t) ELSE 0]
AlarmsOf == INSTANCE Alarms WITH Ticks <- Delays, queue <- Queue, left <- Left

\* rt_timer_check calls "the corresponding timeout function" (timer.c:625) of
\* timers, never of what lies behind a pointer that is no node of its list.
OnlyTimersExpire == firing \in Timers \cup {None}
=============================================================================
