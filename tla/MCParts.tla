------------------------------ MODULE MCParts ------------------------------
(***************************************************************************)
(* Parts of the system that are checked by themselves, one at a time: the  *)
(* first state chooses the timers of timer.c, a call of the kernel service *)
(* or the switch between threads, and the behaviour is that of its module. *)
(***************************************************************************)
EXTENDS TimerList, TLC

CONSTANTS
  SwitchThreads,                          \* of ContextSwitch
  Long, Bits, Wrap, Incs, Late, MaxClock  \* of ServiceCalls

\* rt_tick and inc_tick are rt_tick_t; a thread later than the width of rt_tick cannot
\* tell by how much.
ASSUME DelayAssumption ==
  Wrap \in Nat \ {0} /\ Incs \subseteq 0 .. Wrap - 1 /\ Late \in 0 .. Wrap - 1

ASSUME LongAssumption == Long \in Nat \ {0}

VARIABLES
  part,
  \* of ServiceCalls
  call, place, out, rt_tick, until, inc_tick, timeout, asleep, clock, anchor, periods,
  \* of ContextSwitch
  live_regs, pc, masked, frame, current, irq_regs, flag, from, to, own, dead

Service == INSTANCE ServiceCalls WITH pc <- place, tick <- until
Switch == INSTANCE ContextSwitch WITH Threads <- SwitchThreads, live <- live_regs

serviceVars == <<call, place, out, rt_tick, until, inc_tick, timeout, asleep, clock, anchor, periods>>
switchVars == <<live_regs, pc, masked, frame, current, irq_regs, flag, from, to, own, dead>>
allVars == <<vars, part, serviceVars, switchVars>>

\* The timers are alike.
Alike == Permutations(Timers)

\* What a state is told by.  Nothing reads the timeout of a timer that is on no list,
\* nor the period of one that is not between rt_timer_init and rt_timer_detach, before
\* it is written again.
Told ==
  <<list, active, live, armed, tick, phase, firing, stopping,
    [t \in Timers |-> IF Listed(t) THEN timeout_tick[t] ELSE 0],
    [t \in live |-> <<periodic[t], init_tick[t]>>],
    part, serviceVars, switchVars>>

\* The timers when another part is checked.
TimersIdle == \A t \in Timers : ~periodic[t] /\ \A d \in Delays : init_tick[t] <= d

PartsInit ==
  /\ Init /\ Switch!Init
  /\ \/ part = "timers" /\ Service!Idle
     \/ part = "service" /\ TimersIdle /\ Service!Init
     \/ part = "switch" /\ TimersIdle /\ Service!Idle

PartsNext ==
  /\ UNCHANGED part
  /\ \/ part = "timers" /\ Next /\ UNCHANGED <<serviceVars, switchVars>>
     \/ part = "service" /\ Service!Next /\ UNCHANGED <<vars, switchVars>>
     \/ part = "switch" /\ Switch!Next /\ UNCHANGED <<vars, serviceVars>>

PartsSpec == PartsInit /\ [][PartsNext]_allVars

-----------------------------------------------------------------------------
(* Timers: see TimerList.                                                  *)

\* The timers keep their types.  A timer on no list points at itself, on a list each
\* node is the prev of its next, and a timer that was started is on the list, whoever
\* calls rt_timer_start, _stop and _detach, and from where; and rt_timer_check calls the timeout functions of timers only,
\* never of what lies behind a pointer that is no node of its list (timer.c:625).
TimerListSound == TypeOK /\ NoLostTimer /\ ListSound /\ OnlyTimersExpire

\* The callback of a timer that was stopped or detached, or that has expired for
\* good, is not called before the timer is started again.
OnlyArmedTimersFire == OnlyArmedFire

\* The timers are alarms that go off at their ticks, in order, across the wrap of
\* rt_tick and whatever their callbacks do to one another.  A step that changes nothing
\* the alarms are read from is a stutter, which TLC then need not work out.
TimersAreAlarms ==
  /\ AlarmsOf!Init
  /\ [][\/ part # "timers" \/ UNCHANGED <<list, timeout_tick, tick, phase, firing>>
        \/ AlarmsOf!Next]_AlarmsOf!vars

-----------------------------------------------------------------------------
(* Kernel service: see ServiceCalls.                                       *)

\* Copies and fills reach every byte of their block and no other, whatever the
\* alignment and the overlap they allow; string copies end with a 0 and fill up.
CopiesExactly == Service!CopiesExactly

\* The string and memory routines and __rt_ffs answer right: comparisons by the order
\* of the strings, searches with the first place, lengths up to their limit.  What is
\* rounded up is enough: an aligned block of rt_malloc_align lies inside the one it is
\* taken from, and a delay in ticks is no shorter than its milliseconds.
AnswersRight ==
  /\ Service!ComparesInOrder /\ Service!SearchesRight
  /\ Service!AlignedInside /\ Service!DelaysLongEnough

\* rt_vsnprintf, rt_kprintf and printf_ print what C says, as far as their buffer goes,
\* and write nothing past it; rt_vsnprintf returns the length of a text that fits.
FormatsAsC == Service!FormatsAsC /\ Service!EndsInBuffer

\* A thread that calls rt_thread_delay_until within a period of its last deadline wakes
\* at the next, whatever the work between them takes and also when rt_tick wraps.
DelayKeepsPeriods ==
  [][part = "service" /\ call.fn = "rt_thread_delay_until" => Service!Delay!PeriodKept]_allVars

-----------------------------------------------------------------------------
(* Context switch: see ContextSwitch.                                      *)

\* A thread that gets the CPU back, from rt_schedule or from an interrupt, goes on
\* with its own registers, t1 apart, and with interrupts unmasked, whoever ran
\* meanwhile and however often the handler asked for another switch.
ResumedExactly == part = "switch" => Switch!ResumedExactly
=============================================================================
