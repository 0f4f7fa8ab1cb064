------------------------------- MODULE Kernel -------------------------------
(***************************************************************************)
(* The RT-Thread Nano kernel as this firmware configures it (rtconfig.h):  *)
(* one CPU, fixed priorities with time slices, counting semaphores and     *)
(* thread timers.  A kernel service masks interrupts while it rewrites the *)
(* kernel record k, unmasks, and only then calls rt_schedule; between the  *)
(* two an interrupt may run, take the CPU away and give it back later.     *)
(* That window, and every other point with interrupts enabled, is where    *)
(* one action ends and the next begins.                                    *)
(*                                                                         *)
(* pc[t] is where the code of thread t stands:                             *)
(*   "run"    in the application                                           *)
(*   "sched"  before the rt_schedule that ends a service                   *)
(*   "take"   in rt_sem_take, before rt_schedule;  "wait" after it         *)
(*   "sleep"  in rt_thread_sleep, before rt_schedule;  "nap" after it      *)
(*   "park"   in main.c's task_park, before rt_schedule;  "spin" after it  *)
(*   "exit"   in _thread_exit, before rt_schedule;  "dead" after it        *)
(***************************************************************************)
EXTENDS KernelOps, FiniteSets

CONSTANTS
  Idlers,       \* the threads that call no service that blocks (tidle0)
  Calls,        \* the services the application uses
  Timeouts,     \* the timeouts it passes; None is RT_WAITING_FOREVER
  MaxLock       \* bound on the nesting of rt_enter_critical

Services == {"take", "release", "isr_release", "sleep", "park", "exit", "create", "yield",
             "critical"}

ASSUME CallsAssumption ==
  /\ Idlers \subseteq Threads
  /\ Calls \subseteq Services
  /\ Timeouts \subseteq (0 .. MaxTimeout) \cup {None}
  /\ None \notin 0 .. MaxTimeout
  /\ None \notin Sems
  /\ MaxLock \in Nat

\* Thread objects are static variables: there are as many as the firmware declares.
ASSUME FiniteAssumption == IsFiniteSet(Threads)

VARIABLES
  k,        \* the kernel record of KernelOps
  pc,       \* where each thread stands
  isr,      \* "off", or "timers": the tick interrupt is in rt_timer_check
  want,     \* the semaphore of the rt_sem_take a thread is in
  grant,    \* ghost: the semaphore whose token was handed to a thread in "take" or "wait"
  credit    \* ghost: successful releases minus takes that returned RT_EOK

vars == <<k, pc, isr, want, grant, credit>>
ghosts == <<want, grant, credit>>

\* Where rt_schedule returns to.
After == [sched |-> "run", take |-> "wait", sleep |-> "nap", park |-> "spin", exit |-> "dead"]
Windows == DOMAIN After
Places == {"run", "wait", "nap", "spin", "dead"} \cup Windows

Init ==
  /\ k = KInit
  /\ pc = [t \in Threads |-> "run"]
  /\ isr = "off"
  /\ want = [t \in Threads |-> None]
  /\ grant = [t \in Threads |-> None]
  /\ credit = [s \in Sems |-> 0]

-----------------------------------------------------------------------------
(* Boot: main() starts the threads, then the scheduler.                    *)

BootStartup(t) ==
  /\ k.cur = None
  /\ k.stat[t] = "init"
  /\ k' = rt_thread_startup(k, t)
  /\ UNCHANGED <<pc, isr, ghosts>>

StartScheduler ==
  /\ k.cur = None
  /\ \A t \in Threads : k.stat[t] = "ready"
  /\ k' = rt_system_scheduler_start(k)
  /\ UNCHANGED <<pc, isr, ghosts>>

-----------------------------------------------------------------------------
(* Services called by the current thread.                                  *)

\* t has the CPU, at place.
At(t, place) == isr = "off" /\ k.cur = t /\ pc[t] = place

\* t calls a service.  A thread that is not RUNNING here has come back from
\* rt_schedule although it is blocked: OnlyRunningThreadsRun is about that, and
\* the model stops there.
Caller(t, service) == At(t, "run") /\ k.stat[t] = "running" /\ service \in Calls

\* A thread may block only with the scheduler unlocked (ipc.c:523).
Blocker(t, service) == Caller(t, service) /\ t \notin Idlers /\ k.lock = 0

Goto(t, place) == pc' = [pc EXCEPT ![t] = place]

\* rt_sem_take on a semaphore with a token.
TakeToken(t, s) ==
  /\ Caller(t, "take")
  /\ k.val[s] > 0
  /\ k' = [k EXCEPT !.val[s] = @ - 1]
  /\ credit' = [credit EXCEPT ![s] = @ - 1]
  /\ UNCHANGED <<pc, isr, want, grant>>

\* rt_sem_take on an empty semaphore; with a timeout of 0 it returns at once.
TakeWait(t, s, timeout) ==
  /\ Blocker(t, "take")
  /\ k.val[s] = 0
  /\ timeout # 0
  /\ k' = SemWait(k, s, t, timeout)
  /\ Goto(t, "take")
  /\ want' = [want EXCEPT ![t] = s]
  /\ UNCHANGED <<isr, grant, credit>>

\* The rest of a rt_sem_take that waited: RT_EOK, or the error that ended it.
TakeReturn(t) ==
  /\ At(t, "wait")
  /\ Goto(t, "run")
  /\ want' = [want EXCEPT ![t] = None]
  /\ grant' = [grant EXCEPT ![t] = None]
  /\ credit' = IF k.err[t] = "ok" THEN [credit EXCEPT ![want[t]] = @ - 1] ELSE credit
  /\ UNCHANGED <<k, isr>>

\* The ghosts of a release of s: the first waiter, or the counter, has the token.
Credited(s) ==
  /\ credit' = IF k.waitq[s] # <<>> \/ k.val[s] < SemMax
               THEN [credit EXCEPT ![s] = @ + 1] ELSE credit
  /\ grant' = IF k.waitq[s] # <<>> THEN [grant EXCEPT ![Head(k.waitq[s])] = s] ELSE grant

\* rt_sem_release by a thread; it reschedules only if it woke one.
Release(t, s) ==
  /\ Caller(t, "release")
  /\ k' = SemGive(k, s)
  /\ Credited(s)
  /\ IF k.waitq[s] # <<>> THEN Goto(t, "sched") ELSE UNCHANGED pc
  /\ UNCHANGED <<isr, want>>

\* Mutant: the timer is started before the suspend that stops it.
SleepTimerFirst(t, timeout) ==
  /\ Blocker(t, "sleep")
  /\ k' = rt_thread_suspend(rt_timer_start([k EXCEPT !.err[t] = "ok"], t, timeout), t)
  /\ Goto(t, "sleep")
  /\ UNCHANGED <<isr, ghosts>>

Sleep(t, timeout) ==
  /\ Blocker(t, "sleep")
  /\ k' = rt_timer_start(rt_thread_suspend([k EXCEPT !.err[t] = "ok"], t), t, timeout)
  /\ Goto(t, "sleep")
  /\ UNCHANGED <<isr, ghosts>>

SleepReturn(t) ==
  /\ At(t, "nap")
  /\ k' = [k EXCEPT !.err[t] = IF @ = "timeout" THEN "ok" ELSE @]
  /\ Goto(t, "run")
  /\ UNCHANGED <<isr, ghosts>>

Park(t) ==
  /\ Blocker(t, "park")
  /\ k' = rt_thread_suspend(k, t)
  /\ Goto(t, "park")
  /\ UNCHANGED <<isr, ghosts>>

Exit(t) ==
  /\ Blocker(t, "exit")
  /\ k' = CloseThread(rt_schedule_remove_thread(k, t), t)
  /\ Goto(t, "exit")
  /\ UNCHANGED <<isr, ghosts>>

\* rt_thread_yield runs its rt_schedule with interrupts masked.
Yield(t) ==
  /\ Caller(t, "yield")
  /\ k' = rt_schedule([k EXCEPT !.slice[t] = InitTick, !.yld[t] = TRUE])
  /\ UNCHANGED <<pc, isr, ghosts>>

EnterCritical(t) ==
  /\ Caller(t, "critical")
  /\ k.lock < MaxLock
  /\ k' = [k EXCEPT !.lock = @ + 1]
  /\ UNCHANGED <<pc, isr, ghosts>>

\* Mutant: leaving the last critical section does not reschedule.
ExitCriticalQuietly(t) ==
  /\ Caller(t, "critical")
  /\ k.lock > 0
  /\ k' = [k EXCEPT !.lock = @ - 1]
  /\ UNCHANGED <<pc, isr, ghosts>>

ExitCritical(t) ==
  /\ Caller(t, "critical")
  /\ k.lock > 0
  /\ k' = [k EXCEPT !.lock = @ - 1]
  /\ IF k.lock = 1 THEN Goto(t, "sched") ELSE UNCHANGED pc
  /\ UNCHANGED <<isr, ghosts>>

\* The rt_schedule a service ends with.
CallSchedule(t) ==
  /\ \E place \in Windows : At(t, place) /\ Goto(t, After[place])
  /\ k' = rt_schedule(k)
  /\ UNCHANGED <<isr, ghosts>>

-----------------------------------------------------------------------------
(* Closed threads: the idle thread takes them off the defunct list in      *)
(* rt_defunct_execute, and then a thread may create them anew.             *)

Reap(t) ==
  /\ At(t, "run")
  /\ t \in Idlers
  /\ k.defunct # <<>>
  /\ k' = rt_list_remove(k, Head(k.defunct))
  /\ UNCHANGED <<pc, isr, ghosts>>

\* create_task: rt_thread_init and rt_thread_startup.
CreateTask(t, u) ==
  /\ Caller(t, "create")
  /\ k.stat[u] = "close"
  /\ ~Contains(k.defunct, u)
  /\ k' = rt_thread_startup(rt_thread_init(k, u), u)
  /\ pc' = [pc EXCEPT ![t] = "sched", ![u] = "run"]
  /\ UNCHANGED <<isr, ghosts>>

-----------------------------------------------------------------------------
(* Interrupts.  They do not nest: the core masks them until irq() returns. *)

Interrupted == isr = "off" /\ k.cur # None

\* The tick up to rt_timer_check: the slice of the current thread, which is
\* reloaded and marked YIELD when it runs out, then rt_schedule.
Tick ==
  /\ Interrupted
  /\ LET t    == k.cur
         down == [k EXCEPT !.left = [u \in Threads |->
                    IF Contains(k.timers, u) /\ k.left[u] > 0 THEN k.left[u] - 1 ELSE k.left[u]]]
     IN  k' = IF k.slice[t] = 1
              THEN rt_schedule([down EXCEPT !.slice[t] = InitTick, !.yld[t] = TRUE])
              ELSE [down EXCEPT !.slice[t] = @ - 1]
  /\ isr' = "timers"
  /\ UNCHANGED <<pc, ghosts>>

\* Mutant: a timer is not due yet at its own tick.
DueLate == k.timers # <<>> /\ k.left[Head(k.timers)] < 0

Due == k.timers # <<>> /\ k.left[Head(k.timers)] = 0

\* One round of the loop of rt_timer_check: the timer leaves the list first.
TimerExpire ==
  /\ isr = "timers"
  /\ Due
  /\ k' = _thread_timeout([k EXCEPT !.timers = Tail(k.timers)], Head(k.timers))
  /\ UNCHANGED <<pc, isr, ghosts>>

TickReturn ==
  /\ isr = "timers"
  /\ ~Due
  /\ isr' = "off"
  /\ UNCHANGED <<k, pc, ghosts>>

\* rt_sem_release by an interrupt handler (irq.c, the UART callbacks of main.c).
IsrRelease(s) ==
  /\ Interrupted
  /\ "isr_release" \in Calls
  /\ k' = IF k.waitq[s] # <<>> THEN rt_schedule(SemGive(k, s)) ELSE SemGive(k, s)
  /\ Credited(s)
  /\ UNCHANGED <<pc, isr, want>>

-----------------------------------------------------------------------------
SemaphoreStep(t) ==
  \/ \E s \in Sems :
       \/ TakeToken(t, s)
       \/ \E timeout \in Timeouts : TakeWait(t, s, timeout)
       \/ Release(t, s)
  \/ TakeReturn(t)

ControlStep(t) ==
  \/ \E timeout \in Timeouts \ {None} : Sleep(t, timeout)
  \/ SleepReturn(t)
  \/ Park(t)
  \/ Exit(t)
  \/ Yield(t)
  \/ EnterCritical(t)
  \/ ExitCritical(t)
  \/ Reap(t)
  \/ \E u \in Threads : CreateTask(t, u)

ThreadStep(t) == SemaphoreStep(t) \/ ControlStep(t) \/ CallSchedule(t)

Interrupt ==
  \/ Tick
  \/ TimerExpire
  \/ TickReturn
  \/ \E s \in Sems : IsrRelease(s)

Boot == StartScheduler \/ \E t \in Threads : BootStartup(t)

Next == Boot \/ Interrupt \/ \E t \in Threads : ThreadStep(t)

Spec == Init /\ [][Next]_vars

\* What a thread that has the CPU is bound to do: go on with the service it is
\* in, and leave the critical section it is in.
Finish(t) == CallSchedule(t) \/ TakeReturn(t) \/ SleepReturn(t) \/ ExitCritical(t)

\* The tick interrupts the threads, and its handler returns.
Alternate == (Interrupted /\ isr' = "timers") \/ (isr = "timers" /\ isr' = "off")

\* TIMER0 is periodic, and irq() has no unbounded loop once the due timers are used up:
\* the CPU goes from threads to the tick and back.  Handlers are much shorter than a
\* tick, so a thread that is given the CPU again and again executes again and again, if
\* only a few instructions at a time: hence strong fairness for the threads.  Nothing is
\* assumed of the calls that an application may or may not make, nor of main() before
\* the scheduler starts.
Fairness == WF_isr(Alternate) /\ \A t \in Threads : SF_vars(Finish(t))

LiveSpec == Spec /\ Fairness

-----------------------------------------------------------------------------
(* Properties.                                                             *)

\* The variables have their types.
TypeOK ==
  /\ k \in KState
  /\ pc \in [Threads -> Places]
  /\ isr \in {"off", "timers"}
  /\ want \in [Threads -> Sems \cup {None}]
  /\ grant \in [Threads -> Sems \cup {None}]
  /\ credit \in [Sems -> Int]

\* A thread is on the list of its priority exactly while it is READY, once, and
\* the bit of a priority is set exactly while its list is not empty: what
\* rt_schedule relies on when it takes the head of the list __rt_ffs finds.
ReadyTable ==
  /\ \A t \in Threads, p \in Prios :
       Contains(k.ready[p], t) <=> k.stat[t] = "ready" /\ k.prio[t] = p
  /\ \A p \in Prios : IsInjective(k.ready[p])
  /\ \A p \in Prios : p \in k.group <=> k.ready[p] # <<>>

\* Once a service has rescheduled, no READY thread is more urgent than the one
\* that runs, whatever woke threads in between.
HighestRuns ==
  isr = "off" /\ k.cur # None /\ k.lock = 0 =>
    pc[k.cur] \in Windows \/ \A p \in k.group : k.prio[k.cur] <= p

\* rt_schedule returns only to a thread that is RUNNING: a thread that blocked
\* does not go on before it is woken.
OnlyRunningThreadsRun ==
  isr = "off" /\ k.cur # None => pc[k.cur] \in Windows \/ k.stat[k.cur] = "running"

\* A suspended thread is where its wake-up will look for it: on the list of the
\* semaphore it takes, on the timer list if it sleeps; and only such threads are
\* on those lists.
NoLostWaiter ==
  /\ \A t \in Threads : k.stat[t] = "suspend" =>
       \/ pc[t] \in {"take", "wait"} /\ Contains(k.waitq[want[t]], t)
       \/ pc[t] \in {"sleep", "nap"} /\ Contains(k.timers, t)
       \/ pc[t] \in {"park", "spin"}
  /\ \A t \in Threads, s \in Sems :
       Contains(k.waitq[s], t) => k.stat[t] = "suspend" /\ want[t] = s
  /\ \A t \in Threads : Contains(k.timers, t) => k.stat[t] = "suspend"

\* A token released is in the counter, or handed to a thread that will return
\* RT_EOK, or was returned with RT_EOK: a timeout never swallows one, and no take
\* returns RT_EOK without one.
TokensConserved ==
  \A s \in Sems :
    credit[s] = k.val[s] + Cardinality({t \in Threads : grant[t] = s})

\* While the scheduler is locked nothing takes the CPU from the current thread.
CriticalHoldsCpu == [][k.lock > 0 => k'.cur = k.cur]_vars

\* t is marked YIELD, or gets the mark in this step.
Yielding(t) == k.yld[t] \/ Yield(t) \/ (Tick /\ k.slice[t] = 1)

\* A thread with time slices left that is preempted by a more urgent one is the next of
\* its priority to run (scheduler.c:763).
PreemptedGoesFirst ==
  [][k.cur # None /\ k'.cur # k.cur /\ k'.stat[k.cur] = "ready" /\ ~Yielding(k.cur)
       /\ k.prio[k'.cur] < k.prio[k.cur]
     => Head(k'.ready[k.prio[k.cur]]) = k.cur]_vars

\* A thread with "no time slices left(YIELD)" (scheduler.c:757) that loses the CPU is
\* inserted before the head of its list, which is the end.
YieldedGoesLast ==
  [][k.cur # None /\ k'.cur # k.cur /\ k'.stat[k.cur] = "ready" /\ Yielding(k.cur)
     => Last(k'.ready[k.prio[k.cur]]) = k.cur]_vars

\* A thread of the top priority that waits with a timeout, or sleeps, gets back to
\* its caller: by the token, by the timeout, or by the timeout alone.  At most one other
\* thread shares its priority: of three, two can pass the CPU to and fro for ever, as
\* the run of YieldedGoesLast shows.
TimedWaitEnds ==
  \A t \in Threads :
    Priority[t] = 0 /\ Cardinality({u \in Threads : Priority[u] = 0}) <= 2 =>
      (Contains(k.timers, t) ~> k.cur = t /\ pc[t] = "run")

\* A thread of the top priority does not keep the CPU for ever while another of its
\* priority is READY: at the end of its slice, or of the critical section it is in by
\* then, another has its turn.
SliceEnds ==
  \A t \in Threads : Priority[t] = 0 =>
    (k.cur = t /\ k.ready[0] # <<>> ~> k.cur # t \/ k.ready[0] = <<>>)

\* The semaphores, seen from their callers.
waiting(t) == IF pc[t] \notin {"take", "wait"} THEN "out"
              ELSE IF Contains(k.waitq[want[t]], t) THEN "waiting"
              ELSE IF k.err[t] = "ok" THEN "granted" ELSE "failed"

CountingSemaphores == INSTANCE CountingSemaphore WITH
  tokens <- k.val, phase <- [t \in Threads |-> waiting(t)], on <- want

\* rt_sem_take and rt_sem_release implement counting semaphores.
SemaphoresImplemented == CountingSemaphores!Spec
=============================================================================
