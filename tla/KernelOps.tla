----------------------------- MODULE KernelOps -----------------------------
(***************************************************************************)
(* The data of the RT-Thread Nano kernel of this firmware and the routines *)
(* that rewrite it with interrupts masked, one operator per C routine.     *)
(* The kernel's globals are one record k; a routine maps the record before *)
(* the call to the record after it, so a handler is the composition of the *)
(* routines it calls, in the order it calls them.                          *)
(*                                                                         *)
(*   k.stat     thread->stat & RT_THREAD_STAT_MASK                         *)
(*   k.yld      the RT_THREAD_STAT_YIELD bit of thread->stat               *)
(*   k.prio     thread->current_priority (0 is the highest)                *)
(*   k.slice    thread->remaining_tick                                     *)
(*   k.err      thread->error                                              *)
(*   k.ready    rt_thread_priority_table, one list per priority            *)
(*   k.group    the bits set in rt_thread_ready_priority_group             *)
(*   k.cur      rt_current_thread                                          *)
(*   k.lock     rt_scheduler_lock_nest                                     *)
(*   k.val      sem->value                                                 *)
(*   k.waitq    sem->parent.suspend_thread                                 *)
(*   k.timers   the armed thread timers, in the order of _timer_list       *)
(*   k.left     timeout_tick - rt_tick of an armed timer                   *)
(*   k.defunct  _rt_thread_defunct                                         *)
(*                                                                         *)
(* A doubly linked list is the sequence of the threads on it.  A thread    *)
(* has one list node, tlist, so it is on one list at most.                 *)
(***************************************************************************)
EXTENDS Lists

CONSTANTS
  Threads,      \* the thread objects
  None,         \* RT_NULL
  PrioMax,      \* RT_THREAD_PRIORITY_MAX
  Priority,     \* the priority each thread is initialised with
  Sems,         \* the semaphores
  SemMax,       \* RT_SEM_VALUE_MAX
  PrioFlag,     \* TRUE: RT_IPC_FLAG_PRIO, FALSE: RT_IPC_FLAG_FIFO
  InitTick,     \* the time slice of a thread (init_tick)
  MaxTimeout    \* bound on the timeouts a thread asks for

Prios == 0 .. PrioMax - 1

ASSUME NoneAssumption == None \notin Threads
ASSUME ThreadsAssumption == Threads # {}
ASSUME PrioAssumption == PrioMax \in Nat \ {0} /\ Priority \in [Threads -> Prios]
ASSUME BoundAssumption ==
  /\ SemMax \in Nat \ {0}
  /\ InitTick \in Nat \ {0}
  /\ MaxTimeout \in Nat
  /\ PrioFlag \in BOOLEAN

Stats == {"init", "ready", "suspend", "running", "close"}
Errors == {"ok", "timeout", "error"}

KState ==
  [stat : [Threads -> Stats], yld : [Threads -> BOOLEAN], prio : [Threads -> Prios],
   slice : [Threads -> 1 .. InitTick], err : [Threads -> Errors],
   ready : [Prios -> Seq(Threads)], group : SUBSET Prios,
   cur : Threads \cup {None}, lock : Nat,
   val : [Sems -> 0 .. SemMax], waitq : [Sems -> Seq(Threads)],
   timers : Seq(Threads), left : [Threads -> 0 .. MaxTimeout],
   defunct : Seq(Threads)]

KInit ==
  [stat |-> [t \in Threads |-> "init"], yld |-> [t \in Threads |-> FALSE],
   prio |-> Priority, slice |-> [t \in Threads |-> InitTick],
   err |-> [t \in Threads |-> "ok"],
   ready |-> [p \in Prios |-> <<>>], group |-> {}, cur |-> None, lock |-> 0,
   val |-> [s \in Sems |-> 0], waitq |-> [s \in Sems |-> <<>>],
   timers |-> <<>>, left |-> [t \in Threads |-> 0], defunct |-> <<>>]

-----------------------------------------------------------------------------
(* Lists: see the module Lists.                                            *)

\* rt_list_remove(&thread->tlist), whichever list the node is on.
rt_list_remove(k, t) ==
  [k EXCEPT !.ready   = [p \in Prios |-> Unlink(k.ready[p], t)],
            !.waitq   = [s \in Sems |-> Unlink(k.waitq[s], t)],
            !.defunct = Unlink(k.defunct, t)]

-----------------------------------------------------------------------------
(* Thread timers.                                                          *)

rt_timer_stop(k, t) == [k EXCEPT !.timers = Unlink(k.timers, t)]

\* RT_TIMER_CTRL_SET_TIME and rt_timer_start: the list is sorted by timeout and
\* a timer goes behind those that expire at the same tick.
rt_timer_start(k, t, timeout) ==
  LET left == [k.left EXCEPT ![t] = timeout]
  IN  [k EXCEPT !.left   = left,
                !.timers = InsertSorted(Unlink(k.timers, t), t, left)]

-----------------------------------------------------------------------------
(* Ready queues.                                                           *)

\* Mutant: the bit of an emptied priority stays set.
RemoveKeepsBit(k, t) == rt_list_remove(k, t)

rt_schedule_remove_thread(k, t) ==
  LET u == rt_list_remove(k, t)
  IN  IF u.ready[k.prio[t]] = <<>>
      THEN [u EXCEPT !.group = k.group \ {k.prio[t]}]
      ELSE u

\* Mutant: every thread is queued at the end.
InsertAtEnd(k, t) ==
  IF t = k.cur
  THEN [k EXCEPT !.stat[t] = "running"]
  ELSE [k EXCEPT !.stat[t] = "ready", !.group = k.group \cup {k.prio[t]},
                 !.ready[k.prio[t]] = Append(k.ready[k.prio[t]], t)]

\* A thread whose YIELD bit is set goes to the end of its list, any other to
\* the front; the current thread is only marked RUNNING.
rt_schedule_insert_thread(k, t) ==
  LET p == k.prio[t]
  IN  IF t = k.cur
      THEN [k EXCEPT !.stat[t] = "running"]
      ELSE [k EXCEPT !.stat[t]  = "ready",
                     !.ready[p] = IF k.yld[t] THEN Append(k.ready[p], t)
                                              ELSE <<t>> \o k.ready[p],
                     !.group    = k.group \cup {p}]

\* __rt_ffs(rt_thread_ready_priority_group) - 1
HighestReady(k) == CHOOSE p \in k.group : \A q \in k.group : p <= q

\* The tail of rt_schedule: the thread leaves the ready table and runs.
MakeRunning(k, t) ==
  [rt_schedule_remove_thread(k, t) EXCEPT !.stat[t] = "running"]

\* Mutant: rt_scheduler_lock_nest is not looked at.
CanScheduleLocked(k) == k.group # {}

\* Mutant: a more urgent current thread is kept without looking at its state.
CanScheduleUrgent(k) ==
  k.lock = 0 /\ k.group # {} /\ ~(k.prio[k.cur] < HighestReady(k))

\* The scheduler is unlocked and there is a thread to switch to.
CanSchedule(k) == k.lock = 0 /\ k.group # {}

\* Mutant: the CPU is never given to a thread of the same priority.
KeepsCpuAmongEquals(k, p) == k.stat[k.cur] = "running" /\ k.prio[k.cur] <= p

\* The current thread keeps the CPU: it is RUNNING, and more urgent than the
\* threads of priority p, or as urgent and not yielding.
KeepsCpu(k, p) ==
  /\ k.stat[k.cur] = "running"
  /\ k.prio[k.cur] < p \/ (k.prio[k.cur] = p /\ ~k.yld[k.cur])

\* The YIELD bit of a RUNNING thread is cleared first, so a thread that loses the
\* CPU because it yields is queued like one that was preempted.
rt_schedule(k) ==
  LET p       == HighestReady(k)
      from    == k.cur
      to      == IF KeepsCpu(k, p) THEN from ELSE Head(k.ready[p])
      running == k.stat[from] = "running"
      cleared == [k EXCEPT !.yld[from] = k.yld[from] /\ ~running]
      moved   == [cleared EXCEPT !.cur = to]
  IN  IF ~CanSchedule(k) THEN k
      ELSE IF to # from /\ running
      THEN MakeRunning(rt_schedule_insert_thread(moved, from), to)
      ELSE MakeRunning(moved, to)

rt_system_scheduler_start(k) ==
  LET to == Head(k.ready[HighestReady(k)])
  IN  MakeRunning([k EXCEPT !.cur = to], to)

-----------------------------------------------------------------------------
(* Thread routines: the part each runs with interrupts masked.             *)

\* thread.c asserts that the thread is the current one; one that is neither
\* READY nor RUNNING is left as it is and an error is returned.
rt_thread_suspend(k, t) ==
  IF k.stat[t] \in {"ready", "running"}
  THEN rt_timer_stop([rt_schedule_remove_thread(k, t) EXCEPT !.stat[t] = "suspend"], t)
  ELSE k

rt_thread_resume(k, t) ==
  IF k.stat[t] = "suspend"
  THEN rt_schedule_insert_thread(rt_timer_stop(rt_list_remove(k, t), t), t)
  ELSE k

\* The unmasked assignment of stat is part of the step: nothing else refers to a
\* thread between rt_thread_init and the end of its rt_thread_startup.
rt_thread_startup(k, t) ==
  rt_thread_resume([k EXCEPT !.stat[t] = "suspend", !.yld[t] = FALSE], t)

\* _thread_exit and the masked part of rt_thread_detach.
CloseThread(k, t) ==
  [rt_timer_stop(k, t) EXCEPT !.stat[t]  = "close",
                              !.yld[t]   = FALSE,
                              !.defunct  = <<t>> \o k.defunct]

\* rt_thread_init of a closed thread: its node and its timer start unlinked.
rt_thread_init(k, t) ==
  [k EXCEPT !.stat[t] = "init", !.yld[t] = FALSE, !.prio[t] = Priority[t],
            !.slice[t] = InitTick, !.err[t] = "ok"]

\* The timeout function of a thread timer.
_thread_timeout(k, t) ==
  rt_schedule(rt_schedule_insert_thread(
    rt_list_remove([k EXCEPT !.err[t] = "timeout"], t), t))

-----------------------------------------------------------------------------
(* Semaphores: the part each routine runs with interrupts masked.          *)

_ipc_list_suspend(k, s, t) ==
  LET u == rt_thread_suspend(k, t)
  IN  [u EXCEPT !.waitq[s] = IF PrioFlag THEN InsertSorted(u.waitq[s], t, u.prio)
                                         ELSE Append(u.waitq[s], t)]

_ipc_list_resume(k, s) == rt_thread_resume(k, Head(k.waitq[s]))

\* Mutant: the error of an earlier wait is not cleared.
SemWaitStaleError(k, s, t, timeout) ==
  LET u == _ipc_list_suspend(k, s, t)
  IN  IF timeout = None THEN u ELSE rt_timer_start(u, t, timeout)

\* The branch of rt_sem_take that waits; timeout None is RT_WAITING_FOREVER.
SemWait(k, s, t, timeout) ==
  LET u == _ipc_list_suspend([k EXCEPT !.err[t] = "ok"], s, t)
  IN  IF timeout = None THEN u ELSE rt_timer_start(u, t, timeout)

\* Mutant: the counter is not checked for its maximum.
SemGiveUnbounded(k, s) ==
  IF k.waitq[s] # <<>> THEN _ipc_list_resume(k, s) ELSE [k EXCEPT !.val[s] = @ + 1]

\* Mutant: a release counts and wakes nobody.
SemGiveUnheard(k, s) ==
  IF k.val[s] < SemMax THEN [k EXCEPT !.val[s] = @ + 1] ELSE k

\* The masked part of rt_sem_release; a full semaphore is left alone (-RT_EFULL).
SemGive(k, s) ==
  IF k.waitq[s] # <<>> THEN _ipc_list_resume(k, s)
  ELSE IF k.val[s] < SemMax THEN [k EXCEPT !.val[s] = @ + 1]
  ELSE k
=============================================================================
