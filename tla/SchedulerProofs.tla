-------------------------- MODULE SchedulerProofs ---------------------------
(***************************************************************************)
(* Proofs about Kernel for every set of threads, every assignment of       *)
(* priorities and every bound, in three parts that rest on one another: the*)
(* types and the ready table; the scheduler, who gets the CPU, who keeps it*)
(* and who is next; and the threads that wait, where a blocked thread does *)
(* not run, is where its wake-up looks for it and gets the token that was  *)
(* released to it, so that rt_sem_take and rt_sem_release implement        *)
(* counting semaphores.                                                    *)
(***************************************************************************)
EXTENDS Kernel, ListProofs

-----------------------------------------------------------------------------
(* The invariant, of a kernel record.                                      *)

\* Each list holds exactly the READY threads of its priority but t.
ListsBut(kk, t) ==
  /\ \A u \in Threads, p \in Prios :
       Contains(kk.ready[p], u) <=> u # t /\ kk.stat[u] = "ready" /\ kk.prio[u] = p
  /\ \A p \in Prios : IsInjective(kk.ready[p])

\* The bits agree with the lists.
GroupExact(kk) == \A p \in Prios : p \in kk.group <=> kk.ready[p] # <<>>

\* The bits agree with the lists, or the bit of t's priority is left over.
GroupBut(kk, t) ==
  \A p \in Prios : /\ kk.ready[p] # <<>> => p \in kk.group
                   /\ p \in kk.group => kk.ready[p] # <<>> \/ p = kk.prio[t]

\* ReadyTable, of the record kk.
Table(kk) == ListsBut(kk, None) /\ GroupExact(kk)

\* The current thread is never READY: it left the table when it got the CPU.
CurrentNotReady(kk) == kk.cur \in Threads => kk.stat[kk.cur] # "ready"

Consistent(kk) == kk \in KState /\ Table(kk) /\ CurrentNotReady(kk)

\* Only a SUSPENDed thread has a timer armed, one at most, and only a CLOSEd one is
\* on the list of the idle thread: what a timeout or a reaper may assume of the
\* thread it takes from those lists.
Parked(kk) ==
  /\ \A u \in Threads : Contains(kk.timers, u) => kk.stat[u] = "suspend"
  /\ \A u \in Threads : Contains(kk.defunct, u) => kk.stat[u] = "close"
  /\ IsInjective(kk.timers)

Sound(kk) == Consistent(kk) /\ Parked(kk)

\* The tick handler runs only once there is a current thread.
TickHasCurrent == isr = "timers" => k.cur \in Threads

IInv == TypeOK /\ Sound(k) /\ TickHasCurrent

-----------------------------------------------------------------------------
(* Lists and the ready table.                                              *)

\* rt_list_remove takes t off every list and changes nothing else.
LEMMA ListRemoveFacts ==
  ASSUME NEW kk \in KState, NEW t \in Threads
  PROVE  /\ rt_list_remove(kk, t) \in KState
         /\ rt_list_remove(kk, t).stat = kk.stat
         /\ rt_list_remove(kk, t).prio = kk.prio
         /\ rt_list_remove(kk, t).cur = kk.cur
         /\ rt_list_remove(kk, t).group = kk.group
         /\ rt_list_remove(kk, t).ready = [p \in Prios |-> Unlink(kk.ready[p], t)]
<1>1. \A q \in Seq(Threads) : Unlink(q, t) \in Seq(Threads)
  BY UnlinkElements
<1> QED
  BY <1>1 DEF KState, rt_list_remove

\* Unlinking t leaves the other threads where they are, and possibly a bit of
\* t's priority too many.
LEMMA ListRemoveTable ==
  ASSUME NEW kk \in KState, NEW t \in Threads, Table(kk)
  PROVE  /\ ListsBut(rt_list_remove(kk, t), t)
         /\ GroupBut(rt_list_remove(kk, t), t)
         /\ \A p \in Prios : p # kk.prio[t] =>
              rt_list_remove(kk, t).ready[p] = kk.ready[p]
         /\ kk.stat[t] # "ready" => rt_list_remove(kk, t).ready = kk.ready
<1> DEFINE u == rt_list_remove(kk, t)
<1>1. /\ u.stat = kk.stat /\ u.prio = kk.prio /\ u.group = kk.group
      /\ u.ready = [p \in Prios |-> Unlink(kk.ready[p], t)]
      /\ u \in KState
  BY ListRemoveFacts
<1>2. \A p \in Prios : kk.ready[p] \in Seq(Threads)
  BY DEF KState
<1> HIDE DEF u
<1>3. ASSUME NEW p \in Prios
      PROVE  /\ IsInjective(u.ready[p])
             /\ \A v \in Threads :
                  Contains(u.ready[p], v) <=> Contains(kk.ready[p], v) /\ v # t
             /\ ~Contains(kk.ready[p], t) => u.ready[p] = kk.ready[p]
  <2>1. u.ready[p] = Unlink(kk.ready[p], t)
    BY <1>1
  <2> QED
    BY <1>2, <2>1, UnlinkElements DEF Table, ListsBut
<1>4. ListsBut(u, t)
  BY <1>1, <1>3, NoneAssumption DEF Table, ListsBut
<1>5. \A p \in Prios : p # kk.prio[t] \/ kk.stat[t] # "ready" => u.ready[p] = kk.ready[p]
  BY <1>3 DEF Table, ListsBut
<1>6. GroupBut(u, t)
  <2>1. \A p \in Prios : u.ready[p] # <<>> => kk.ready[p] # <<>>
    <3> SUFFICES ASSUME NEW p \in Prios, kk.ready[p] = <<>>
                 PROVE  u.ready[p] = <<>>
      OBVIOUS
    <3>1. ~Contains(kk.ready[p], t)
      BY DEF Contains
    <3> QED
      BY <1>3, <3>1
  <2> QED
    BY <1>1, <1>5, <2>1 DEF Table, GroupBut, GroupExact
<1>7. kk.stat[t] # "ready" => u.ready = kk.ready
  <2>1. u.ready \in [Prios -> Seq(Threads)] /\ kk.ready \in [Prios -> Seq(Threads)]
    BY <1>1 DEF KState
  <2> QED
    BY <1>5, <2>1
<1> QED
  BY <1>4, <1>5, <1>6, <1>7 DEF u

\* rt_schedule_remove_thread takes t, and the bit of a list it empties, away.
LEMMA RemoveThread ==
  ASSUME NEW kk \in KState, NEW t \in Threads, Table(kk)
  PROVE  /\ rt_schedule_remove_thread(kk, t) \in KState
         /\ rt_schedule_remove_thread(kk, t).stat = kk.stat
         /\ rt_schedule_remove_thread(kk, t).prio = kk.prio
         /\ rt_schedule_remove_thread(kk, t).cur = kk.cur
         /\ ListsBut(rt_schedule_remove_thread(kk, t), t)
         /\ GroupExact(rt_schedule_remove_thread(kk, t))
<1> DEFINE u == rt_list_remove(kk, t)
           r == rt_schedule_remove_thread(kk, t)
<1>1. /\ u \in KState /\ u.stat = kk.stat /\ u.prio = kk.prio /\ u.cur = kk.cur
      /\ u.group = kk.group
  BY ListRemoveFacts
<1>2. ListsBut(u, t) /\ GroupBut(u, t)
  BY ListRemoveTable
<1>3. kk.prio[t] \in Prios /\ kk.group \subseteq Prios
  BY DEF KState
<1>4. r = IF u.ready[kk.prio[t]] = <<>>
          THEN [u EXCEPT !.group = kk.group \ {kk.prio[t]}] ELSE u
  BY DEF rt_schedule_remove_thread
<1> HIDE DEF u, r
<1>5. /\ r \in KState /\ r.stat = kk.stat /\ r.prio = kk.prio /\ r.cur = kk.cur
      /\ r.ready = u.ready
      /\ r.group = IF u.ready[kk.prio[t]] = <<>>
                   THEN kk.group \ {kk.prio[t]} ELSE kk.group
  BY <1>1, <1>3, <1>4 DEF KState
<1>6. ListsBut(r, t)
  BY <1>1, <1>2, <1>5 DEF ListsBut
<1>7. GroupExact(r)
  BY <1>1, <1>2, <1>3, <1>5 DEF GroupBut, GroupExact
<1> QED
  BY <1>5, <1>6, <1>7 DEF r

\* rt_schedule_insert_thread puts the table right for a thread that is off it.
LEMMA InsertThread ==
  ASSUME NEW kk \in KState, NEW t \in Threads, ListsBut(kk, t),
         GroupExact(kk) \/ (GroupBut(kk, t) /\ t # kk.cur)
  PROVE  /\ rt_schedule_insert_thread(kk, t) \in KState
         /\ Table(rt_schedule_insert_thread(kk, t))
         /\ rt_schedule_insert_thread(kk, t).cur = kk.cur
         /\ rt_schedule_insert_thread(kk, t).prio = kk.prio
         /\ rt_schedule_insert_thread(kk, t).stat =
              [kk.stat EXCEPT ![t] = IF t = kk.cur THEN "running" ELSE "ready"]
<1> DEFINE r == rt_schedule_insert_thread(kk, t)
           p == kk.prio[t]
           q == IF kk.yld[t] THEN Append(kk.ready[p], t) ELSE <<t>> \o kk.ready[p]
<1>1. /\ p \in Prios
      /\ kk.stat \in [Threads -> Stats]
      /\ kk.ready \in [Prios -> Seq(Threads)]
      /\ kk.ready[p] \in Seq(Threads)
      /\ kk.group \subseteq Prios
  BY DEF KState
<1>2. CASE t = kk.cur
  <2>1. r = [kk EXCEPT !.stat[t] = "running"]
    BY <1>2 DEF rt_schedule_insert_thread
  <2> HIDE DEF r
  <2>2. /\ r \in KState
        /\ r.cur = kk.cur /\ r.prio = kk.prio /\ r.ready = kk.ready /\ r.group = kk.group
        /\ r.stat = [kk.stat EXCEPT ![t] = "running"]
    BY <2>1 DEF KState, Stats
  <2>3. Table(r)
    BY <1>1, <1>2, <2>2, NoneAssumption DEF Table, ListsBut, GroupExact
  <2> QED
    BY <1>2, <2>2, <2>3 DEF r
<1>3. CASE t # kk.cur
  <2>1. r = [kk EXCEPT !.stat[t] = "ready", !.ready[p] = q, !.group = kk.group \cup {p}]
    BY <1>3 DEF rt_schedule_insert_thread
  <2> DEFINE old == kk.ready[p]
  <2>2. old \in Seq(Threads) /\ (q = Append(old, t) \/ q = <<t>> \o old)
    BY <1>1
  <2> HIDE DEF r, q, old
  <2>3. /\ q \in Seq(Threads) /\ q # <<>>
        /\ \A u : Contains(q, u) <=> Contains(old, u) \/ u = t
        /\ IsInjective(old) /\ ~Contains(old, t) => IsInjective(q)
    BY <2>2, AddElements
  <2>4. /\ q \in Seq(Threads) /\ q # <<>>
        /\ \A u : Contains(q, u) <=> Contains(kk.ready[p], u) \/ u = t
        /\ IsInjective(kk.ready[p]) /\ ~Contains(kk.ready[p], t) => IsInjective(q)
    BY <2>3 DEF old
  <2>5. /\ r \in KState
        /\ r.cur = kk.cur /\ r.prio = kk.prio
        /\ r.ready = [kk.ready EXCEPT ![p] = q]
        /\ r.group = kk.group \cup {p}
        /\ r.stat = [kk.stat EXCEPT ![t] = "ready"]
    BY <1>1, <2>1, <2>4 DEF KState, Stats
  <2>6. /\ ~Contains(kk.ready[p], t) /\ IsInjective(kk.ready[p])
    BY <1>1 DEF ListsBut
  <2>7. \A v \in Prios : r.ready[v] = IF v = p THEN q ELSE kk.ready[v]
    BY <1>1, <2>5
  <2>8. \A u \in Threads : r.stat[u] = IF u = t THEN "ready" ELSE kk.stat[u]
    BY <1>1, <2>5
  <2>9. ListsBut(r, None)
    <3>1. \A v \in Prios : IsInjective(r.ready[v])
      BY <2>4, <2>6, <2>7 DEF ListsBut
    <3>2. ASSUME NEW u \in Threads, NEW v \in Prios
          PROVE  Contains(r.ready[v], u) <=> r.stat[u] = "ready" /\ r.prio[u] = v
      BY <1>1, <2>4, <2>5, <2>7, <2>8 DEF ListsBut
    <3> QED
      BY <3>1, <3>2, NoneAssumption DEF ListsBut
  <2>10. GroupExact(r)
    BY <1>1, <2>4, <2>5, <2>7 DEF GroupExact, GroupBut
  <2> QED
    BY <1>3, <2>5, <2>9, <2>10 DEF r, Table
<1> QED
  BY <1>2, <1>3

\* __rt_ffs finds a priority with a READY thread, and Head finds the thread.
LEMMA HighestReadyFacts ==
  ASSUME NEW kk \in KState, kk.group # {}, Table(kk)
  PROVE  /\ HighestReady(kk) \in kk.group
         /\ HighestReady(kk) \in Prios
         /\ Head(kk.ready[HighestReady(kk)]) \in Threads
<1>1. kk.group \subseteq Prios /\ kk.ready \in [Prios -> Seq(Threads)]
  BY DEF KState
<1>2. Prios \subseteq Nat
  BY PrioAssumption DEF Prios
<1>3. \E p \in kk.group : \A q \in kk.group : p <= q
  BY <1>1, <1>2, LeastNatural
<1>4. HighestReady(kk) \in kk.group
  BY <1>3 DEF HighestReady
<1>5. kk.ready[HighestReady(kk)] \in Seq(Threads) /\ kk.ready[HighestReady(kk)] # <<>>
  BY <1>1, <1>4 DEF Table, GroupExact
<1>6. Head(kk.ready[HighestReady(kk)]) \in Threads
  BY <1>5, HeadTailProperties
<1> QED
  BY <1>1, <1>4, <1>6

\* MakeRunning takes the thread off the table.
LEMMA MakeRunningFacts ==
  ASSUME NEW kk \in KState, NEW t \in Threads, Table(kk), kk.cur = t
  PROVE  /\ Consistent(MakeRunning(kk, t))
         /\ MakeRunning(kk, t).cur = t
<1> DEFINE u == rt_schedule_remove_thread(kk, t)
           r == MakeRunning(kk, t)
<1>1. /\ u \in KState /\ u.stat = kk.stat /\ u.prio = kk.prio /\ u.cur = kk.cur
      /\ ListsBut(u, t) /\ GroupExact(u)
  BY RemoveThread
<1>2. r = [u EXCEPT !.stat[t] = "running"]
  BY DEF MakeRunning
<1> HIDE DEF u, r
<1>3. /\ r \in KState /\ r.prio = u.prio /\ r.cur = u.cur /\ r.ready = u.ready
      /\ r.group = u.group
      /\ r.stat = [u.stat EXCEPT ![t] = "running"]
  BY <1>1, <1>2 DEF KState, Stats
<1>4. u.stat \in [Threads -> Stats]
  BY <1>1 DEF KState
<1>5. Table(r)
  BY <1>1, <1>3, <1>4, NoneAssumption DEF Table, ListsBut, GroupExact
<1>6. CurrentNotReady(r)
  BY <1>1, <1>3, <1>4 DEF CurrentNotReady
<1> QED
  BY <1>1, <1>3, <1>5, <1>6 DEF Consistent, r

\* rt_schedule.
LEMMA ScheduleFacts ==
  ASSUME NEW kk, Consistent(kk), kk.cur \in Threads
  PROVE  Consistent(rt_schedule(kk)) /\ rt_schedule(kk).cur \in Threads
<1> DEFINE p       == HighestReady(kk)
           from    == kk.cur
           to      == IF KeepsCpu(kk, p) THEN from ELSE Head(kk.ready[p])
           running == kk.stat[from] = "running"
           cleared == [kk EXCEPT !.yld[from] = kk.yld[from] /\ ~running]
           moved   == [cleared EXCEPT !.cur = to]
           queued  == rt_schedule_insert_thread(moved, from)
<1>1. kk \in KState /\ Table(kk)
  BY DEF Consistent
<1>2. CASE ~CanSchedule(kk)
  BY <1>2 DEF rt_schedule
<1>3. CASE CanSchedule(kk)
  <2>1. rt_schedule(kk) = IF to # from /\ running
                          THEN MakeRunning(queued, to)
                          ELSE MakeRunning(moved, to)
    BY <1>3 DEF rt_schedule
  <2>2. to \in Threads
    BY <1>1, <1>3, HighestReadyFacts DEF CanSchedule
  <2> HIDE DEF to
  <2>3. /\ moved \in KState
        /\ moved.cur = to /\ moved.stat = kk.stat /\ moved.prio = kk.prio
        /\ moved.ready = kk.ready /\ moved.group = kk.group
    BY <1>1, <2>2 DEF KState
  <2> HIDE DEF moved
  <2>4. Table(moved)
    BY <1>1, <2>3 DEF Table, ListsBut, GroupExact
  <2>5. CASE to # from /\ running
    <3>1. ListsBut(moved, from) /\ GroupExact(moved)
      BY <2>3, <2>4, <2>5, NoneAssumption DEF Table, ListsBut
    <3>2. queued \in KState /\ Table(queued) /\ queued.cur = to
      BY <2>3, <3>1, InsertThread
    <3> QED
      BY <2>1, <2>2, <2>5, <3>2, MakeRunningFacts
  <2>6. CASE ~(to # from /\ running)
    BY <2>1, <2>2, <2>3, <2>4, <2>6, MakeRunningFacts
  <2> QED
    BY <2>5, <2>6
<1> QED
  BY <1>2, <1>3

-----------------------------------------------------------------------------
(* The other routines.                                                     *)

\* What a routine does to the other fields does not matter to the ready table.
LEMMA Frame ==
  ASSUME NEW kk, Consistent(kk), NEW r \in KState,
         r.stat = kk.stat, r.prio = kk.prio, r.cur = kk.cur,
         r.ready = kk.ready, r.group = kk.group
  PROVE  Consistent(r)
BY DEF Consistent, Table, ListsBut, GroupExact, CurrentNotReady

\* A thread that is not READY is off the table.
LEMMA NotReadyIsOff ==
  ASSUME NEW kk, Table(kk), NEW t \in Threads, kk.stat[t] # "ready"
  PROVE  ListsBut(kk, t) /\ GroupExact(kk)
BY NoneAssumption DEF Table, ListsBut

\* A thread that is off the table may take any state but READY.
LEMMA OffIsNotReady ==
  ASSUME NEW kk \in KState, NEW t \in Threads, ListsBut(kk, t), GroupExact(kk),
         NEW r \in KState, NEW st \in Stats, st # "ready",
         r.stat = [kk.stat EXCEPT ![t] = st], r.ready = kk.ready, r.group = kk.group,
         \A u \in Threads : u # t => r.prio[u] = kk.prio[u]
  PROVE  Table(r)
<1>1. kk.stat \in [Threads -> Stats]
  BY DEF KState
<1> QED
  BY <1>1, NoneAssumption DEF Table, ListsBut, GroupExact

LEMMA TimerStopFacts ==
  ASSUME NEW kk \in KState, NEW t \in Threads
  PROVE  /\ rt_timer_stop(kk, t) \in KState
         /\ rt_timer_stop(kk, t).stat = kk.stat
         /\ rt_timer_stop(kk, t).prio = kk.prio
         /\ rt_timer_stop(kk, t).cur = kk.cur
         /\ rt_timer_stop(kk, t).ready = kk.ready
         /\ rt_timer_stop(kk, t).group = kk.group
<1>1. Unlink(kk.timers, t) \in Seq(Threads)
  BY UnlinkElements DEF KState
<1> QED
  BY <1>1 DEF KState, rt_timer_stop

LEMMA TimerStartFacts ==
  ASSUME NEW kk \in KState, NEW t \in Threads, NEW timeout \in 0 .. MaxTimeout
  PROVE  /\ rt_timer_start(kk, t, timeout) \in KState
         /\ rt_timer_start(kk, t, timeout).stat = kk.stat
         /\ rt_timer_start(kk, t, timeout).prio = kk.prio
         /\ rt_timer_start(kk, t, timeout).cur = kk.cur
         /\ rt_timer_start(kk, t, timeout).ready = kk.ready
         /\ rt_timer_start(kk, t, timeout).group = kk.group
<1> DEFINE left == [kk.left EXCEPT ![t] = timeout]
           timers == InsertSorted(Unlink(kk.timers, t), t, left)
<1>1. left \in [Threads -> 0 .. MaxTimeout]
  BY DEF KState
<1>2. timers \in Seq(Threads)
  <2>1. Unlink(kk.timers, t) \in Seq(Threads)
    BY UnlinkElements DEF KState
  <2> HIDE DEF left
  <2> QED
    BY <2>1, InsertSortedElements
<1>3. rt_timer_start(kk, t, timeout) = [kk EXCEPT !.left = left, !.timers = timers]
  BY DEF rt_timer_start
<1> HIDE DEF left, timers
<1> QED
  BY <1>1, <1>2, <1>3 DEF KState

\* rt_thread_suspend leaves the thread off the table.
LEMMA SuspendFacts ==
  ASSUME NEW kk, Consistent(kk), NEW t \in Threads
  PROVE  /\ Consistent(rt_thread_suspend(kk, t))
         /\ rt_thread_suspend(kk, t).cur = kk.cur
<1>1. CASE kk.stat[t] \notin {"ready", "running"}
  BY <1>1 DEF rt_thread_suspend
<1>2. CASE kk.stat[t] \in {"ready", "running"}
  <2> DEFINE u == rt_schedule_remove_thread(kk, t)
             v == [u EXCEPT !.stat[t] = "suspend"]
  <2>1. rt_thread_suspend(kk, t) = rt_timer_stop(v, t)
    BY <1>2 DEF rt_thread_suspend
  <2>2. /\ u \in KState /\ u.stat = kk.stat /\ u.prio = kk.prio /\ u.cur = kk.cur
        /\ ListsBut(u, t) /\ GroupExact(u)
    BY RemoveThread DEF Consistent
  <2> HIDE DEF u
  <2>3. /\ v \in KState /\ v.prio = u.prio /\ v.cur = u.cur
        /\ v.ready = u.ready /\ v.group = u.group
        /\ v.stat = [u.stat EXCEPT ![t] = "suspend"]
    BY <2>2 DEF KState, Stats
  <2> HIDE DEF v
  <2>4. Table(v)
    BY <2>2, <2>3, OffIsNotReady DEF Stats
  <2>5. CurrentNotReady(v)
    BY <2>2, <2>3 DEF Consistent, CurrentNotReady, KState
  <2>6. Consistent(v)
    BY <2>3, <2>4, <2>5 DEF Consistent
  <2> QED
    BY <2>1, <2>2, <2>3, <2>6, TimerStopFacts, Frame
<1> QED
  BY <1>1, <1>2

\* A thread that is not READY, woken in any way, is queued or runs on.
LEMMA WakeFacts ==
  ASSUME NEW kk, Consistent(kk), NEW t \in Threads, kk.stat[t] # "ready"
  PROVE  /\ Consistent(rt_schedule_insert_thread(kk, t))
         /\ rt_schedule_insert_thread(kk, t).cur = kk.cur
<1>1. kk \in KState /\ ListsBut(kk, t) /\ GroupExact(kk)
  BY NotReadyIsOff DEF Consistent
<1> DEFINE r == rt_schedule_insert_thread(kk, t)
<1>2. /\ r \in KState /\ Table(r) /\ r.cur = kk.cur
      /\ r.stat = [kk.stat EXCEPT ![t] = IF t = kk.cur THEN "running" ELSE "ready"]
  BY <1>1, InsertThread
<1>3. kk.stat \in [Threads -> Stats]
  BY <1>1 DEF KState
<1> HIDE DEF r
<1>4. CurrentNotReady(r)
  BY <1>2, <1>3 DEF Consistent, CurrentNotReady
<1> QED
  BY <1>2, <1>4 DEF Consistent, r

\* Unlinking a thread that is not READY from the list it waits on.
LEMMA UnlinkWaiterFacts ==
  ASSUME NEW kk, Consistent(kk), NEW t \in Threads, kk.stat[t] # "ready"
  PROVE  /\ Consistent(rt_list_remove(kk, t))
         /\ rt_list_remove(kk, t).stat = kk.stat
         /\ rt_list_remove(kk, t).cur = kk.cur
<1>1. kk \in KState /\ Table(kk)
  BY DEF Consistent
<1> QED
  BY <1>1, ListRemoveFacts, ListRemoveTable, Frame

LEMMA ResumeFacts ==
  ASSUME NEW kk, Consistent(kk), NEW t \in Threads
  PROVE  /\ Consistent(rt_thread_resume(kk, t))
         /\ rt_thread_resume(kk, t).cur = kk.cur
<1>1. CASE kk.stat[t] # "suspend"
  BY <1>1 DEF rt_thread_resume
<1>2. CASE kk.stat[t] = "suspend"
  <2> DEFINE u == rt_list_remove(kk, t)
             v == rt_timer_stop(u, t)
  <2>1. Consistent(u) /\ u.stat = kk.stat /\ u.cur = kk.cur
    BY <1>2, UnlinkWaiterFacts
  <2> HIDE DEF u
  <2>2. Consistent(v) /\ v.stat = kk.stat /\ v.cur = kk.cur
    BY <2>1, TimerStopFacts, Frame DEF Consistent
  <2> HIDE DEF v
  <2>3. rt_thread_resume(kk, t) = rt_schedule_insert_thread(v, t)
    BY <1>2 DEF rt_thread_resume, u, v
  <2> QED
    BY <1>2, <2>2, <2>3, WakeFacts
<1> QED
  BY <1>1, <1>2

LEMMA StartupFacts ==
  ASSUME NEW kk, Consistent(kk), NEW t \in Threads, kk.stat[t] # "ready"
  PROVE  /\ Consistent(rt_thread_startup(kk, t))
         /\ rt_thread_startup(kk, t).cur = kk.cur
<1> DEFINE u == [kk EXCEPT !.stat[t] = "suspend", !.yld[t] = FALSE]
<1>1. kk \in KState /\ ListsBut(kk, t) /\ GroupExact(kk)
  BY NotReadyIsOff DEF Consistent
<1>2. /\ u \in KState /\ u.prio = kk.prio /\ u.cur = kk.cur
      /\ u.ready = kk.ready /\ u.group = kk.group
      /\ u.stat = [kk.stat EXCEPT ![t] = "suspend"]
  BY <1>1 DEF KState, Stats
<1>3. rt_thread_startup(kk, t) = rt_thread_resume(u, t)
  BY DEF rt_thread_startup
<1> HIDE DEF u
<1>4. Table(u)
  BY <1>1, <1>2, OffIsNotReady DEF Stats
<1>5. CurrentNotReady(u)
  BY <1>1, <1>2 DEF Consistent, CurrentNotReady, KState
<1> QED
  BY <1>2, <1>3, <1>4, <1>5, ResumeFacts DEF Consistent

LEMMA ThreadInitFacts ==
  ASSUME NEW kk, Consistent(kk), NEW t \in Threads, kk.stat[t] # "ready"
  PROVE  /\ Consistent(rt_thread_init(kk, t))
         /\ rt_thread_init(kk, t).cur = kk.cur
         /\ rt_thread_init(kk, t).stat[t] # "ready"
<1> DEFINE u == rt_thread_init(kk, t)
<1>1. kk \in KState /\ ListsBut(kk, t) /\ GroupExact(kk)
  BY NotReadyIsOff DEF Consistent
<1>2. Priority[t] \in Prios /\ InitTick \in 1 .. InitTick
  BY PrioAssumption, BoundAssumption
<1>3. /\ u \in KState /\ u.prio = [kk.prio EXCEPT ![t] = Priority[t]] /\ u.cur = kk.cur
      /\ u.ready = kk.ready /\ u.group = kk.group
      /\ u.stat = [kk.stat EXCEPT ![t] = "init"]
  BY <1>1, <1>2 DEF KState, Stats, Errors, rt_thread_init
<1> HIDE DEF u
<1>4. kk.stat \in [Threads -> Stats] /\ kk.prio \in [Threads -> Prios]
  BY <1>1 DEF KState
<1>5. Table(u)
  BY <1>1, <1>3, <1>4, OffIsNotReady DEF Stats
<1>6. CurrentNotReady(u)
  BY <1>3, <1>4 DEF Consistent, CurrentNotReady
<1> QED
  BY <1>3, <1>4, <1>5, <1>6 DEF Consistent, u

\* A thread that ends is taken off the table and closed.
LEMMA ExitFacts ==
  ASSUME NEW kk, Consistent(kk), NEW t \in Threads
  PROVE  Consistent(CloseThread(rt_schedule_remove_thread(kk, t), t))
<1> DEFINE u == rt_schedule_remove_thread(kk, t)
           v == rt_timer_stop(u, t)
           w == CloseThread(u, t)
<1>1. /\ u \in KState /\ u.stat = kk.stat /\ u.prio = kk.prio /\ u.cur = kk.cur
      /\ ListsBut(u, t) /\ GroupExact(u)
  BY RemoveThread DEF Consistent
<1> HIDE DEF u
<1>2. /\ v \in KState /\ v.stat = u.stat /\ v.prio = u.prio /\ v.cur = u.cur
      /\ v.ready = u.ready /\ v.group = u.group
  BY <1>1, TimerStopFacts
<1>3. <<t>> \o u.defunct \in Seq(Threads)
  BY <1>1, AddElements DEF KState
<1>4. w = [v EXCEPT !.stat[t] = "close", !.yld[t] = FALSE, !.defunct = <<t>> \o u.defunct]
  BY DEF CloseThread
<1> HIDE DEF v, w
<1>5. /\ w \in KState /\ w.prio = u.prio /\ w.cur = u.cur
      /\ w.ready = u.ready /\ w.group = u.group
      /\ w.stat = [u.stat EXCEPT ![t] = "close"]
  BY <1>2, <1>3, <1>4 DEF KState, Stats
<1>6. Table(w)
  BY <1>1, <1>5, OffIsNotReady DEF Stats
<1>7. CurrentNotReady(w)
  BY <1>1, <1>5 DEF Consistent, CurrentNotReady, KState
<1> QED
  BY <1>5, <1>6, <1>7 DEF Consistent, u, w

\* The timeout function keeps the table right whatever state it finds the thread in.
LEMMA ThreadTimeoutFacts ==
  ASSUME NEW kk, Consistent(kk), NEW t \in Threads, kk.cur \in Threads
  PROVE  Consistent(_thread_timeout(kk, t)) /\ _thread_timeout(kk, t).cur \in Threads
<1> DEFINE u == [kk EXCEPT !.err[t] = "timeout"]
           v == rt_list_remove(u, t)
           w == rt_schedule_insert_thread(v, t)
<1>1. /\ u \in KState /\ u.stat = kk.stat /\ u.prio = kk.prio /\ u.cur = kk.cur
      /\ u.ready = kk.ready /\ u.group = kk.group
  BY DEF Consistent, KState, Errors
<1>2. _thread_timeout(kk, t) = rt_schedule(w)
  BY DEF _thread_timeout
<1> HIDE DEF u
<1>3. Consistent(u)
  BY <1>1, Frame
<1>4. CASE kk.stat[t] # "ready"
  <2>1. Consistent(v) /\ v.stat = u.stat /\ v.cur = u.cur
    BY <1>1, <1>3, <1>4, UnlinkWaiterFacts
  <2> HIDE DEF v
  <2>2. Consistent(w) /\ w.cur = u.cur
    BY <1>1, <1>4, <2>1, WakeFacts
  <2> HIDE DEF w
  <2> QED
    BY <1>1, <1>2, <2>2, ScheduleFacts
<1>5. CASE kk.stat[t] = "ready"
  <2>1. /\ v \in KState /\ v.stat = u.stat /\ v.cur = u.cur
        /\ ListsBut(v, t) /\ GroupBut(v, t)
    BY <1>1, <1>3, ListRemoveFacts, ListRemoveTable DEF Consistent
  <2>2. t # u.cur
    BY <1>1, <1>3, <1>5 DEF Consistent, CurrentNotReady
  <2> HIDE DEF v
  <2>3. /\ w \in KState /\ Table(w) /\ w.cur = u.cur
        /\ w.stat = [u.stat EXCEPT ![t] = IF t = u.cur THEN "running" ELSE "ready"]
    BY <2>1, <2>2, InsertThread
  <2> HIDE DEF w
  <2>4. u.stat \in [Threads -> Stats]
    BY <1>1 DEF KState
  <2>5. Consistent(w)
    BY <1>3, <2>2, <2>3, <2>4 DEF Consistent, CurrentNotReady
  <2> QED
    BY <1>1, <1>2, <2>3, <2>5, ScheduleFacts
<1> QED
  BY <1>4, <1>5

\* The branch of rt_sem_take that waits.
LEMMA SemWaitFacts ==
  ASSUME NEW kk, Consistent(kk), NEW t \in Threads, NEW s \in Sems,
         NEW timeout \in (0 .. MaxTimeout) \cup {None}
  PROVE  Consistent(SemWait(kk, s, t, timeout)) /\ SemWait(kk, s, t, timeout).cur = kk.cur
<1> DEFINE u == [kk EXCEPT !.err[t] = "ok"]
           v == rt_thread_suspend(u, t)
           q == IF PrioFlag THEN InsertSorted(v.waitq[s], t, v.prio) ELSE Append(v.waitq[s], t)
           w == _ipc_list_suspend(u, s, t)
<1>1. /\ u \in KState /\ u.stat = kk.stat /\ u.prio = kk.prio /\ u.cur = kk.cur
      /\ u.ready = kk.ready /\ u.group = kk.group
  BY DEF Consistent, KState, Errors
<1>2. SemWait(kk, s, t, timeout) = IF timeout = None THEN w ELSE rt_timer_start(w, t, timeout)
  BY DEF SemWait
<1> HIDE DEF u
<1>3. Consistent(v) /\ v.cur = kk.cur
  BY <1>1, Frame, SuspendFacts
<1>4. w = [v EXCEPT !.waitq[s] = q]
  BY DEF _ipc_list_suspend
<1> HIDE DEF v, w
<1>5. q \in Seq(Threads)
  <2>1. v.waitq[s] \in Seq(Threads)
    BY <1>3 DEF Consistent, KState
  <2>2. InsertSorted(v.waitq[s], t, v.prio) \in Seq(Threads)
    BY <2>1, InsertSortedElements
  <2> QED
    BY <2>1, <2>2
<1> HIDE DEF q
<1>6. /\ w \in KState /\ w.stat = v.stat /\ w.prio = v.prio /\ w.cur = v.cur
      /\ w.ready = v.ready /\ w.group = v.group
  BY <1>3, <1>4, <1>5 DEF Consistent, KState
<1>7. Consistent(w)
  BY <1>3, <1>6, Frame
<1>8. CASE timeout = None
  BY <1>2, <1>3, <1>6, <1>7, <1>8
<1>9. CASE timeout # None
  BY <1>2, <1>3, <1>6, <1>7, <1>9, TimerStartFacts, Frame
<1> QED
  BY <1>8, <1>9

\* The masked part of rt_sem_release.
LEMMA SemGiveFacts ==
  ASSUME NEW kk, Consistent(kk), NEW s \in Sems
  PROVE  Consistent(SemGive(kk, s)) /\ SemGive(kk, s).cur = kk.cur
<1>1. CASE kk.waitq[s] # <<>>
  <2>1. Head(kk.waitq[s]) \in Threads
    BY <1>1, HeadTailProperties DEF Consistent, KState
  <2> QED
    BY <1>1, <2>1, ResumeFacts DEF SemGive, _ipc_list_resume
<1>2. CASE kk.waitq[s] = <<>> /\ kk.val[s] < SemMax
  <2> DEFINE u == [kk EXCEPT !.val[s] = @ + 1]
  <2>1. kk.val[s] + 1 \in 0 .. SemMax
    BY <1>2, BoundAssumption DEF Consistent, KState
  <2>2. /\ u \in KState /\ u.stat = kk.stat /\ u.prio = kk.prio /\ u.cur = kk.cur
        /\ u.ready = kk.ready /\ u.group = kk.group
    BY <2>1 DEF Consistent, KState
  <2>3. SemGive(kk, s) = u
    BY <1>2 DEF SemGive
  <2> HIDE DEF u
  <2> QED
    BY <2>2, <2>3, Frame
<1>3. CASE kk.waitq[s] = <<>> /\ ~(kk.val[s] < SemMax)
  BY <1>3 DEF SemGive
<1> QED
  BY <1>1, <1>2, <1>3

-----------------------------------------------------------------------------
(* Timers and closed threads.                                              *)

\* A thread that is parked nowhere may take any state.
LEMMA ParkedFrame ==
  ASSUME NEW kk \in KState, Parked(kk), NEW t \in Threads, NEW r,
         r.timers = kk.timers,
         \A u \in Threads : Contains(r.defunct, u) => Contains(kk.defunct, u),
         \/ r.stat = kk.stat
         \/ /\ kk.stat[t] \notin {"suspend", "close"}
            /\ \A u \in Threads : u # t => r.stat[u] = kk.stat[u]
  PROVE  Parked(r)
BY DEF Parked

LEMMA ListRemoveParked ==
  ASSUME NEW kk \in KState, NEW t \in Threads
  PROVE  /\ rt_list_remove(kk, t).timers = kk.timers
         /\ \A u : Contains(rt_list_remove(kk, t).defunct, u) => Contains(kk.defunct, u)
<1>1. /\ rt_list_remove(kk, t).timers = kk.timers
      /\ rt_list_remove(kk, t).defunct = Unlink(kk.defunct, t)
  BY DEF KState, rt_list_remove
<1> QED
  BY <1>1, UnlinkSubset DEF KState

LEMMA RemoveThreadParked ==
  ASSUME NEW kk \in KState, NEW t \in Threads
  PROVE  /\ rt_schedule_remove_thread(kk, t).timers = kk.timers
         /\ \A u : Contains(rt_schedule_remove_thread(kk, t).defunct, u)
                     => Contains(kk.defunct, u)
<1> DEFINE u == rt_list_remove(kk, t)
           r == rt_schedule_remove_thread(kk, t)
<1>1. u \in KState
  BY ListRemoveFacts
<1>2. r = u \/ r = [u EXCEPT !.group = kk.group \ {kk.prio[t]}]
  BY DEF rt_schedule_remove_thread
<1>3. u.timers = kk.timers /\ \A v : Contains(u.defunct, v) => Contains(kk.defunct, v)
  BY ListRemoveParked
<1> HIDE DEF u, r
<1>4. r.timers = u.timers /\ r.defunct = u.defunct
  BY <1>1, <1>2 DEF KState
<1> QED
  BY <1>3, <1>4 DEF r

LEMMA InsertThreadParked ==
  ASSUME NEW kk \in KState, NEW t \in Threads
  PROVE  /\ rt_schedule_insert_thread(kk, t).timers = kk.timers
         /\ rt_schedule_insert_thread(kk, t).defunct = kk.defunct
BY DEF KState, rt_schedule_insert_thread

LEMMA MakeRunningParked ==
  ASSUME NEW kk \in KState, NEW t \in Threads, Table(kk), Parked(kk),
         kk.stat[t] \notin {"suspend", "close"}
  PROVE  Parked(MakeRunning(kk, t))
<1> DEFINE u == rt_schedule_remove_thread(kk, t)
           r == MakeRunning(kk, t)
<1>1. u \in KState /\ u.stat = kk.stat
  BY RemoveThread
<1>2. u.timers = kk.timers /\ \A v : Contains(u.defunct, v) => Contains(kk.defunct, v)
  BY RemoveThreadParked
<1>3. r = [u EXCEPT !.stat[t] = "running"]
  BY DEF MakeRunning
<1> HIDE DEF u, r
<1>4. /\ r.timers = u.timers /\ r.defunct = u.defunct
      /\ r.stat = [u.stat EXCEPT ![t] = "running"] /\ u.stat \in [Threads -> Stats]
  BY <1>1, <1>3 DEF KState
<1>5. Parked(r)
  BY <1>1, <1>2, <1>4, ParkedFrame
<1> QED
  BY <1>5 DEF r

\* rt_schedule gives the CPU to a thread that is READY or RUNNING.
LEMMA ScheduleParked ==
  ASSUME NEW kk, Consistent(kk), kk.cur \in Threads, Parked(kk)
  PROVE  Parked(rt_schedule(kk))
<1> DEFINE p       == HighestReady(kk)
           from    == kk.cur
           to      == IF KeepsCpu(kk, p) THEN from ELSE Head(kk.ready[p])
           running == kk.stat[from] = "running"
           cleared == [kk EXCEPT !.yld[from] = kk.yld[from] /\ ~running]
           moved   == [cleared EXCEPT !.cur = to]
           queued  == rt_schedule_insert_thread(moved, from)
<1>1. kk \in KState /\ Table(kk)
  BY DEF Consistent
<1>2. CASE ~CanSchedule(kk)
  BY <1>2 DEF rt_schedule
<1>3. CASE CanSchedule(kk)
  <2>1. rt_schedule(kk) = IF to # from /\ running
                          THEN MakeRunning(queued, to)
                          ELSE MakeRunning(moved, to)
    BY <1>3 DEF rt_schedule
  <2>2. to \in Threads /\ kk.stat[to] \notin {"suspend", "close"}
    <3>1. CASE KeepsCpu(kk, p)
      BY <3>1 DEF KeepsCpu
    <3>2. CASE ~KeepsCpu(kk, p)
      <4>1. p \in Prios /\ p \in kk.group
        BY <1>1, <1>3, HighestReadyFacts DEF CanSchedule
      <4> HIDE DEF p
      <4>2. kk.ready[p] \in Seq(Threads) /\ kk.ready[p] # <<>> /\ IsInjective(kk.ready[p])
        BY <1>1, <4>1 DEF Table, GroupExact, ListsBut, KState
      <4>3. Head(kk.ready[p]) \in Threads /\ Contains(kk.ready[p], Head(kk.ready[p]))
        BY <4>2, TailElements
      <4> QED
        BY <1>1, <3>2, <4>1, <4>3 DEF Table, ListsBut
    <3> QED
      BY <3>1, <3>2
  <2> HIDE DEF to
  <2>3. /\ moved \in KState
        /\ moved.cur = to /\ moved.stat = kk.stat /\ moved.prio = kk.prio
        /\ moved.ready = kk.ready /\ moved.group = kk.group
        /\ moved.timers = kk.timers /\ moved.defunct = kk.defunct
    BY <1>1, <2>2 DEF KState
  <2> HIDE DEF moved
  <2>4. Table(moved) /\ Parked(moved)
    BY <1>1, <2>3 DEF Table, ListsBut, GroupExact, Parked
  <2>5. CASE to # from /\ running
    <3>1. ListsBut(moved, from) /\ GroupExact(moved)
      BY <2>3, <2>4, <2>5, NoneAssumption DEF Table, ListsBut
    <3>2. /\ queued \in KState /\ Table(queued)
          /\ queued.stat = [moved.stat EXCEPT ![from] = IF from = to THEN "running" ELSE "ready"]
      BY <2>3, <3>1, InsertThread
    <3>3. queued.timers = moved.timers /\ queued.defunct = moved.defunct
      BY <2>3, InsertThreadParked
    <3> HIDE DEF queued
    <3>4. moved.stat \in [Threads -> Stats]
      BY <2>3 DEF KState
    <3>5. Parked(queued)
      BY <2>3, <2>4, <2>5, <3>2, <3>3, <3>4, ParkedFrame
    <3>6. queued.stat[to] \notin {"suspend", "close"}
      BY <2>2, <2>3, <2>5, <3>2, <3>4
    <3> QED
      BY <2>1, <2>2, <2>5, <3>2, <3>5, <3>6, MakeRunningParked
  <2>6. CASE ~(to # from /\ running)
    BY <2>1, <2>2, <2>3, <2>4, <2>6, MakeRunningParked
  <2> QED
    BY <2>5, <2>6
<1> QED
  BY <1>2, <1>3

\* After rt_timer_stop the thread has no timer armed.
LEMMA TimerStopParked ==
  ASSUME NEW kk \in KState, NEW t \in Threads, Parked(kk)
  PROVE  /\ Parked(rt_timer_stop(kk, t))
         /\ ~Contains(rt_timer_stop(kk, t).timers, t)
         /\ \A u : Contains(rt_timer_stop(kk, t).timers, u) => Contains(kk.timers, u)
         /\ rt_timer_stop(kk, t).defunct = kk.defunct
<1>1. /\ rt_timer_stop(kk, t).timers = Unlink(kk.timers, t)
      /\ rt_timer_stop(kk, t).defunct = kk.defunct
      /\ rt_timer_stop(kk, t).stat = kk.stat
      /\ kk.timers \in Seq(Threads)
  BY DEF KState, rt_timer_stop
<1>2. /\ IsInjective(Unlink(kk.timers, t))
      /\ \A u : Contains(Unlink(kk.timers, t), u) <=> Contains(kk.timers, u) /\ u # t
  BY <1>1, UnlinkElements DEF Parked
<1> QED
  BY <1>1, <1>2 DEF Parked

LEMMA TimerStartParked ==
  ASSUME NEW kk \in KState, NEW t \in Threads, NEW timeout, Parked(kk),
         kk.stat[t] = "suspend"
  PROVE  Parked(rt_timer_start(kk, t, timeout))
<1> DEFINE left == [kk.left EXCEPT ![t] = timeout]
           rest == Unlink(kk.timers, t)
           timers == InsertSorted(rest, t, left)
           r == rt_timer_start(kk, t, timeout)
<1>1. r = [kk EXCEPT !.left = left, !.timers = timers]
  BY DEF rt_timer_start
<1>2. /\ rest \in Seq(Threads) /\ IsInjective(rest)
      /\ \A u : Contains(rest, u) <=> Contains(kk.timers, u) /\ u # t
  BY UnlinkElements DEF Parked, KState
<1> HIDE DEF left, rest
<1>3. /\ IsInjective(timers)
      /\ \A u : Contains(timers, u) => Contains(kk.timers, u) \/ u = t
  BY <1>2, InsertSortedElements
<1> HIDE DEF timers, r
<1>4. r.timers = timers /\ r.defunct = kk.defunct /\ r.stat = kk.stat
  BY <1>1 DEF KState
<1>5. Parked(r)
  BY <1>3, <1>4 DEF Parked
<1> QED
  BY <1>5 DEF r

\* A thread that suspends itself was RUNNING.
LEMMA SuspendParked ==
  ASSUME NEW kk, Consistent(kk), NEW t \in Threads, Parked(kk), kk.stat[t] = "running"
  PROVE  Parked(rt_thread_suspend(kk, t)) /\ rt_thread_suspend(kk, t).stat[t] = "suspend"
<1> DEFINE u == rt_schedule_remove_thread(kk, t)
           v == [u EXCEPT !.stat[t] = "suspend"]
<1>1. rt_thread_suspend(kk, t) = rt_timer_stop(v, t)
  BY DEF rt_thread_suspend
<1>2. u \in KState /\ u.stat = kk.stat
  BY RemoveThread DEF Consistent
<1>3. u.timers = kk.timers /\ \A w : Contains(u.defunct, w) => Contains(kk.defunct, w)
  BY RemoveThreadParked DEF Consistent
<1> HIDE DEF u
<1>4. /\ v \in KState /\ v.timers = u.timers /\ v.defunct = u.defunct
      /\ v.stat = [u.stat EXCEPT ![t] = "suspend"] /\ u.stat \in [Threads -> Stats]
  BY <1>2 DEF KState, Stats
<1> HIDE DEF v
<1>5. Parked(v)
  BY <1>2, <1>3, <1>4, ParkedFrame DEF Consistent
<1> QED
  BY <1>1, <1>4, <1>5, TimerStopParked, TimerStopFacts

\* A resumed thread loses its timer.
LEMMA ResumeParked ==
  ASSUME NEW kk, Consistent(kk), NEW t \in Threads, Parked(kk)
  PROVE  Parked(rt_thread_resume(kk, t))
<1>1. CASE kk.stat[t] # "suspend"
  BY <1>1 DEF rt_thread_resume
<1>2. CASE kk.stat[t] = "suspend"
  <2> DEFINE u == rt_list_remove(kk, t)
             v == rt_timer_stop(u, t)
             r == rt_schedule_insert_thread(v, t)
  <2>1. /\ Consistent(u) /\ u.stat = kk.stat /\ u.timers = kk.timers
        /\ \A w : Contains(u.defunct, w) => Contains(kk.defunct, w)
    BY <1>2, UnlinkWaiterFacts, ListRemoveParked DEF Consistent
  <2> HIDE DEF u
  <2>2. Parked(u)
    BY <2>1, ParkedFrame DEF Consistent
  <2>3. /\ Consistent(v) /\ v.stat = kk.stat /\ Parked(v) /\ ~Contains(v.timers, t)
    BY <2>1, <2>2, TimerStopFacts, TimerStopParked, Frame DEF Consistent
  <2> HIDE DEF v
  <2>4. /\ r.timers = v.timers /\ r.defunct = v.defunct
        /\ \A w \in Threads : w # t => r.stat[w] = v.stat[w]
    <3>1. v \in KState /\ ListsBut(v, t) /\ GroupExact(v)
      BY <1>2, <2>3, NotReadyIsOff DEF Consistent
    <3>2. r.stat = [v.stat EXCEPT ![t] = IF t = v.cur THEN "running" ELSE "ready"]
      BY <3>1, InsertThread
    <3>3. v.stat \in [Threads -> Stats]
      BY <3>1 DEF KState
    <3> HIDE DEF r
    <3> QED
      BY <3>1, <3>2, <3>3, InsertThreadParked DEF r
  <2>5. rt_thread_resume(kk, t) = r
    BY <1>2 DEF rt_thread_resume, u, v
  <2> HIDE DEF r
  <2>6. Parked(r)
    BY <1>2, <2>3, <2>4 DEF Parked
  <2> QED
    BY <2>5, <2>6
<1> QED
  BY <1>1, <1>2

\* A thread that is started is neither armed nor closed.
LEMMA StartupParked ==
  ASSUME NEW kk, Consistent(kk), NEW t \in Threads, Parked(kk),
         kk.stat[t] \notin {"ready", "close"}, ~Contains(kk.timers, t)
  PROVE  Parked(rt_thread_startup(kk, t))
<1> DEFINE u == [kk EXCEPT !.stat[t] = "suspend", !.yld[t] = FALSE]
<1>1. kk \in KState /\ ListsBut(kk, t) /\ GroupExact(kk)
  BY NotReadyIsOff DEF Consistent
<1>2. /\ u \in KState /\ u.prio = kk.prio /\ u.cur = kk.cur
      /\ u.ready = kk.ready /\ u.group = kk.group
      /\ u.stat = [kk.stat EXCEPT ![t] = "suspend"] /\ kk.stat \in [Threads -> Stats]
      /\ u.timers = kk.timers /\ u.defunct = kk.defunct
  BY <1>1 DEF KState, Stats
<1>3. rt_thread_startup(kk, t) = rt_thread_resume(u, t)
  BY DEF rt_thread_startup
<1> HIDE DEF u
<1>4. Table(u)
  BY <1>1, <1>2, OffIsNotReady DEF Stats
<1>5. CurrentNotReady(u)
  BY <1>1, <1>2 DEF Consistent, CurrentNotReady, KState
<1>6. Parked(u)
  BY <1>2 DEF Parked
<1> QED
  BY <1>2, <1>3, <1>4, <1>5, <1>6, ResumeParked DEF Consistent

\* rt_thread_init is called on a closed thread the idle thread has let go.
LEMMA ThreadInitParked ==
  ASSUME NEW kk \in KState, NEW t \in Threads, Parked(kk),
         kk.stat[t] # "suspend", ~Contains(kk.defunct, t)
  PROVE  /\ Parked(rt_thread_init(kk, t))
         /\ ~Contains(rt_thread_init(kk, t).timers, t)
         /\ rt_thread_init(kk, t).stat[t] = "init"
<1> DEFINE u == rt_thread_init(kk, t)
<1>1. /\ u.stat = [kk.stat EXCEPT ![t] = "init"] /\ kk.stat \in [Threads -> Stats]
      /\ u.timers = kk.timers /\ u.defunct = kk.defunct
  BY DEF KState, rt_thread_init
<1> HIDE DEF u
<1>2. Parked(u) /\ ~Contains(u.timers, t) /\ u.stat[t] = "init"
  BY <1>1 DEF Parked
<1> QED
  BY <1>2 DEF u

LEMMA ExitParked ==
  ASSUME NEW kk, Consistent(kk), NEW t \in Threads, Parked(kk), kk.stat[t] = "running"
  PROVE  Parked(CloseThread(rt_schedule_remove_thread(kk, t), t))
<1> DEFINE u == rt_schedule_remove_thread(kk, t)
           v == rt_timer_stop(u, t)
           d == <<t>> \o u.defunct
           w == CloseThread(u, t)
<1>1. u \in KState /\ u.stat = kk.stat
  BY RemoveThread DEF Consistent
<1>2. u.timers = kk.timers /\ \A x : Contains(u.defunct, x) => Contains(kk.defunct, x)
  BY RemoveThreadParked DEF Consistent
<1> HIDE DEF u
<1>3. Parked(u)
  BY <1>1, <1>2, ParkedFrame DEF Consistent
<1>4. /\ v \in KState /\ v.stat = u.stat /\ v.defunct = u.defunct /\ Parked(v)
      /\ ~Contains(v.timers, t)
  BY <1>1, <1>3, TimerStopFacts, TimerStopParked
<1>5. \A x : Contains(d, x) => Contains(u.defunct, x) \/ x = t
  <2> DEFINE old == u.defunct
  <2>1. old \in Seq(Threads) /\ (d = Append(old, t) \/ d = <<t>> \o old)
    BY <1>1 DEF KState
  <2> HIDE DEF d, old
  <2>2. \A x : Contains(d, x) => Contains(old, x) \/ x = t
    BY <2>1, AddElements
  <2> QED
    BY <2>2 DEF old
<1>6. w = [v EXCEPT !.stat[t] = "close", !.yld[t] = FALSE, !.defunct = d]
  BY DEF CloseThread
<1> HIDE DEF v, w, d
<1>7. /\ w.timers = v.timers /\ w.defunct = d
      /\ w.stat = [v.stat EXCEPT ![t] = "close"] /\ v.stat \in [Threads -> Stats]
  BY <1>4, <1>6 DEF KState
<1>8. Parked(w)
  BY <1>4, <1>5, <1>7 DEF Parked
<1> QED
  BY <1>8 DEF u, w

\* The timer that expires has left the list.
LEMMA ThreadTimeoutParked ==
  ASSUME NEW kk, Consistent(kk), NEW t \in Threads, kk.cur \in Threads, Parked(kk),
         kk.stat[t] = "suspend", ~Contains(kk.timers, t)
  PROVE  Parked(_thread_timeout(kk, t))
<1> DEFINE u == [kk EXCEPT !.err[t] = "timeout"]
           v == rt_list_remove(u, t)
           w == rt_schedule_insert_thread(v, t)
<1>1. /\ u \in KState /\ u.stat = kk.stat /\ u.prio = kk.prio /\ u.cur = kk.cur
      /\ u.ready = kk.ready /\ u.group = kk.group
      /\ u.timers = kk.timers /\ u.defunct = kk.defunct
  BY DEF Consistent, KState, Errors
<1>2. _thread_timeout(kk, t) = rt_schedule(w)
  BY DEF _thread_timeout
<1> HIDE DEF u
<1>3. Consistent(u) /\ Parked(u)
  BY <1>1, Frame DEF Parked
<1>4. /\ Consistent(v) /\ v.stat = u.stat /\ v.cur = u.cur /\ v.timers = u.timers
      /\ \A x : Contains(v.defunct, x) => Contains(u.defunct, x)
  BY <1>1, <1>3, UnlinkWaiterFacts, ListRemoveParked
<1> HIDE DEF v
<1>5. v \in KState /\ ListsBut(v, t) /\ GroupExact(v)
  BY <1>1, <1>4, NotReadyIsOff DEF Consistent
<1>6. /\ w.timers = v.timers /\ w.defunct = v.defunct
      /\ w.stat = [v.stat EXCEPT ![t] = IF t = v.cur THEN "running" ELSE "ready"]
      /\ v.stat \in [Threads -> Stats]
  BY <1>5, InsertThread, InsertThreadParked DEF KState
<1>7. Consistent(w) /\ w.cur = u.cur
  BY <1>1, <1>4, WakeFacts
<1> HIDE DEF w
<1>8. Parked(w)
  BY <1>1, <1>3, <1>4, <1>6 DEF Parked
<1> QED
  BY <1>1, <1>2, <1>7, <1>8, ScheduleParked

LEMMA SemWaitParked ==
  ASSUME NEW kk, Consistent(kk), NEW t \in Threads, NEW s \in Sems, Parked(kk),
         NEW timeout \in (0 .. MaxTimeout) \cup {None}, kk.stat[t] = "running"
  PROVE  Parked(SemWait(kk, s, t, timeout))
<1> DEFINE u == [kk EXCEPT !.err[t] = "ok"]
           v == rt_thread_suspend(u, t)
           q == IF PrioFlag THEN InsertSorted(v.waitq[s], t, v.prio) ELSE Append(v.waitq[s], t)
           w == _ipc_list_suspend(u, s, t)
<1>1. /\ u \in KState /\ u.stat = kk.stat /\ u.prio = kk.prio /\ u.cur = kk.cur
      /\ u.ready = kk.ready /\ u.group = kk.group
      /\ u.timers = kk.timers /\ u.defunct = kk.defunct
  BY DEF Consistent, KState, Errors
<1>2. SemWait(kk, s, t, timeout) = IF timeout = None THEN w ELSE rt_timer_start(w, t, timeout)
  BY DEF SemWait
<1> HIDE DEF u
<1>3. Consistent(u) /\ Parked(u)
  BY <1>1, Frame DEF Parked
<1>4. Consistent(v) /\ Parked(v) /\ v.stat[t] = "suspend"
  BY <1>1, <1>3, SuspendFacts, SuspendParked
<1>5. w = [v EXCEPT !.waitq[s] = q]
  BY DEF _ipc_list_suspend
<1> HIDE DEF v, w
<1>6. q \in Seq(Threads)
  <2>1. v.waitq[s] \in Seq(Threads)
    BY <1>4 DEF Consistent, KState
  <2>2. InsertSorted(v.waitq[s], t, v.prio) \in Seq(Threads)
    BY <2>1, InsertSortedElements
  <2> QED
    BY <2>1, <2>2
<1> HIDE DEF q
<1>7. /\ w \in KState /\ w.stat = v.stat /\ w.timers = v.timers /\ w.defunct = v.defunct
  BY <1>4, <1>5, <1>6 DEF Consistent, KState
<1>8. Parked(w)
  BY <1>4, <1>7 DEF Parked
<1> QED
  BY <1>2, <1>4, <1>7, <1>8, TimerStartParked

LEMMA SemGiveParked ==
  ASSUME NEW kk, Consistent(kk), NEW s \in Sems, Parked(kk)
  PROVE  Parked(SemGive(kk, s))
<1>1. CASE kk.waitq[s] # <<>>
  <2>1. Head(kk.waitq[s]) \in Threads
    BY <1>1, HeadTailProperties DEF Consistent, KState
  <2> QED
    BY <1>1, <2>1, ResumeParked DEF SemGive, _ipc_list_resume
<1>2. CASE kk.waitq[s] = <<>>
  <2> DEFINE r == SemGive(kk, s)
  <2>1. r.stat = kk.stat /\ r.timers = kk.timers /\ r.defunct = kk.defunct
    BY <1>2 DEF SemGive, Consistent, KState
  <2> HIDE DEF r
  <2>2. Parked(r)
    BY <2>1 DEF Parked
  <2> QED
    BY <2>2 DEF r
<1> QED
  BY <1>1, <1>2

\* The head of a list that is not empty, and the list without it.
LEMMA HeadAndTail ==
  ASSUME NEW q \in Seq(Threads), q # <<>>
  PROVE  Head(q) \in Threads /\ Contains(q, Head(q)) /\ Tail(q) \in Seq(Threads)
<1>1. Head(q) = q[1] /\ 1 \in 1 .. Len(q)
  BY EmptySeq, HeadTailProperties
<1> QED
  BY <1>1, HeadTailProperties DEF Contains

-----------------------------------------------------------------------------
(* The steps of the kernel.                                                *)

LEMMA InitIInv == Init => IInv
<1> SUFFICES ASSUME Init
             PROVE  IInv
  OBVIOUS
<1>1. k \in KState
  BY PrioAssumption, BoundAssumption DEF Init, KInit, KState, Stats, Errors
<1>2. TypeOK
  BY <1>1 DEF Init, TypeOK, Places, Windows, After
<1>3. Table(k)
  <2>1. \A p \in Prios : k.ready[p] = <<>> /\ p \notin k.group
    BY DEF Init, KInit
  <2>2. \A t \in Threads : k.stat[t] = "init"
    BY DEF Init, KInit
  <2> QED
    BY <2>1, <2>2 DEF Table, ListsBut, GroupExact, Contains, IsInjective
<1>4. Parked(k)
  BY DEF Init, KInit, Parked, Contains, IsInjective
<1>5. CurrentNotReady(k) /\ TickHasCurrent
  BY NoneAssumption DEF Init, KInit, CurrentNotReady, TickHasCurrent
<1> QED
  BY <1>1, <1>2, <1>3, <1>5, <1>4 DEF IInv, Sound, Consistent

LEMMA BootIInv == IInv /\ Boot => IInv'
<1> SUFFICES ASSUME IInv, Boot
             PROVE  IInv'
  OBVIOUS
<1>1. ASSUME NEW t \in Threads, BootStartup(t)
      PROVE  IInv'
  <2>1. Sound(k')
    <3>1. k.stat[t] \notin {"ready", "close"} /\ ~Contains(k.timers, t)
      BY <1>1 DEF IInv, Sound, Parked, BootStartup
    <3> QED
      BY <1>1, <3>1, StartupFacts, StartupParked DEF IInv, Sound, BootStartup
  <2>2. isr # "timers"
    BY <1>1, NoneAssumption DEF IInv, BootStartup, TickHasCurrent
  <2> QED
    BY <1>1, <2>1, <2>2 DEF IInv, TypeOK, BootStartup, Sound, Consistent, TickHasCurrent, ghosts
<1>2. ASSUME StartScheduler
      PROVE  IInv'
  <2> DEFINE to == Head(k.ready[HighestReady(k)])
             u == [k EXCEPT !.cur = to]
  <2>1. k \in KState /\ Table(k) /\ Parked(k)
    BY DEF IInv, Sound, Consistent
  <2>2. k.group # {}
    <3>1. PICK t \in Threads : k.stat[t] = "ready" /\ k.prio[t] \in Prios
      BY <1>2, <2>1, ThreadsAssumption DEF StartScheduler, KState
    <3>2. Contains(k.ready[k.prio[t]], t)
      BY <2>1, <3>1, NoneAssumption DEF Table, ListsBut
    <3>3. k.ready[k.prio[t]] # <<>>
      BY <3>2 DEF Contains
    <3> QED
      BY <2>1, <3>1, <3>3 DEF Table, GroupExact
  <2>3. to \in Threads
    BY <2>1, <2>2, HighestReadyFacts
  <2>4. k' = MakeRunning(u, to)
    BY <1>2 DEF StartScheduler, rt_system_scheduler_start
  <2> HIDE DEF to
  <2>5. /\ u \in KState /\ u.stat = k.stat /\ u.prio = k.prio /\ u.cur = to
        /\ u.ready = k.ready /\ u.group = k.group
        /\ u.timers = k.timers /\ u.defunct = k.defunct
    BY <2>1, <2>3 DEF KState
  <2> HIDE DEF u
  <2>6. Table(u) /\ Parked(u)
    BY <2>1, <2>5 DEF Table, ListsBut, GroupExact, Parked
  <2>7. Consistent(k') /\ k'.cur = to
    BY <2>3, <2>4, <2>5, <2>6, MakeRunningFacts
  <2>8. Parked(k')
    BY <1>2, <2>3, <2>4, <2>5, <2>6, MakeRunningParked DEF StartScheduler
  <2> QED
    BY <1>2, <2>3, <2>7, <2>8 DEF Sound, IInv, TypeOK, StartScheduler, Consistent, TickHasCurrent, ghosts
<1> QED
  BY <1>1, <1>2 DEF Boot

\* A step of a thread that keeps the record consistent and the other variables in
\* their types: the interrupt handler is not running.
LEMMA ThreadStepFrame ==
  ASSUME IInv, isr = "off", isr' = isr, Sound(k'),
         pc' \in [Threads -> Places],
         want' \in [Threads -> Sems \cup {None}],
         grant' \in [Threads -> Sems \cup {None}],
         credit' \in [Sems -> Int]
  PROVE  IInv'
BY DEF IInv, TypeOK, Sound, Consistent, TickHasCurrent

\* A field that neither the table nor the lists depend on may be assigned.
LEMMA AssignField ==
  ASSUME NEW kk, Sound(kk), NEW t \in Threads
  PROVE  /\ \A s \in Sems, n \in 0 .. SemMax : Sound([kk EXCEPT !.val[s] = n])
         /\ \A e \in Errors : Sound([kk EXCEPT !.err[t] = e])
         /\ \A n \in Nat : Sound([kk EXCEPT !.lock = n])
         /\ \A n \in 1 .. InitTick, b \in BOOLEAN :
              /\ Sound([kk EXCEPT !.slice[t] = n, !.yld[t] = b])
              /\ Sound([kk EXCEPT !.slice[t] = n])
<1>1. ASSUME NEW s \in Sems, NEW n \in 0 .. SemMax
      PROVE  Sound([kk EXCEPT !.val[s] = n])
  <2> DEFINE r == [kk EXCEPT !.val[s] = n]
  <2>1. /\ r \in KState /\ r.stat = kk.stat /\ r.prio = kk.prio /\ r.cur = kk.cur
        /\ r.ready = kk.ready /\ r.group = kk.group
        /\ r.timers = kk.timers /\ r.defunct = kk.defunct
    BY DEF Sound, Consistent, KState
  <2> HIDE DEF r
  <2>2. Sound(r)
    BY <2>1, Frame DEF Sound, Parked
  <2> QED
    BY <2>2 DEF r
<1>2. ASSUME NEW e \in Errors
      PROVE  Sound([kk EXCEPT !.err[t] = e])
  <2> DEFINE r == [kk EXCEPT !.err[t] = e]
  <2>1. /\ r \in KState /\ r.stat = kk.stat /\ r.prio = kk.prio /\ r.cur = kk.cur
        /\ r.ready = kk.ready /\ r.group = kk.group
        /\ r.timers = kk.timers /\ r.defunct = kk.defunct
    BY DEF Sound, Consistent, KState
  <2> HIDE DEF r
  <2>2. Sound(r)
    BY <2>1, Frame DEF Sound, Parked
  <2> QED
    BY <2>2 DEF r
<1>3. ASSUME NEW n \in Nat
      PROVE  Sound([kk EXCEPT !.lock = n])
  <2> DEFINE r == [kk EXCEPT !.lock = n]
  <2>1. /\ r \in KState /\ r.stat = kk.stat /\ r.prio = kk.prio /\ r.cur = kk.cur
        /\ r.ready = kk.ready /\ r.group = kk.group
        /\ r.timers = kk.timers /\ r.defunct = kk.defunct
    BY DEF Sound, Consistent, KState
  <2> HIDE DEF r
  <2>2. Sound(r)
    BY <2>1, Frame DEF Sound, Parked
  <2> QED
    BY <2>2 DEF r
<1>4. ASSUME NEW n \in 1 .. InitTick, NEW b \in BOOLEAN
      PROVE  /\ Sound([kk EXCEPT !.slice[t] = n, !.yld[t] = b])
             /\ Sound([kk EXCEPT !.slice[t] = n])
  <2> DEFINE r == [kk EXCEPT !.slice[t] = n, !.yld[t] = b]
             q == [kk EXCEPT !.slice[t] = n]
  <2>1. /\ r \in KState /\ r.stat = kk.stat /\ r.prio = kk.prio /\ r.cur = kk.cur
        /\ r.ready = kk.ready /\ r.group = kk.group
        /\ r.timers = kk.timers /\ r.defunct = kk.defunct
    BY DEF Sound, Consistent, KState
  <2>2. /\ q \in KState /\ q.stat = kk.stat /\ q.prio = kk.prio /\ q.cur = kk.cur
        /\ q.ready = kk.ready /\ q.group = kk.group
        /\ q.timers = kk.timers /\ q.defunct = kk.defunct
    BY DEF Sound, Consistent, KState
  <2> HIDE DEF r, q
  <2>3. Sound(r) /\ Sound(q)
    BY <2>1, <2>2, Frame DEF Sound, Parked
  <2> QED
    BY <2>3 DEF r, q
<1> QED
  BY <1>1, <1>2, <1>3, <1>4

\* The ghosts of a release keep their types.
LEMMA CreditedTypes ==
  ASSUME IInv, NEW s \in Sems, Credited(s)
  PROVE  /\ grant' \in [Threads -> Sems \cup {None}]
         /\ credit' \in [Sems -> Int]
<1>1. k.waitq[s] # <<>> => Head(k.waitq[s]) \in Threads
  BY HeadAndTail DEF IInv, TypeOK, KState
<1>2. grant' \in [Threads -> Sems \cup {None}]
  BY <1>1 DEF IInv, TypeOK, Credited
<1>3. credit' \in [Sems -> Int]
  BY DEF IInv, TypeOK, Credited
<1> QED
  BY <1>2, <1>3

LEMMA ThreadIInv ==
  ASSUME IInv, NEW t \in Threads, ThreadStep(t)
  PROVE  IInv'
<1> USE DEF At, Goto, Caller, Blocker, ghosts
<1>0. /\ Sound(k) /\ Consistent(k) /\ Parked(k) /\ k \in KState
      /\ pc \in [Threads -> Places]
      /\ want \in [Threads -> Sems \cup {None}]
      /\ grant \in [Threads -> Sems \cup {None}]
      /\ credit \in [Sems -> Int]
      /\ isr \in {"off", "timers"}
  BY DEF IInv, Sound, TypeOK
<1>p. /\ {"run", "wait", "nap", "spin", "dead", "sched", "take", "sleep", "park", "exit"}
           \subseteq Places
      /\ Windows = {"sched", "take", "sleep", "park", "exit"}
      /\ \A w \in Windows : After[w] \in Places
  BY DEF Places, Windows, After
<1>1. ASSUME NEW s \in Sems, TakeToken(t, s)
      PROVE  IInv'
  <2>1. k.val[s] - 1 \in 0 .. SemMax
    BY <1>0, <1>1, BoundAssumption DEF TakeToken, KState
  <2>2. k' = [k EXCEPT !.val[s] = k.val[s] - 1]
    BY <1>1 DEF TakeToken
  <2>3. Sound(k')
    BY <1>0, <2>1, <2>2, AssignField
  <2>4. credit' \in [Sems -> Int]
    BY <1>0, <1>1 DEF TakeToken
  <2> QED
    BY <1>0, <1>1, <2>3, <2>4, ThreadStepFrame DEF TakeToken
<1>2. ASSUME NEW s \in Sems, NEW timeout \in Timeouts, TakeWait(t, s, timeout)
      PROVE  IInv'
  <2>1. Sound(k')
    BY <1>0, <1>2, SemWaitFacts, SemWaitParked, CallsAssumption DEF TakeWait, Sound
  <2>2. pc' \in [Threads -> Places] /\ want' \in [Threads -> Sems \cup {None}]
    BY <1>0, <1>p, <1>2 DEF TakeWait
  <2> QED
    BY <1>0, <1>2, <2>1, <2>2, ThreadStepFrame DEF TakeWait
<1>3. ASSUME NEW s \in Sems, Release(t, s)
      PROVE  IInv'
  <2>1. Sound(k')
    BY <1>0, <1>3, SemGiveFacts, SemGiveParked DEF Release, Sound
  <2>2. pc' \in [Threads -> Places]
    BY <1>0, <1>p, <1>3 DEF Release
  <2>3. grant' \in [Threads -> Sems \cup {None}] /\ credit' \in [Sems -> Int]
    BY <1>3, CreditedTypes DEF Release
  <2> QED
    BY <1>0, <1>3, <2>1, <2>2, <2>3, ThreadStepFrame DEF Release
<1>4. ASSUME TakeReturn(t)
      PROVE  IInv'
  <2>1. pc' \in [Threads -> Places]
    BY <1>0, <1>p, <1>4 DEF TakeReturn
  <2>2. /\ want' \in [Threads -> Sems \cup {None}]
        /\ grant' \in [Threads -> Sems \cup {None}]
    BY <1>0, <1>4 DEF TakeReturn
  <2>3. credit' \in [Sems -> Int]
    <3>1. ASSUME NEW x
          PROVE  [credit EXCEPT ![x] = @ - 1] \in [Sems -> Int]
      <4>1. CASE x \in Sems
        BY <1>0, <4>1
      <4>2. CASE x \notin Sems
        BY <1>0, <4>2
      <4> QED
        BY <4>1, <4>2
    <3>2. credit' = credit \/ credit' = [credit EXCEPT ![want[t]] = @ - 1]
      BY <1>4 DEF TakeReturn
    <3> QED
      BY <1>0, <3>1, <3>2
  <2> QED
    BY <1>0, <1>4, <2>1, <2>2, <2>3, ThreadStepFrame DEF TakeReturn
<1>5. ASSUME NEW timeout \in Timeouts \ {None}, Sleep(t, timeout)
      PROVE  IInv'
  <2> DEFINE u == [k EXCEPT !.err[t] = "ok"]
             v == rt_thread_suspend(u, t)
  <2>1. Sound(v) /\ v.stat[t] = "suspend"
    <3>1. Sound(u) /\ u.stat[t] = "running"
      BY <1>0, <1>5, AssignField DEF Errors, Sleep, KState
    <3> HIDE DEF u
    <3> QED
      BY <3>1, SuspendFacts, SuspendParked DEF Sound
  <2>2. k' = rt_timer_start(v, t, timeout)
    BY <1>5 DEF Sleep
  <2>3. timeout \in 0 .. MaxTimeout
    BY CallsAssumption
  <2> HIDE DEF v
  <2>4. Sound(k')
    BY <2>1, <2>2, <2>3, TimerStartFacts, TimerStartParked, Frame DEF Sound, Consistent
  <2>5. pc' \in [Threads -> Places]
    BY <1>0, <1>p, <1>5 DEF Sleep
  <2> QED
    BY <1>0, <1>5, <2>4, <2>5, ThreadStepFrame DEF Sleep
<1>6. ASSUME SleepReturn(t)
      PROVE  IInv'
  <2> DEFINE e == IF k.err[t] = "timeout" THEN "ok" ELSE k.err[t]
  <2>1. e \in Errors
    BY <1>0 DEF KState, Errors
  <2>2. k' = [k EXCEPT !.err[t] = e]
    BY <1>6 DEF SleepReturn
  <2> HIDE DEF e
  <2>3. Sound(k')
    BY <1>0, <2>1, <2>2, AssignField
  <2>4. pc' \in [Threads -> Places]
    BY <1>0, <1>p, <1>6 DEF SleepReturn
  <2> QED
    BY <1>0, <1>6, <2>3, <2>4, ThreadStepFrame DEF SleepReturn
<1>7. ASSUME Park(t)
      PROVE  IInv'
  <2>1. Sound(k')
    BY <1>0, <1>7, SuspendFacts, SuspendParked DEF Park, Sound
  <2>2. pc' \in [Threads -> Places]
    BY <1>0, <1>p, <1>7 DEF Park
  <2> QED
    BY <1>0, <1>7, <2>1, <2>2, ThreadStepFrame DEF Park
<1>8. ASSUME Exit(t)
      PROVE  IInv'
  <2>1. Sound(k')
    BY <1>0, <1>8, ExitFacts, ExitParked DEF Exit, Sound
  <2>2. pc' \in [Threads -> Places]
    BY <1>0, <1>p, <1>8 DEF Exit
  <2> QED
    BY <1>0, <1>8, <2>1, <2>2, ThreadStepFrame DEF Exit
<1>9. ASSUME Yield(t)
      PROVE  IInv'
  <2> DEFINE u == [k EXCEPT !.slice[t] = InitTick, !.yld[t] = TRUE]
  <2>1. InitTick \in 1 .. InitTick
    BY BoundAssumption
  <2>2. Sound(u) /\ u.cur = k.cur
    <3>1. u.cur = k.cur
      BY <1>0 DEF KState
    <3>2. \A b \in BOOLEAN : Sound([k EXCEPT !.slice[t] = InitTick, !.yld[t] = b])
      BY <1>0, <2>1, AssignField
    <3> QED
      BY <3>1, <3>2
  <2>3. k' = rt_schedule(u)
    BY <1>9 DEF Yield
  <2> HIDE DEF u
  <2>4. Sound(k')
    BY <1>9, <2>2, <2>3, ScheduleFacts, ScheduleParked DEF Yield, Sound
  <2> QED
    BY <1>0, <1>9, <2>4, ThreadStepFrame DEF Yield
<1>10. ASSUME EnterCritical(t)
       PROVE  IInv'
  <2>1. k.lock + 1 \in Nat /\ k' = [k EXCEPT !.lock = k.lock + 1]
    BY <1>0, <1>10 DEF EnterCritical, KState
  <2>2. Sound(k')
    BY <1>0, <2>1, AssignField
  <2> QED
    BY <1>0, <1>10, <2>2, ThreadStepFrame DEF EnterCritical
<1>11. ASSUME ExitCritical(t)
       PROVE  IInv'
  <2>1. k.lock - 1 \in Nat /\ k' = [k EXCEPT !.lock = k.lock - 1]
    BY <1>0, <1>11 DEF ExitCritical, KState
  <2>2. Sound(k')
    BY <1>0, <2>1, AssignField
  <2>3. pc' \in [Threads -> Places]
    BY <1>0, <1>p, <1>11 DEF ExitCritical
  <2> QED
    BY <1>0, <1>11, <2>2, <2>3, ThreadStepFrame DEF ExitCritical
<1>12. ASSUME CallSchedule(t)
       PROVE  IInv'
  <2>1. Sound(k')
    BY <1>0, <1>12, ScheduleFacts, ScheduleParked DEF CallSchedule, Sound
  <2>2. pc' \in [Threads -> Places]
    BY <1>0, <1>p, <1>12 DEF CallSchedule
  <2> QED
    BY <1>0, <1>12, <2>1, <2>2, ThreadStepFrame DEF CallSchedule
<1>13. ASSUME Reap(t)
       PROVE  IInv'
  <2> DEFINE d == Head(k.defunct)
  <2>1. d \in Threads /\ Contains(k.defunct, d)
    BY <1>0, <1>13, HeadAndTail DEF Reap, KState
  <2>2. k.stat[d] = "close" /\ k' = rt_list_remove(k, d)
    BY <1>0, <1>13, <2>1 DEF Parked, Reap
  <2> HIDE DEF d
  <2>3. Consistent(k') /\ k'.stat = k.stat
    BY <1>0, <2>1, <2>2, UnlinkWaiterFacts
  <2>4. Parked(k')
    BY <1>0, <2>1, <2>2, <2>3, ListRemoveParked, ParkedFrame
  <2>5. Sound(k')
    BY <2>3, <2>4 DEF Sound
  <2> QED
    BY <1>0, <1>13, <2>5, ThreadStepFrame DEF Reap
<1>14. ASSUME NEW u \in Threads, CreateTask(t, u)
       PROVE  IInv'
  <2> DEFINE v == rt_thread_init(k, u)
  <2>1. /\ Sound(v) /\ v.stat[u] = "init" /\ ~Contains(v.timers, u)
    BY <1>0, <1>14, ThreadInitFacts, ThreadInitParked DEF CreateTask, Sound
  <2>2. k' = rt_thread_startup(v, u)
    BY <1>14 DEF CreateTask
  <2> HIDE DEF v
  <2>3. Sound(k')
    BY <2>1, <2>2, StartupFacts, StartupParked DEF Sound
  <2>4. pc' \in [Threads -> Places]
    BY <1>0, <1>p, <1>14 DEF CreateTask
  <2> QED
    BY <1>0, <1>14, <2>3, <2>4, ThreadStepFrame DEF CreateTask
<1> QED
  BY <1>1, <1>2, <1>3, <1>4, <1>5, <1>6, <1>7, <1>8, <1>9, <1>10, <1>11, <1>12, <1>13, <1>14
  DEF ThreadStep, SemaphoreStep, ControlStep

\* The tick: the slice of the current thread, and the timers grow older.
LEMMA TickIInv == IInv /\ Tick => IInv'
<1> SUFFICES ASSUME IInv, Tick
             PROVE  IInv'
  OBVIOUS
<1> DEFINE t    == k.cur
           left == [u \in Threads |->
                      IF Contains(k.timers, u) /\ k.left[u] > 0 THEN k.left[u] - 1 ELSE k.left[u]]
           down == [k EXCEPT !.left = left]
           last == [down EXCEPT !.slice[t] = InitTick, !.yld[t] = TRUE]
<1>1. k \in KState /\ Sound(k) /\ Consistent(k) /\ Parked(k) /\ t \in Threads
  BY NoneAssumption DEF IInv, Sound, Consistent, KState, Tick, Interrupted
<1>2. left \in [Threads -> 0 .. MaxTimeout]
  <2>1. k.left \in [Threads -> 0 .. MaxTimeout] /\ MaxTimeout \in Nat
    BY <1>1, BoundAssumption DEF KState
  <2>2. \A u \in Threads : k.left[u] > 0 => k.left[u] - 1 \in 0 .. MaxTimeout
    BY <2>1
  <2> QED
    BY <2>1, <2>2
<1>3. k' = IF k.slice[t] = 1 THEN rt_schedule(last) ELSE [down EXCEPT !.slice[t] = @ - 1]
  BY DEF Tick
<1> HIDE DEF left
<1>4. /\ down \in KState /\ down.stat = k.stat /\ down.prio = k.prio /\ down.cur = k.cur
      /\ down.ready = k.ready /\ down.group = k.group /\ down.slice = k.slice
      /\ down.timers = k.timers /\ down.defunct = k.defunct
  BY <1>1, <1>2 DEF KState
<1> HIDE DEF down
<1>5. Sound(down)
  BY <1>1, <1>4, Frame DEF Sound, Parked
<1>6. CASE k.slice[t] = 1
  <2>1. InitTick \in 1 .. InitTick
    BY BoundAssumption
  <2>2. \A b \in BOOLEAN : Sound([down EXCEPT !.slice[t] = InitTick, !.yld[t] = b])
    BY <1>1, <1>5, <2>1, AssignField
  <2>3. last.cur = t
    BY <1>4 DEF KState
  <2>4. Sound(last)
    BY <2>2
  <2> HIDE DEF last
  <2>5. Sound(k') /\ k'.cur \in Threads
    BY <1>1, <1>3, <1>6, <2>3, <2>4, ScheduleFacts, ScheduleParked DEF Sound
  <2> QED
    BY <2>5 DEF IInv, TypeOK, Sound, Consistent, TickHasCurrent, Tick, ghosts
<1>7. CASE k.slice[t] # 1
  <2>1. k.slice[t] - 1 \in 1 .. InitTick
    BY <1>1, <1>7, BoundAssumption DEF KState
  <2>2. k' = [down EXCEPT !.slice[t] = k.slice[t] - 1]
    BY <1>3, <1>4, <1>7 DEF KState
  <2>3. Sound(k')
    BY <1>1, <1>5, <2>1, <2>2, AssignField
  <2>4. k'.cur \in Threads
    BY <1>1, <1>4, <2>2 DEF KState
  <2> QED
    BY <2>3, <2>4 DEF IInv, TypeOK, Sound, Consistent, TickHasCurrent, Tick, ghosts
<1> QED
  BY <1>6, <1>7

\* A timer that expires is that of a SUSPENDed thread, and leaves the list.
LEMMA TimerExpireIInv == IInv /\ TimerExpire => IInv'
<1> SUFFICES ASSUME IInv, TimerExpire
             PROVE  IInv'
  OBVIOUS
<1> DEFINE t == Head(k.timers)
           u == [k EXCEPT !.timers = Tail(k.timers)]
<1>1. /\ k \in KState /\ Consistent(k) /\ Parked(k) /\ k.cur \in Threads
      /\ k.timers \in Seq(Threads) /\ k.timers # <<>> /\ IsInjective(k.timers)
  BY DEF IInv, Sound, Consistent, KState, TimerExpire, Due, TickHasCurrent, Parked
<1>2. /\ Tail(k.timers) \in Seq(Threads) /\ t \in Threads /\ Contains(k.timers, t)
      /\ IsInjective(Tail(k.timers))
      /\ \A v : Contains(Tail(k.timers), v) => Contains(k.timers, v) /\ v # t
  BY <1>1, TailElements
<1>3. k' = _thread_timeout(u, t)
  BY DEF TimerExpire
<1> HIDE DEF t
<1>4. /\ u \in KState /\ u.stat = k.stat /\ u.prio = k.prio /\ u.cur = k.cur
      /\ u.ready = k.ready /\ u.group = k.group
      /\ u.timers = Tail(k.timers) /\ u.defunct = k.defunct
  BY <1>1, <1>2 DEF KState
<1> HIDE DEF u
<1>5. Consistent(u) /\ Parked(u)
  BY <1>1, <1>2, <1>4, Frame DEF Parked
<1>6. u.stat[t] = "suspend" /\ ~Contains(u.timers, t)
  BY <1>1, <1>2, <1>4 DEF Parked
<1>7. Sound(k') /\ k'.cur \in Threads
  BY <1>1, <1>2, <1>3, <1>4, <1>5, <1>6, ThreadTimeoutFacts, ThreadTimeoutParked DEF Sound
<1> QED
  BY <1>7 DEF IInv, TypeOK, Sound, Consistent, TickHasCurrent, TimerExpire, ghosts

LEMMA IsrReleaseIInv ==
  ASSUME IInv, NEW s \in Sems, IsrRelease(s)
  PROVE  IInv'
<1> DEFINE u == SemGive(k, s)
<1>1. Sound(k) /\ k.cur \in Threads
  BY NoneAssumption DEF IInv, Sound, Consistent, KState, IsrRelease, Interrupted
<1>2. Sound(u) /\ u.cur = k.cur
  BY <1>1, SemGiveFacts, SemGiveParked DEF Sound
<1>3. k' = u \/ k' = rt_schedule(u)
  BY DEF IsrRelease
<1> HIDE DEF u
<1>4. Sound(k')
  BY <1>1, <1>2, <1>3, ScheduleFacts, ScheduleParked DEF Sound
<1>5. grant' \in [Threads -> Sems \cup {None}] /\ credit' \in [Sems -> Int]
  BY CreditedTypes DEF IsrRelease
<1> QED
  BY <1>4, <1>5, ThreadStepFrame DEF IInv, TypeOK, IsrRelease, Interrupted

LEMMA NextIInv == IInv /\ [Next]_vars => IInv'
<1> SUFFICES ASSUME IInv, [Next]_vars
             PROVE  IInv'
  OBVIOUS
<1>1. CASE Boot
  BY <1>1, BootIInv
<1>2. CASE Interrupt
  <2>1. CASE Tick
    BY <2>1, TickIInv
  <2>2. CASE TimerExpire
    BY <2>2, TimerExpireIInv
  <2>3. CASE TickReturn
    BY <2>3 DEF IInv, TypeOK, TickReturn, TickHasCurrent, ghosts
  <2>4. ASSUME NEW s \in Sems, IsrRelease(s)
        PROVE  IInv'
    BY <2>4, IsrReleaseIInv
  <2> QED
    BY <1>2, <2>1, <2>2, <2>3, <2>4 DEF Interrupt
<1>3. ASSUME NEW t \in Threads, ThreadStep(t)
      PROVE  IInv'
  BY <1>3, ThreadIInv
<1>4. CASE UNCHANGED vars
  BY <1>4 DEF IInv, TypeOK, TickHasCurrent, vars
<1> QED
  BY <1>1, <1>2, <1>3, <1>4 DEF Next

-----------------------------------------------------------------------------
(* The ready table: the theorems.                                          *)

\* The strengthened invariant holds: the ready table agrees with the state of every
\* thread (scheduler.c), the thread that runs is not queued, and only suspended
\* threads have their timer armed and only closed ones are handed to the idle thread.
THEOREM Invariance == Spec => []IInv
<1>1. Init => IInv
  BY InitIInv
<1>2. IInv /\ [Next]_vars => IInv'
  BY NextIInv
<1> QED
  BY <1>1, <1>2, PTL DEF Spec

\* The variables keep their types: every routine returns a kernel record, however
\* the services, the interrupts and the scheduler interleave.
THEOREM TypeCorrect == Spec => []TypeOK
<1>1. IInv => TypeOK
  BY DEF IInv
<1> QED
  BY <1>1, Invariance, PTL

\* rt_thread_priority_table and rt_thread_ready_priority_group agree with the
\* state of every thread, for any number of threads, priorities and semaphores.
THEOREM ReadyTableCorrect == Spec => []ReadyTable
<1>1. IInv => ReadyTable
  BY NoneAssumption DEF IInv, Sound, Consistent, Table, ListsBut, GroupExact, ReadyTable
<1> QED
  BY <1>1, Invariance, PTL

-----------------------------------------------------------------------------
(* The scheduler: the invariant.                                           *)

\* No thread but the current one is RUNNING.
OneRunning(kk) == \A t \in Threads : kk.stat[t] = "running" => t = kk.cur

\* The list of a semaphore holds suspended threads, once each.
QueuesSound(kk) ==
  \A s \in Sems :
    /\ IsInjective(kk.waitq[s])
    /\ \A t \in Threads : Contains(kk.waitq[s], t) => kk.stat[t] = "suspend"

Settled(kk) == Sound(kk) /\ OneRunning(kk) /\ QueuesSound(kk)

\* No READY thread is more urgent than the current one.
Highest(kk) == \A p \in kk.group : kk.prio[kk.cur] <= p

\* The semaphores, the errors and the lock are as they were.
SameAccount(kk, r) == r.err = kk.err /\ r.lock = kk.lock /\ r.val = kk.val

\* A thread is suspended, or closed, after the step just if it was before.
SameBlocked(kk, r) ==
  \A t \in Threads : r.stat[t] # kk.stat[t] =>
    r.stat[t] \in {"ready", "running"} /\ kk.stat[t] \in {"ready", "running"}

-----------------------------------------------------------------------------
(* The routines under rt_schedule.                                         *)

\* rt_list_remove, on the lists of the semaphores and on the rest.
LEMMA ListRemoveEffect ==
  ASSUME NEW kk \in KState, NEW t \in Threads, QueuesSound(kk)
  PROVE  /\ SameAccount(kk, rt_list_remove(kk, t))
         /\ rt_list_remove(kk, t).timers = kk.timers
         /\ rt_list_remove(kk, t).yld = kk.yld
         /\ \A s \in Sems :
              /\ IsInjective(rt_list_remove(kk, t).waitq[s])
              /\ \A u : Contains(rt_list_remove(kk, t).waitq[s], u)
                          <=> Contains(kk.waitq[s], u) /\ u # t
         /\ kk.stat[t] # "suspend" => rt_list_remove(kk, t).waitq = kk.waitq
<1> DEFINE r == rt_list_remove(kk, t)
<1>1. /\ SameAccount(kk, r) /\ r.timers = kk.timers /\ r.yld = kk.yld
      /\ r.waitq = [s \in Sems |-> Unlink(kk.waitq[s], t)]
      /\ kk.waitq \in [Sems -> Seq(Threads)]
  BY DEF KState, rt_list_remove, SameAccount
<1> HIDE DEF r
<1>2. ASSUME NEW s \in Sems
      PROVE  /\ r.waitq[s] = Unlink(kk.waitq[s], t)
             /\ IsInjective(r.waitq[s])
             /\ \A u : Contains(r.waitq[s], u) <=> Contains(kk.waitq[s], u) /\ u # t
             /\ ~Contains(kk.waitq[s], t) => r.waitq[s] = kk.waitq[s]
  <2>1. kk.waitq[s] \in Seq(Threads) /\ IsInjective(kk.waitq[s])
    BY <1>1 DEF QueuesSound
  <2>2. r.waitq[s] = Unlink(kk.waitq[s], t)
    BY <1>1
  <2> QED
    BY <2>1, <2>2, UnlinkElements
<1>3. ASSUME kk.stat[t] # "suspend"
      PROVE  r.waitq = kk.waitq
  <2>1. \A s \in Sems : ~Contains(kk.waitq[s], t)
    BY <1>3 DEF QueuesSound
  <2>2. \A s \in Sems : r.waitq[s] = kk.waitq[s]
    BY <1>2, <2>1
  <2> QED
    BY <1>1, <2>2
<1> QED
  BY <1>1, <1>2, <1>3 DEF r

\* rt_schedule_remove_thread of a thread that waits for no semaphore.
LEMMA RemoveEffect ==
  ASSUME NEW kk \in KState, NEW t \in Threads, QueuesSound(kk), kk.stat[t] # "suspend"
  PROVE  /\ SameAccount(kk, rt_schedule_remove_thread(kk, t))
         /\ rt_schedule_remove_thread(kk, t).timers = kk.timers
         /\ rt_schedule_remove_thread(kk, t).waitq = kk.waitq
         /\ rt_schedule_remove_thread(kk, t).group \subseteq kk.group
         /\ rt_schedule_remove_thread(kk, t).ready = rt_list_remove(kk, t).ready
<1> DEFINE u == rt_list_remove(kk, t)
           r == rt_schedule_remove_thread(kk, t)
<1>1. /\ u \in KState /\ u.group = kk.group
  BY ListRemoveFacts
<1>2. SameAccount(kk, u) /\ u.timers = kk.timers /\ u.waitq = kk.waitq
  BY ListRemoveEffect
<1>3. r = u \/ r = [u EXCEPT !.group = kk.group \ {kk.prio[t]}]
  BY DEF rt_schedule_remove_thread
<1> HIDE DEF u, r
<1>4. /\ r.err = u.err /\ r.lock = u.lock /\ r.val = u.val /\ r.timers = u.timers
      /\ r.waitq = u.waitq /\ r.ready = u.ready
      /\ r.group = u.group \/ r.group = kk.group \ {kk.prio[t]}
  BY <1>1, <1>3 DEF KState
<1>5. SameAccount(kk, r) /\ r.timers = kk.timers /\ r.waitq = kk.waitq /\ r.group \subseteq kk.group
  BY <1>1, <1>2, <1>4 DEF SameAccount
<1> QED
  BY <1>4, <1>5 DEF r, u

\* rt_schedule_insert_thread leaves the lists of the semaphores and the timers alone.
LEMMA InsertEffect ==
  ASSUME NEW kk \in KState, NEW t \in Threads
  PROVE  /\ SameAccount(kk, rt_schedule_insert_thread(kk, t))
         /\ rt_schedule_insert_thread(kk, t).timers = kk.timers
         /\ rt_schedule_insert_thread(kk, t).waitq = kk.waitq
         /\ rt_schedule_insert_thread(kk, t).group \subseteq kk.group \cup {kk.prio[t]}
         /\ t # kk.cur /\ ~kk.yld[t] =>
              rt_schedule_insert_thread(kk, t).ready[kk.prio[t]] = <<t>> \o kk.ready[kk.prio[t]]
<1>1. kk.prio[t] \in Prios /\ kk.ready \in [Prios -> Seq(Threads)]
  BY DEF KState
<1> QED
  BY <1>1 DEF KState, rt_schedule_insert_thread, SameAccount

\* The head of the list that __rt_ffs finds is READY, and none is more urgent.
LEMMA HighestReadyHead ==
  ASSUME NEW kk \in KState, kk.group # {}, Table(kk)
  PROVE  /\ \A q \in kk.group : HighestReady(kk) <= q
         /\ kk.stat[Head(kk.ready[HighestReady(kk)])] = "ready"
         /\ kk.prio[Head(kk.ready[HighestReady(kk)])] = HighestReady(kk)
<1> DEFINE p == HighestReady(kk)
<1>1. kk.group \subseteq Prios /\ kk.ready \in [Prios -> Seq(Threads)] /\ Prios \subseteq Nat
  BY PrioAssumption DEF KState, Prios
<1>2. \E q \in kk.group : \A v \in kk.group : q <= v
  BY <1>1, LeastNatural
<1>3. p \in kk.group /\ \A v \in kk.group : p <= v
  BY <1>2 DEF HighestReady
<1> HIDE DEF p
<1>4. p \in Prios /\ kk.ready[p] \in Seq(Threads) /\ kk.ready[p] # <<>>
  BY <1>1, <1>3 DEF Table, GroupExact
<1>5. Head(kk.ready[p]) \in Threads /\ Contains(kk.ready[p], Head(kk.ready[p]))
  BY <1>4, HeadAndTail
<1>6. kk.stat[Head(kk.ready[p])] = "ready" /\ kk.prio[Head(kk.ready[p])] = p
  BY <1>4, <1>5 DEF Table, ListsBut
<1> QED
  BY <1>3, <1>6 DEF p

\* The thread that gets the CPU leaves the list of its priority.
LEMMA MakeRunningEffect ==
  ASSUME NEW kk \in KState, NEW t \in Threads, Table(kk), QueuesSound(kk), kk.cur = t,
         kk.stat[t] # "suspend"
  PROVE  /\ SameAccount(kk, MakeRunning(kk, t))
         /\ MakeRunning(kk, t).timers = kk.timers
         /\ MakeRunning(kk, t).waitq = kk.waitq
         /\ MakeRunning(kk, t).prio = kk.prio
         /\ MakeRunning(kk, t).group \subseteq kk.group
         /\ MakeRunning(kk, t).stat = [kk.stat EXCEPT ![t] = "running"]
         /\ \A p \in Prios : p # kk.prio[t] => MakeRunning(kk, t).ready[p] = kk.ready[p]
<1> DEFINE u == rt_schedule_remove_thread(kk, t)
           r == MakeRunning(kk, t)
<1>1. /\ u \in KState /\ u.stat = kk.stat /\ u.prio = kk.prio
      /\ SameAccount(kk, u) /\ u.timers = kk.timers /\ u.waitq = kk.waitq
      /\ u.group \subseteq kk.group
      /\ \A p \in Prios : p # kk.prio[t] => u.ready[p] = kk.ready[p]
  BY RemoveThread, RemoveEffect, ListRemoveTable
<1>2. r = [u EXCEPT !.stat[t] = "running"]
  BY DEF MakeRunning
<1> HIDE DEF u, r
<1>3. /\ r.prio = u.prio /\ r.err = u.err /\ r.lock = u.lock /\ r.val = u.val
      /\ r.timers = u.timers /\ r.waitq = u.waitq /\ r.ready = u.ready /\ r.group = u.group
      /\ r.stat = [u.stat EXCEPT ![t] = "running"]
  BY <1>1, <1>2 DEF KState
<1>4. SameAccount(kk, r)
  BY <1>1, <1>3 DEF SameAccount
<1> QED
  BY <1>1, <1>3, <1>4 DEF r

-----------------------------------------------------------------------------
(* rt_schedule.                                                            *)

\* What rt_schedule does: it may move the CPU from one thread that can run to
\* another, to the most urgent, and nothing else.
LEMMA ScheduleEffect ==
  ASSUME NEW kk, Settled(kk), kk.cur \in Threads
  PROVE  /\ SameAccount(kk, rt_schedule(kk))
         /\ rt_schedule(kk).timers = kk.timers
         /\ rt_schedule(kk).waitq = kk.waitq
         /\ rt_schedule(kk).prio = kk.prio
         /\ SameBlocked(kk, rt_schedule(kk))
         /\ OneRunning(rt_schedule(kk))
         /\ kk.lock # 0 => rt_schedule(kk) = kk
         /\ kk.lock = 0 => Highest(rt_schedule(kk))
         /\ kk.lock = 0 /\ kk.group # {} =>
              rt_schedule(kk).stat[rt_schedule(kk).cur] = "running"
         /\ ~(kk.lock = 0 /\ kk.group # {}) => rt_schedule(kk) = kk
         /\ rt_schedule(kk).cur # kk.cur /\ rt_schedule(kk).stat[kk.cur] = "ready"
              /\ kk.prio[rt_schedule(kk).cur] < kk.prio[kk.cur]
            => Head(rt_schedule(kk).ready[kk.prio[kk.cur]]) = kk.cur
<1> DEFINE p       == HighestReady(kk)
           from    == kk.cur
           to      == IF KeepsCpu(kk, p) THEN from ELSE Head(kk.ready[p])
           running == kk.stat[from] = "running"
           cleared == [kk EXCEPT !.yld[from] = kk.yld[from] /\ ~running]
           moved   == [cleared EXCEPT !.cur = to]
           queued  == rt_schedule_insert_thread(moved, from)
           r       == rt_schedule(kk)
<1>1. /\ kk \in KState /\ Table(kk) /\ OneRunning(kk) /\ QueuesSound(kk)
      /\ kk.stat[from] # "ready"
      /\ kk.stat \in [Threads -> Stats] /\ kk.prio \in [Threads -> Prios]
      /\ Prios \subseteq Nat /\ kk.group \subseteq Prios
      /\ kk.yld \in [Threads -> BOOLEAN]
      /\ \A t \in Threads : kk.prio[t] \in Prios /\ kk.prio[t] \in Nat
  <2>1. kk \in KState /\ Table(kk) /\ OneRunning(kk) /\ QueuesSound(kk) /\ kk.stat[from] # "ready"
    BY DEF Settled, Sound, Consistent, CurrentNotReady
  <2>2. /\ kk.stat \in [Threads -> Stats] /\ kk.prio \in [Threads -> Prios]
        /\ kk.group \subseteq Prios /\ kk.yld \in [Threads -> BOOLEAN]
    BY <2>1 DEF KState
  <2>3. Prios \subseteq Nat
    BY PrioAssumption DEF Prios
  <2>4. \A t \in Threads : kk.prio[t] \in Prios /\ kk.prio[t] \in Nat
    BY <2>2, <2>3
  <2> QED
    BY <2>1, <2>2, <2>3, <2>4
<1>2. CASE ~CanSchedule(kk)
  <2>1. r = kk
    BY <1>2 DEF rt_schedule
  <2>2. kk.lock = 0 => kk.group = {}
    BY <1>2 DEF CanSchedule
  <2> HIDE DEF r
  <2> QED
    BY <1>1, <2>1, <2>2 DEF SameAccount, SameBlocked, Highest, r
<1>3. CASE CanSchedule(kk)
  <2>1. r = IF to # from /\ running THEN MakeRunning(queued, to) ELSE MakeRunning(moved, to)
    BY <1>3 DEF rt_schedule
  <2>2. /\ kk.lock = 0 /\ kk.group # {} /\ p \in kk.group
        /\ \A q \in kk.group : p <= q
        /\ Head(kk.ready[p]) \in Threads
        /\ kk.stat[Head(kk.ready[p])] = "ready" /\ kk.prio[Head(kk.ready[p])] = p
    BY <1>1, <1>3, HighestReadyFacts, HighestReadyHead DEF CanSchedule
  <2> HIDE DEF p
  <2>3. /\ to \in Threads /\ kk.stat[to] \in {"ready", "running"}
        /\ kk.prio[to] <= p
        /\ to # from => kk.stat[to] = "ready" /\ kk.prio[to] = p /\ ~KeepsCpu(kk, p)
        /\ to = from => running
    <3>1. p \in Nat /\ p \in Prios
      BY <1>1, <2>2
    <3>2. CASE KeepsCpu(kk, p)
      <4>1. to = from
        BY <3>2
      <4>2. kk.stat[from] = "running" /\ kk.prio[from] <= p
        BY <1>1, <3>1, <3>2 DEF KeepsCpu
      <4> HIDE DEF to
      <4> QED
        BY <4>1, <4>2
    <3>3. CASE ~KeepsCpu(kk, p)
      <4>1. to = Head(kk.ready[p])
        BY <3>3
      <4> HIDE DEF to
      <4>2. to # from
        BY <1>1, <2>2, <4>1
      <4> QED
        BY <2>2, <3>1, <3>3, <4>1, <4>2
    <3> QED
      BY <3>2, <3>3
  <2> HIDE DEF to
  <2>4. /\ moved \in KState
        /\ moved.cur = to /\ moved.stat = kk.stat /\ moved.prio = kk.prio
        /\ moved.ready = kk.ready /\ moved.group = kk.group
        /\ moved.timers = kk.timers /\ moved.waitq = kk.waitq
        /\ moved.err = kk.err /\ moved.lock = kk.lock /\ moved.val = kk.val
        /\ running => ~moved.yld[from]
    BY <1>1, <2>3 DEF KState
  <2> HIDE DEF moved
  <2>5. Table(moved) /\ QueuesSound(moved)
    BY <1>1, <2>4 DEF Table, ListsBut, GroupExact, QueuesSound
  <2>6. CASE to # from /\ running
    <3>1. ListsBut(moved, from) /\ GroupExact(moved)
      BY <2>4, <2>5, <2>6, NoneAssumption DEF Table, ListsBut
    <3>2. /\ queued \in KState /\ Table(queued) /\ queued.cur = to
          /\ queued.prio = kk.prio
          /\ queued.stat = [kk.stat EXCEPT ![from] = "ready"]
      <4>1. queued.stat = [kk.stat EXCEPT ![from] = IF from = to THEN "running" ELSE "ready"]
        BY <2>4, <3>1, InsertThread
      <4> QED
        BY <2>4, <2>6, <3>1, <4>1, InsertThread
    <3>3. /\ SameAccount(kk, queued) /\ queued.timers = kk.timers /\ queued.waitq = kk.waitq
          /\ queued.group \subseteq kk.group \cup {kk.prio[from]}
          /\ queued.ready[kk.prio[from]] = <<from>> \o kk.ready[kk.prio[from]]
      BY <2>4, <2>6, InsertEffect DEF SameAccount
    <3> HIDE DEF queued
    <3>4. QueuesSound(queued)
      BY <1>1, <2>5, <2>6, <3>2, <3>3 DEF QueuesSound
    <3>5. queued.stat[to] # "suspend" /\ queued.stat[to] = "ready"
      BY <1>1, <2>3, <2>6, <3>2
    <3>6. /\ SameAccount(queued, r) /\ r.timers = kk.timers /\ r.waitq = kk.waitq
          /\ r.prio = kk.prio /\ r.group \subseteq kk.group \cup {kk.prio[from]}
          /\ r.stat = [queued.stat EXCEPT ![to] = "running"]
          /\ r.cur = to
          /\ \A q \in Prios : q # kk.prio[to] => r.ready[q] = queued.ready[q]
      <4>1. r = MakeRunning(queued, to)
        BY <2>1, <2>6
      <4> HIDE DEF r
      <4>2. r.cur = to
        BY <2>3, <3>2, <4>1, MakeRunningFacts
      <4>3. /\ SameAccount(queued, r) /\ r.timers = queued.timers /\ r.waitq = queued.waitq
            /\ r.prio = queued.prio /\ r.group \subseteq queued.group
            /\ r.stat = [queued.stat EXCEPT ![to] = "running"]
            /\ \A q \in Prios : q # queued.prio[to] => r.ready[q] = queued.ready[q]
        <5>1. to \in Threads
          BY <2>3
        <5>2. queued \in KState /\ Table(queued) /\ queued.cur = to
          BY <3>2
        <5>3. queued.stat[to] # "suspend"
          BY <3>5
        <5> HIDE DEF moved, cleared, running, from
        <5> QED
          BY <3>4, <4>1, <5>1, <5>2, <5>3, MakeRunningEffect
      <4> QED
        BY <3>2, <3>3, <4>2, <4>3
    <3> HIDE DEF r
    <3>7. \A t \in Threads : r.stat[t] = IF t = to THEN "running"
                                         ELSE IF t = from THEN "ready" ELSE kk.stat[t]
      BY <1>1, <3>2, <3>6
    <3>8. SameBlocked(kk, r) /\ OneRunning(r)
      BY <1>1, <2>3, <2>6, <3>6, <3>7 DEF SameBlocked, OneRunning
    <3>9. Highest(r)
      <4>1. p <= kk.prio[from]
        <5>1. ~(kk.prio[from] < p)
          BY <2>3, <2>6 DEF KeepsCpu
        <5>2. p \in Nat /\ kk.prio[from] \in Nat
          BY <1>1, <2>2
        <5> QED
          BY <5>1, <5>2
      <4> SUFFICES ASSUME NEW q \in r.group
                   PROVE  r.prio[r.cur] <= q
        BY DEF Highest
      <4>2. /\ q \in kk.group \/ q = kk.prio[from]
            /\ r.prio[r.cur] = p
        BY <2>3, <2>6, <3>6
      <4> QED
        BY <2>2, <4>1, <4>2
    <3>10. kk.prio[to] < kk.prio[from] => Head(r.ready[kk.prio[from]]) = from
      <4>1. ASSUME kk.prio[to] < kk.prio[from]
            PROVE  r.ready[kk.prio[from]] = <<from>> \o kk.ready[kk.prio[from]]
        <5>1. kk.prio[from] # kk.prio[to] /\ kk.prio[from] \in Prios
          BY <1>1, <2>3, <4>1
        <5> QED
          BY <3>3, <3>6, <5>1
      <4>2. kk.ready[kk.prio[from]] \in Seq(Threads)
        BY <1>1 DEF KState
      <4>3. Head(<<from>> \o kk.ready[kk.prio[from]]) = from
        BY <4>2
      <4> QED
        BY <4>1, <4>3
    <3>11. SameAccount(kk, r)
      BY <3>3, <3>6 DEF SameAccount
    <3> QED
      BY <2>2, <2>3, <3>6, <3>7, <3>8, <3>9, <3>10, <3>11 DEF r
  <2>7. CASE ~(to # from /\ running)
    <3>1. /\ SameAccount(moved, r) /\ r.timers = kk.timers /\ r.waitq = kk.waitq
          /\ r.prio = kk.prio /\ r.group \subseteq kk.group
          /\ r.stat = [kk.stat EXCEPT ![to] = "running"]
          /\ r.cur = to
      BY <2>1, <2>3, <2>4, <2>5, <2>7, MakeRunningEffect, MakeRunningFacts
    <3> HIDE DEF r
    <3>2. \A t \in Threads : r.stat[t] = IF t = to THEN "running" ELSE kk.stat[t]
      BY <1>1, <3>1
    <3>3. SameBlocked(kk, r) /\ OneRunning(r)
      BY <1>1, <2>3, <2>7, <3>1, <3>2 DEF SameBlocked, OneRunning
    <3>4. Highest(r)
      <4> SUFFICES ASSUME NEW q \in r.group
                   PROVE  r.prio[r.cur] <= q
        BY DEF Highest
      <4>1. q \in kk.group /\ q \in Nat /\ p \in Nat /\ kk.prio[to] \in Nat
        BY <1>1, <2>2, <2>3, <3>1
      <4> QED
        BY <2>2, <2>3, <3>1, <4>1
    <3>5. SameAccount(kk, r)
      BY <2>4, <3>1 DEF SameAccount
    <3>6. to # from => r.stat[from] # "ready"
      BY <1>1, <3>2
    <3> QED
      BY <2>2, <2>3, <3>1, <3>2, <3>3, <3>4, <3>5, <3>6 DEF r
  <2> QED
    BY <2>6, <2>7
<1> QED
  BY <1>2, <1>3

-----------------------------------------------------------------------------
(* The scheduler: the other routines.                                      *)

\* Thread t is woken: it is on no semaphore's list and has no timer any more.
Woken(kk, r, t) ==
  /\ r.stat = [kk.stat EXCEPT ![t] = IF t = kk.cur THEN "running" ELSE "ready"]
  /\ r.cur = kk.cur /\ r.lock = kk.lock /\ r.val = kk.val /\ r.prio = kk.prio
  /\ \A s \in Sems, u \in Threads :
       Contains(r.waitq[s], u) <=> Contains(kk.waitq[s], u) /\ u # t
  /\ \A u \in Threads : Contains(r.timers, u) <=> Contains(kk.timers, u) /\ u # t

\* The current thread stays the one that runs, and the lists stay sound, when a
\* thread that waits for no semaphore takes another state.
LEMMA RestateSettled ==
  ASSUME NEW kk \in KState, OneRunning(kk), QueuesSound(kk), NEW t \in Threads,
         kk.stat[t] # "suspend", NEW r, NEW st \in Stats,
         r.stat = [kk.stat EXCEPT ![t] = st], r.waitq = kk.waitq, r.cur = kk.cur,
         st = "running" => t = kk.cur
  PROVE  OneRunning(r) /\ QueuesSound(r)
<1>1. kk.stat \in [Threads -> Stats]
  BY DEF KState
<1>2. \A u \in Threads : r.stat[u] = IF u = t THEN st ELSE kk.stat[u]
  BY <1>1
<1> QED
  BY <1>2 DEF OneRunning, QueuesSound

\* rt_timer_stop and rt_timer_start concern the timer of one thread.
LEMMA TimerStopEffect ==
  ASSUME NEW kk \in KState, NEW t \in Threads, Parked(kk)
  PROVE  /\ SameAccount(kk, rt_timer_stop(kk, t))
         /\ rt_timer_stop(kk, t).waitq = kk.waitq
         /\ \A u : Contains(rt_timer_stop(kk, t).timers, u) <=> Contains(kk.timers, u) /\ u # t
<1>1. /\ rt_timer_stop(kk, t).timers = Unlink(kk.timers, t)
      /\ rt_timer_stop(kk, t).waitq = kk.waitq
      /\ SameAccount(kk, rt_timer_stop(kk, t))
      /\ kk.timers \in Seq(Threads)
  BY DEF KState, rt_timer_stop, SameAccount
<1> QED
  BY <1>1, UnlinkElements DEF Parked

LEMMA TimerStartEffect ==
  ASSUME NEW kk \in KState, NEW t \in Threads, NEW timeout, Parked(kk)
  PROVE  /\ SameAccount(kk, rt_timer_start(kk, t, timeout))
         /\ rt_timer_start(kk, t, timeout).waitq = kk.waitq
         /\ \A u : Contains(rt_timer_start(kk, t, timeout).timers, u)
                     <=> Contains(kk.timers, u) \/ u = t
<1> DEFINE left == [kk.left EXCEPT ![t] = timeout]
           rest == Unlink(kk.timers, t)
           timers == InsertSorted(rest, t, left)
           r == rt_timer_start(kk, t, timeout)
<1>1. r = [kk EXCEPT !.left = left, !.timers = timers]
  BY DEF rt_timer_start
<1>2. /\ rest \in Seq(Threads)
      /\ \A u : Contains(rest, u) <=> Contains(kk.timers, u) /\ u # t
  BY UnlinkElements DEF Parked, KState
<1> HIDE DEF left, rest
<1>3. \A u : Contains(timers, u) <=> Contains(rest, u) \/ u = t
  BY <1>2, InsertSortedElements
<1> HIDE DEF timers, r
<1>4. r.timers = timers /\ r.waitq = kk.waitq /\ SameAccount(kk, r)
  BY <1>1 DEF KState, SameAccount
<1>5. \A u : Contains(r.timers, u) <=> Contains(kk.timers, u) \/ u = t
  BY <1>2, <1>3, <1>4
<1> QED
  BY <1>4, <1>5 DEF r

\* rt_thread_suspend of the thread that runs.
LEMMA SuspendEffect ==
  ASSUME NEW kk, Settled(kk), NEW t \in Threads, kk.stat[t] = "running"
  PROVE  /\ Settled(rt_thread_suspend(kk, t))
         /\ SameAccount(kk, rt_thread_suspend(kk, t))
         /\ rt_thread_suspend(kk, t).waitq = kk.waitq
         /\ rt_thread_suspend(kk, t).stat = [kk.stat EXCEPT ![t] = "suspend"]
         /\ rt_thread_suspend(kk, t).cur = kk.cur
         /\ rt_thread_suspend(kk, t).prio = kk.prio
         /\ \A u \in Threads : Contains(rt_thread_suspend(kk, t).timers, u)
                                 <=> Contains(kk.timers, u)
<1> DEFINE u == rt_schedule_remove_thread(kk, t)
           v == [u EXCEPT !.stat[t] = "suspend"]
           r == rt_thread_suspend(kk, t)
<1>1. /\ kk \in KState /\ Table(kk) /\ Parked(kk) /\ OneRunning(kk) /\ QueuesSound(kk)
      /\ Consistent(kk)
  BY DEF Settled, Sound, Consistent
<1>2. /\ u \in KState /\ u.stat = kk.stat /\ u.prio = kk.prio /\ u.cur = kk.cur
      /\ SameAccount(kk, u) /\ u.timers = kk.timers /\ u.waitq = kk.waitq
      /\ \A x : Contains(u.defunct, x) => Contains(kk.defunct, x)
  BY <1>1, RemoveThread, RemoveEffect, RemoveThreadParked
<1>3. r = rt_timer_stop(v, t)
  BY DEF rt_thread_suspend
<1>4. Sound(r)
  BY <1>1, SuspendFacts, SuspendParked DEF Sound
<1> HIDE DEF u, r
<1>5. /\ v \in KState /\ v.stat = [kk.stat EXCEPT ![t] = "suspend"]
      /\ v.prio = kk.prio /\ v.cur = kk.cur /\ v.timers = kk.timers /\ v.waitq = kk.waitq
      /\ v.err = u.err /\ v.lock = u.lock /\ v.val = u.val /\ v.defunct = u.defunct
  BY <1>2 DEF KState, Stats
<1> HIDE DEF v
<1>6. Parked(v)
  <2>1. kk.stat \in [Threads -> Stats]
    BY <1>1 DEF KState
  <2>2. \A x \in Threads : x # t => v.stat[x] = kk.stat[x]
    BY <1>5, <2>1
  <2> QED
    BY <1>1, <1>2, <1>5, <2>2, ParkedFrame
<1>7. ~Contains(kk.timers, t)
  BY <1>1 DEF Parked
<1>8. /\ SameAccount(v, r) /\ r.waitq = kk.waitq /\ r.stat = v.stat /\ r.cur = kk.cur
      /\ r.prio = kk.prio
      /\ \A x : Contains(r.timers, x) <=> Contains(kk.timers, x) /\ x # t
  BY <1>3, <1>5, <1>6, TimerStopFacts, TimerStopEffect
<1>9. OneRunning(r) /\ QueuesSound(r)
  BY <1>1, <1>5, <1>8, RestateSettled DEF Stats
<1>10. SameAccount(kk, r)
  BY <1>2, <1>5, <1>8 DEF SameAccount
<1> QED
  BY <1>4, <1>5, <1>7, <1>8, <1>9, <1>10 DEF Settled, r

\* Thread t, which ran, waits for s, with a timer or without.
WaitsFor(kk, r, s, t) ==
  /\ r.stat = [kk.stat EXCEPT ![t] = "suspend"]
  /\ r.err = [kk.err EXCEPT ![t] = "ok"]
  /\ r.cur = kk.cur /\ r.lock = kk.lock /\ r.val = kk.val /\ r.prio = kk.prio
  /\ \A x \in Sems, u \in Threads :
       Contains(r.waitq[x], u) <=> Contains(kk.waitq[x], u) \/ (x = s /\ u = t)
  /\ \A u \in Threads : u # t => (Contains(r.timers, u) <=> Contains(kk.timers, u))

\* The branch of rt_sem_take that waits, called by the thread that runs.
LEMMA SemWaitEffect ==
  ASSUME NEW kk, Settled(kk), NEW t \in Threads, NEW s \in Sems,
         NEW timeout \in Timeouts, kk.stat[t] = "running"
  PROVE  /\ Settled(SemWait(kk, s, t, timeout))
         /\ WaitsFor(kk, SemWait(kk, s, t, timeout), s, t)
<1> DEFINE u == [kk EXCEPT !.err[t] = "ok"]
           v == rt_thread_suspend(u, t)
           q == IF PrioFlag THEN InsertSorted(v.waitq[s], t, v.prio) ELSE Append(v.waitq[s], t)
           w == _ipc_list_suspend(u, s, t)
           r == SemWait(kk, s, t, timeout)
<1>1. /\ kk \in KState /\ Parked(kk) /\ OneRunning(kk) /\ QueuesSound(kk) /\ Consistent(kk)
      /\ Sound(kk)
  BY DEF Settled, Sound, Consistent
<1>2. /\ u.stat = kk.stat /\ u.prio = kk.prio /\ u.cur = kk.cur
      /\ u.waitq = kk.waitq /\ u.timers = kk.timers /\ u.lock = kk.lock /\ u.val = kk.val
      /\ u.err = [kk.err EXCEPT ![t] = "ok"]
  BY <1>1 DEF KState
<1>3. r = IF timeout = None THEN w ELSE rt_timer_start(w, t, timeout)
  BY DEF SemWait
<1>4. Sound(r)
  BY <1>1, SemWaitFacts, SemWaitParked, CallsAssumption DEF Sound
<1>5. Sound(u)
  BY <1>1, AssignField DEF Errors
<1> HIDE DEF u, r
<1>6. Settled(u)
  BY <1>1, <1>2, <1>5 DEF Settled, OneRunning, QueuesSound
<1>7. w = [v EXCEPT !.waitq[s] = q]
  BY DEF _ipc_list_suspend
<1>8. /\ Settled(v) /\ SameAccount(u, v) /\ v.waitq = kk.waitq /\ v.cur = kk.cur
      /\ v.prio = kk.prio
      /\ v.stat = [kk.stat EXCEPT ![t] = "suspend"]
      /\ \A x \in Threads : Contains(v.timers, x) <=> Contains(kk.timers, x)
  BY <1>2, <1>6, SuspendEffect
<1> HIDE DEF v, w
<1>9. v \in KState /\ kk.waitq[s] \in Seq(Threads) /\ IsInjective(kk.waitq[s])
  <2>1. v \in KState
    BY <1>8 DEF Settled, Sound, Consistent
  <2>2. kk.waitq \in [Sems -> Seq(Threads)]
    BY <1>1 DEF KState
  <2> QED
    BY <1>1, <2>1, <2>2 DEF QueuesSound
<1>10. ~Contains(kk.waitq[s], t)
  BY <1>1 DEF QueuesSound
<1>11. /\ q \in Seq(Threads) /\ IsInjective(q)
       /\ \A x : Contains(q, x) <=> Contains(kk.waitq[s], x) \/ x = t
  <2>1. q = InsertSorted(kk.waitq[s], t, v.prio) \/ q = Append(kk.waitq[s], t)
    BY <1>8
  <2> HIDE DEF q
  <2> DEFINE old == kk.waitq[s]
             a == Append(old, t)
  <2>2. old \in Seq(Threads) /\ (a = Append(old, t) \/ a = <<t>> \o old)
    BY <1>9
  <2> HIDE DEF a, old
  <2>3. /\ a \in Seq(Threads)
        /\ \A x : Contains(a, x) <=> Contains(old, x) \/ x = t
        /\ IsInjective(old) /\ ~Contains(old, t) => IsInjective(a)
    BY <2>2, AddElements
  <2>4. CASE q = Append(kk.waitq[s], t)
    BY <1>9, <1>10, <2>3, <2>4 DEF a, old
  <2>5. CASE q = InsertSorted(kk.waitq[s], t, v.prio)
    BY <1>9, <1>10, <2>5, InsertSortedElements
  <2> QED
    BY <2>1, <2>4, <2>5
<1> HIDE DEF q
<1>12. /\ w \in KState /\ w.stat = v.stat /\ w.cur = v.cur /\ w.timers = v.timers
       /\ w.prio = v.prio
       /\ SameAccount(v, w) /\ w.defunct = v.defunct
       /\ w.waitq = [kk.waitq EXCEPT ![s] = q]
  BY <1>7, <1>8, <1>9, <1>11 DEF KState, SameAccount
<1>13. \A x \in Sems : w.waitq[x] = IF x = s THEN q ELSE kk.waitq[x]
  BY <1>1, <1>12 DEF KState
<1>14. Parked(w)
  BY <1>8, <1>12 DEF Settled, Sound, Parked
<1>15. /\ SameAccount(w, r) /\ r.waitq = w.waitq /\ r.stat = v.stat /\ r.cur = kk.cur
       /\ r.prio = kk.prio
       /\ \A x : x # t => (Contains(r.timers, x) <=> Contains(w.timers, x))
  <2>1. CASE timeout = None
    BY <1>3, <1>8, <1>12, <2>1 DEF SameAccount
  <2>2. CASE timeout # None
    BY <1>3, <1>8, <1>12, <1>14, <2>2, CallsAssumption, TimerStartFacts, TimerStartEffect
  <2> QED
    BY <2>1, <2>2
<1>16. kk.stat \in [Threads -> Stats]
  BY <1>1 DEF KState
<1>17. OneRunning(r) /\ QueuesSound(r)
  BY <1>1, <1>8, <1>11, <1>13, <1>15, <1>16 DEF OneRunning, QueuesSound
<1>18. r.lock = kk.lock /\ r.val = kk.val /\ r.err = [kk.err EXCEPT ![t] = "ok"]
  BY <1>2, <1>8, <1>12, <1>15 DEF SameAccount
<1>19. \A x \in Sems, y \in Threads :
         Contains(r.waitq[x], y) <=> Contains(kk.waitq[x], y) \/ (x = s /\ y = t)
  BY <1>11, <1>13, <1>15
<1> QED
  BY <1>4, <1>8, <1>12, <1>15, <1>17, <1>18, <1>19 DEF Settled, WaitsFor, r

\* rt_list_remove and rt_schedule_insert_thread together wake a thread that is
\* suspended, except that its timer is left alone.
LEMMA UnlinkAndInsert ==
  ASSUME NEW kk, Consistent(kk), OneRunning(kk), QueuesSound(kk), NEW t \in Threads,
         kk.stat[t] = "suspend", NEW v \in KState, ListsBut(v, t), GroupExact(v),
         v.stat = kk.stat, v.cur = kk.cur, v.lock = kk.lock, v.val = kk.val, v.prio = kk.prio,
         v.waitq = rt_list_remove(kk, t).waitq,
         \A u \in Threads : Contains(v.timers, u) <=> Contains(kk.timers, u) /\ u # t
  PROVE  /\ Woken(kk, rt_schedule_insert_thread(v, t), t)
         /\ OneRunning(rt_schedule_insert_thread(v, t))
         /\ QueuesSound(rt_schedule_insert_thread(v, t))
         /\ rt_schedule_insert_thread(v, t).err = v.err
<1> DEFINE r == rt_schedule_insert_thread(v, t)
<1>1. kk \in KState /\ kk.stat \in [Threads -> Stats]
  BY DEF Consistent, KState
<1>2. \A s \in Sems : /\ IsInjective(v.waitq[s])
                      /\ \A u : Contains(v.waitq[s], u) <=> Contains(kk.waitq[s], u) /\ u # t
  BY <1>1, ListRemoveEffect
<1>3. /\ r.stat = [kk.stat EXCEPT ![t] = IF t = kk.cur THEN "running" ELSE "ready"]
      /\ r.cur = kk.cur /\ r.prio = kk.prio
  BY InsertThread
<1>4. SameAccount(v, r) /\ r.timers = v.timers /\ r.waitq = v.waitq
  BY InsertEffect
<1> HIDE DEF r
<1>5. Woken(kk, r, t)
  BY <1>2, <1>3, <1>4 DEF Woken, SameAccount
<1>6. OneRunning(r) /\ QueuesSound(r)
  BY <1>1, <1>2, <1>3, <1>4 DEF OneRunning, QueuesSound
<1> QED
  BY <1>4, <1>5, <1>6 DEF r, SameAccount

\* rt_thread_resume of a suspended thread.
LEMMA ResumeEffect ==
  ASSUME NEW kk, Settled(kk), NEW t \in Threads, kk.stat[t] = "suspend"
  PROVE  /\ Settled(rt_thread_resume(kk, t))
         /\ Woken(kk, rt_thread_resume(kk, t), t)
         /\ rt_thread_resume(kk, t).err = kk.err
<1> DEFINE u == rt_list_remove(kk, t)
           v == rt_timer_stop(u, t)
           r == rt_thread_resume(kk, t)
<1>1. kk \in KState /\ Consistent(kk) /\ Parked(kk) /\ OneRunning(kk) /\ QueuesSound(kk)
  BY DEF Settled, Sound, Consistent
<1>2. Sound(r)
  BY <1>1, ResumeFacts, ResumeParked DEF Sound
<1>3. r = rt_schedule_insert_thread(v, t)
  BY DEF rt_thread_resume
<1>4. /\ Consistent(u) /\ u.stat = kk.stat /\ u.cur = kk.cur /\ u.prio = kk.prio
      /\ SameAccount(kk, u)
      /\ u.timers = kk.timers
      /\ \A x : Contains(u.defunct, x) => Contains(kk.defunct, x)
  <2>1. Consistent(u) /\ u.stat = kk.stat /\ u.cur = kk.cur
    BY <1>1, UnlinkWaiterFacts
  <2>2. u.prio = kk.prio
    BY <1>1, ListRemoveFacts
  <2>3. SameAccount(kk, u)
    BY <1>1, ListRemoveEffect
  <2>4. u.timers = kk.timers /\ \A x : Contains(u.defunct, x) => Contains(kk.defunct, x)
    BY <1>1, ListRemoveParked
  <2> QED
    BY <2>1, <2>2, <2>3, <2>4
<1> HIDE DEF r, u
<1>5. u \in KState /\ Parked(u)
  BY <1>1, <1>4, ParkedFrame DEF Consistent
<1>6. /\ v \in KState /\ v.stat = kk.stat /\ v.cur = kk.cur /\ v.prio = kk.prio
      /\ SameAccount(u, v)
      /\ v.waitq = u.waitq
      /\ \A x : Contains(v.timers, x) <=> Contains(kk.timers, x) /\ x # t
      /\ Consistent(v)
  BY <1>4, <1>5, TimerStopFacts, TimerStopEffect, Frame
<1> HIDE DEF v
<1>7. ListsBut(v, t) /\ GroupExact(v)
  BY <1>6, NotReadyIsOff DEF Consistent
<1>8. v.lock = kk.lock /\ v.val = kk.val /\ v.err = kk.err /\ v.waitq = rt_list_remove(kk, t).waitq
  BY <1>4, <1>6 DEF SameAccount, u
<1>9. Woken(kk, r, t) /\ OneRunning(r) /\ QueuesSound(r) /\ r.err = v.err
  BY <1>1, <1>3, <1>6, <1>7, <1>8, UnlinkAndInsert
<1> QED
  BY <1>2, <1>8, <1>9 DEF Settled, r

\* The first waiter of a semaphore is suspended.
LEMMA FirstWaiter ==
  ASSUME NEW kk, Settled(kk), NEW s \in Sems, kk.waitq[s] # <<>>
  PROVE  /\ Head(kk.waitq[s]) \in Threads /\ Contains(kk.waitq[s], Head(kk.waitq[s]))
         /\ kk.stat[Head(kk.waitq[s])] = "suspend"
         /\ SemGive(kk, s) = rt_thread_resume(kk, Head(kk.waitq[s]))
<1>1. kk.waitq[s] \in Seq(Threads) /\ QueuesSound(kk)
  BY DEF Settled, Sound, Consistent, KState
<1>2. Head(kk.waitq[s]) \in Threads /\ Contains(kk.waitq[s], Head(kk.waitq[s]))
  BY <1>1, HeadAndTail
<1> QED
  BY <1>1, <1>2 DEF QueuesSound, SemGive, _ipc_list_resume

\* A release that finds no waiter counts, up to RT_SEM_VALUE_MAX.
LEMMA SemGiveCounts ==
  ASSUME NEW kk, Settled(kk), NEW s \in Sems, kk.waitq[s] = <<>>
  PROVE  /\ Settled(SemGive(kk, s))
         /\ SemGive(kk, s).val = IF kk.val[s] < SemMax
                                 THEN [kk.val EXCEPT ![s] = @ + 1] ELSE kk.val
         /\ SemGive(kk, s).stat = kk.stat /\ SemGive(kk, s).cur = kk.cur
         /\ SemGive(kk, s).prio = kk.prio /\ SemGive(kk, s).group = kk.group
         /\ SemGive(kk, s).err = kk.err /\ SemGive(kk, s).lock = kk.lock
         /\ SemGive(kk, s).timers = kk.timers /\ SemGive(kk, s).waitq = kk.waitq
<1> DEFINE r == SemGive(kk, s)
<1>1. kk \in KState /\ Consistent(kk) /\ Parked(kk) /\ OneRunning(kk) /\ QueuesSound(kk)
  BY DEF Settled, Sound, Consistent
<1>2. Sound(r)
  BY <1>1, SemGiveFacts, SemGiveParked DEF Sound
<1>3. /\ r.val = IF kk.val[s] < SemMax THEN [kk.val EXCEPT ![s] = @ + 1] ELSE kk.val
      /\ r.stat = kk.stat /\ r.cur = kk.cur /\ r.prio = kk.prio /\ r.group = kk.group
      /\ r.err = kk.err /\ r.lock = kk.lock /\ r.timers = kk.timers /\ r.waitq = kk.waitq
  BY <1>1 DEF KState, SemGive
<1> HIDE DEF r
<1>4. OneRunning(r) /\ QueuesSound(r)
  BY <1>1, <1>3 DEF OneRunning, QueuesSound
<1> QED
  BY <1>2, <1>3, <1>4 DEF Settled, r

\* The timeout function of a suspended thread whose timer is first on the list, up to
\* its rt_schedule.
Expired(kk) ==
  LET t == Head(kk.timers)
  IN  rt_schedule_insert_thread(
        rt_list_remove([kk EXCEPT !.timers = Tail(kk.timers), !.err[t] = "timeout"], t), t)

LEMMA ExpireEffect ==
  ASSUME NEW kk, Settled(kk), kk.timers # <<>>
  PROVE  /\ Head(kk.timers) \in Threads /\ Contains(kk.timers, Head(kk.timers))
         /\ kk.stat[Head(kk.timers)] = "suspend"
         /\ Settled(Expired(kk))
         /\ Woken(kk, Expired(kk), Head(kk.timers))
         /\ Expired(kk).err = [kk.err EXCEPT ![Head(kk.timers)] = "timeout"]
         /\ _thread_timeout([kk EXCEPT !.timers = Tail(kk.timers)], Head(kk.timers))
              = rt_schedule(Expired(kk))
<1> DEFINE t == Head(kk.timers)
           u == [kk EXCEPT !.timers = Tail(kk.timers), !.err[t] = "timeout"]
           v == rt_list_remove(u, t)
           r == Expired(kk)
<1>1. /\ kk \in KState /\ Consistent(kk) /\ Parked(kk) /\ OneRunning(kk) /\ QueuesSound(kk)
      /\ kk.timers \in Seq(Threads) /\ IsInjective(kk.timers)
  BY DEF Settled, Sound, Consistent, KState, Parked
<1>2. /\ t \in Threads /\ Contains(kk.timers, t) /\ Tail(kk.timers) \in Seq(Threads)
      /\ IsInjective(Tail(kk.timers))
      /\ \A x : Contains(Tail(kk.timers), x) <=> Contains(kk.timers, x) /\ x # t
  BY <1>1, TailElements
<1>3. kk.stat[t] = "suspend"
  BY <1>1, <1>2 DEF Parked
<1>4. r = rt_schedule_insert_thread(v, t)
  BY DEF Expired
<1>5. _thread_timeout([kk EXCEPT !.timers = Tail(kk.timers)], t) = rt_schedule(r)
  <2>1. [[kk EXCEPT !.timers = Tail(kk.timers)] EXCEPT !.err[t] = "timeout"] = u
    BY <1>1 DEF KState
  <2> QED
    BY <2>1 DEF _thread_timeout, Expired
<1> HIDE DEF t, r
<1>6. /\ u \in KState /\ u.stat = kk.stat /\ u.cur = kk.cur /\ u.prio = kk.prio
      /\ u.ready = kk.ready /\ u.group = kk.group /\ u.lock = kk.lock /\ u.val = kk.val
      /\ u.waitq = kk.waitq /\ u.defunct = kk.defunct
      /\ u.timers = Tail(kk.timers) /\ u.err = [kk.err EXCEPT ![t] = "timeout"]
  BY <1>1, <1>2 DEF KState, Errors
<1> HIDE DEF u
<1>7. Consistent(u) /\ OneRunning(u) /\ QueuesSound(u)
  BY <1>1, <1>6, Frame DEF OneRunning, QueuesSound
<1>8. /\ v \in KState /\ v.stat = kk.stat /\ v.cur = kk.cur /\ v.prio = kk.prio
      /\ SameAccount(u, v) /\ v.timers = Tail(kk.timers)
      /\ \A x : Contains(v.defunct, x) => Contains(kk.defunct, x)
      /\ Consistent(v)
  <2>1. u.stat[t] # "ready"
    BY <1>3, <1>6
  <2>2. Consistent(v) /\ v.stat = u.stat /\ v.cur = u.cur
    BY <1>2, <1>7, <2>1, UnlinkWaiterFacts
  <2>3. v \in KState /\ v.prio = u.prio
    BY <1>2, <1>6, ListRemoveFacts
  <2>4. SameAccount(u, v) /\ v.timers = u.timers
    BY <1>2, <1>6, <1>7, ListRemoveEffect
  <2>5. \A x : Contains(v.defunct, x) => Contains(u.defunct, x)
    BY <1>2, <1>6, ListRemoveParked
  <2> HIDE DEF v
  <2> QED
    BY <1>6, <2>2, <2>3, <2>4, <2>5
<1>9. v.waitq = rt_list_remove(kk, t).waitq
  BY <1>1, <1>6 DEF v, rt_list_remove, KState
<1> HIDE DEF v
<1>10. ListsBut(v, t) /\ GroupExact(v)
  BY <1>2, <1>3, <1>8, NotReadyIsOff DEF Consistent
<1>11. /\ v.lock = kk.lock /\ v.val = kk.val /\ v.err = [kk.err EXCEPT ![t] = "timeout"]
       /\ \A x \in Threads : Contains(v.timers, x) <=> Contains(kk.timers, x) /\ x # t
  BY <1>2, <1>6, <1>8 DEF SameAccount
<1>12. Woken(kk, r, t) /\ OneRunning(r) /\ QueuesSound(r) /\ r.err = v.err
  BY <1>1, <1>2, <1>3, <1>4, <1>8, <1>9, <1>10, <1>11, UnlinkAndInsert
<1>13. Consistent(r)
  BY <1>2, <1>3, <1>4, <1>8, WakeFacts
<1>14. Parked(r)
  <2>1. r.timers = v.timers /\ r.defunct = v.defunct
    BY <1>2, <1>4, <1>8, InsertThreadParked
  <2>2. \A x \in Threads : x # t => r.stat[x] = kk.stat[x]
    BY <1>1, <1>12 DEF Woken, KState
  <2> QED
    BY <1>1, <1>2, <1>3, <1>8, <2>1, <2>2 DEF Parked
<1> QED
  BY <1>2, <1>3, <1>5, <1>11, <1>12, <1>13, <1>14 DEF Settled, Sound, r, t

\* rt_thread_startup of a thread that has just been initialised.
LEMMA StartupEffect ==
  ASSUME NEW kk, Settled(kk), NEW t \in Threads, kk.stat[t] = "init"
  PROVE  /\ Settled(rt_thread_startup(kk, t))
         /\ Woken(kk, rt_thread_startup(kk, t), t)
         /\ rt_thread_startup(kk, t).err = kk.err
<1> DEFINE u == [kk EXCEPT !.stat[t] = "suspend", !.yld[t] = FALSE]
           r == rt_thread_startup(kk, t)
<1>1. /\ kk \in KState /\ Consistent(kk) /\ Parked(kk) /\ OneRunning(kk) /\ QueuesSound(kk)
      /\ kk.stat \in [Threads -> Stats]
  BY DEF Settled, Sound, Consistent, KState
<1>2. /\ u \in KState /\ u.stat = [kk.stat EXCEPT ![t] = "suspend"]
      /\ u.cur = kk.cur /\ u.prio = kk.prio /\ u.ready = kk.ready /\ u.group = kk.group
      /\ u.timers = kk.timers /\ u.waitq = kk.waitq /\ u.defunct = kk.defunct
      /\ SameAccount(kk, u)
  BY <1>1 DEF KState, Stats, SameAccount
<1>3. r = rt_thread_resume(u, t)
  BY DEF rt_thread_startup
<1> HIDE DEF u, r
<1>4. \A x \in Threads : u.stat[x] = IF x = t THEN "suspend" ELSE kk.stat[x]
  BY <1>1, <1>2
<1>5. ListsBut(kk, t) /\ GroupExact(kk)
  BY <1>1, NotReadyIsOff DEF Consistent
<1>6. Table(u)
  BY <1>1, <1>2, <1>5, OffIsNotReady DEF Stats
<1>7. CurrentNotReady(u)
  BY <1>1, <1>2, <1>4 DEF Consistent, CurrentNotReady
<1>8. Parked(u) /\ OneRunning(u) /\ QueuesSound(u)
  BY <1>1, <1>2, <1>4 DEF Parked, OneRunning, QueuesSound
<1>9. Settled(u) /\ u.stat[t] = "suspend"
  BY <1>2, <1>4, <1>6, <1>7, <1>8 DEF Settled, Sound, Consistent
<1>10. Settled(r) /\ Woken(u, r, t) /\ r.err = u.err
  BY <1>3, <1>9, ResumeEffect
<1>11. [u.stat EXCEPT ![t] = IF t = u.cur THEN "running" ELSE "ready"]
         = [kk.stat EXCEPT ![t] = IF t = kk.cur THEN "running" ELSE "ready"]
  BY <1>1, <1>2
<1>12. Woken(kk, r, t) /\ r.err = kk.err
  BY <1>2, <1>10, <1>11 DEF Woken, SameAccount
<1> QED
  BY <1>10, <1>12 DEF r

\* rt_thread_init of a closed thread that the idle thread has let go.
LEMMA ThreadInitEffect ==
  ASSUME NEW kk, Settled(kk), NEW t \in Threads, kk.stat[t] = "close",
         ~Contains(kk.defunct, t)
  PROVE  /\ Settled(rt_thread_init(kk, t))
         /\ rt_thread_init(kk, t).stat = [kk.stat EXCEPT ![t] = "init"]
         /\ rt_thread_init(kk, t).err = [kk.err EXCEPT ![t] = "ok"]
         /\ rt_thread_init(kk, t).prio = [kk.prio EXCEPT ![t] = Priority[t]]
         /\ rt_thread_init(kk, t).cur = kk.cur /\ rt_thread_init(kk, t).lock = kk.lock
         /\ rt_thread_init(kk, t).val = kk.val /\ rt_thread_init(kk, t).waitq = kk.waitq
         /\ rt_thread_init(kk, t).timers = kk.timers
<1> DEFINE r == rt_thread_init(kk, t)
<1>1. /\ kk \in KState /\ Consistent(kk) /\ Parked(kk) /\ OneRunning(kk) /\ QueuesSound(kk)
  BY DEF Settled, Sound, Consistent
<1>2. Sound(r)
  BY <1>1, ThreadInitFacts, ThreadInitParked DEF Sound
<1>3. /\ r.stat = [kk.stat EXCEPT ![t] = "init"] /\ r.err = [kk.err EXCEPT ![t] = "ok"]
      /\ r.prio = [kk.prio EXCEPT ![t] = Priority[t]]
      /\ r.cur = kk.cur /\ r.lock = kk.lock /\ r.val = kk.val /\ r.waitq = kk.waitq
      /\ r.timers = kk.timers
  BY <1>1 DEF KState, rt_thread_init
<1> HIDE DEF r
<1>4. OneRunning(r) /\ QueuesSound(r)
  <2>1. kk.stat[t] # "suspend" /\ "init" \in Stats
    BY DEF Stats
  <2> QED
    BY <1>1, <1>3, <2>1, RestateSettled
<1> QED
  BY <1>2, <1>3, <1>4 DEF Settled, r

\* What a thread that ends does to the others: nothing.
LEMMA ExitEffect ==
  ASSUME NEW kk, Settled(kk), NEW t \in Threads, kk.stat[t] = "running"
  PROVE  /\ Settled(CloseThread(rt_schedule_remove_thread(kk, t), t))
         /\ SameAccount(kk, CloseThread(rt_schedule_remove_thread(kk, t), t))
         /\ CloseThread(rt_schedule_remove_thread(kk, t), t).stat
              = [kk.stat EXCEPT ![t] = "close"]
         /\ CloseThread(rt_schedule_remove_thread(kk, t), t).cur = kk.cur
         /\ CloseThread(rt_schedule_remove_thread(kk, t), t).prio = kk.prio
         /\ CloseThread(rt_schedule_remove_thread(kk, t), t).waitq = kk.waitq
         /\ \A u \in Threads :
              Contains(CloseThread(rt_schedule_remove_thread(kk, t), t).timers, u)
                <=> Contains(kk.timers, u)
<1> DEFINE u == rt_schedule_remove_thread(kk, t)
           v == rt_timer_stop(u, t)
           r == CloseThread(u, t)
<1>1. /\ kk \in KState /\ Table(kk) /\ Consistent(kk) /\ Parked(kk)
      /\ OneRunning(kk) /\ QueuesSound(kk)
  BY DEF Settled, Sound, Consistent
<1>2. Sound(r)
  BY <1>1, ExitFacts, ExitParked DEF Sound
<1>3. /\ u \in KState /\ u.stat = kk.stat /\ u.prio = kk.prio /\ u.cur = kk.cur
      /\ SameAccount(kk, u) /\ u.timers = kk.timers /\ u.waitq = kk.waitq
      /\ \A x : Contains(u.defunct, x) => Contains(kk.defunct, x)
  BY <1>1, RemoveThread, RemoveEffect, RemoveThreadParked
<1> HIDE DEF u
<1>4. Parked(u)
  BY <1>1, <1>3, ParkedFrame
<1>5. /\ v \in KState /\ v.stat = kk.stat /\ v.cur = kk.cur /\ v.prio = kk.prio
      /\ SameAccount(u, v) /\ v.waitq = kk.waitq
      /\ \A x : Contains(v.timers, x) <=> Contains(kk.timers, x) /\ x # t
  BY <1>3, <1>4, TimerStopFacts, TimerStopEffect
<1>6. r = [v EXCEPT !.stat[t] = "close", !.yld[t] = FALSE, !.defunct = <<t>> \o u.defunct]
  BY DEF CloseThread
<1> HIDE DEF v, r
<1>7. /\ r.stat = [kk.stat EXCEPT ![t] = "close"] /\ r.cur = kk.cur /\ r.waitq = kk.waitq
      /\ SameAccount(v, r) /\ r.timers = v.timers /\ r.prio = kk.prio
  BY <1>5, <1>6 DEF KState, SameAccount
<1>8. OneRunning(r) /\ QueuesSound(r)
  BY <1>1, <1>7, RestateSettled DEF Stats
<1>9. ~Contains(kk.timers, t)
  BY <1>1 DEF Parked
<1>10. SameAccount(kk, r)
  BY <1>3, <1>5, <1>7 DEF SameAccount
<1> QED
  BY <1>2, <1>5, <1>7, <1>8, <1>9, <1>10 DEF Settled, r, u

\* The idle thread takes a closed thread off the defunct list.
LEMMA ReapEffect ==
  ASSUME NEW kk, Settled(kk), kk.defunct # <<>>
  PROVE  /\ Settled(rt_list_remove(kk, Head(kk.defunct)))
         /\ SameAccount(kk, rt_list_remove(kk, Head(kk.defunct)))
         /\ rt_list_remove(kk, Head(kk.defunct)).stat = kk.stat
         /\ rt_list_remove(kk, Head(kk.defunct)).cur = kk.cur
         /\ rt_list_remove(kk, Head(kk.defunct)).prio = kk.prio
         /\ rt_list_remove(kk, Head(kk.defunct)).group = kk.group
         /\ rt_list_remove(kk, Head(kk.defunct)).waitq = kk.waitq
         /\ rt_list_remove(kk, Head(kk.defunct)).timers = kk.timers
<1> DEFINE d == Head(kk.defunct)
           r == rt_list_remove(kk, d)
<1>1. /\ kk \in KState /\ Consistent(kk) /\ Parked(kk) /\ OneRunning(kk) /\ QueuesSound(kk)
      /\ kk.defunct \in Seq(Threads)
  BY DEF Settled, Sound, Consistent, KState
<1>2. d \in Threads /\ Contains(kk.defunct, d)
  BY <1>1, HeadAndTail
<1> HIDE DEF d
<1>3. kk.stat[d] = "close"
  BY <1>1, <1>2 DEF Parked
<1>4. /\ Consistent(r) /\ r.stat = kk.stat /\ r.cur = kk.cur /\ r.prio = kk.prio
      /\ r.group = kk.group /\ SameAccount(kk, r) /\ r.timers = kk.timers /\ r.waitq = kk.waitq
      /\ \A x : Contains(r.defunct, x) => Contains(kk.defunct, x)
  <2>1. Consistent(r) /\ r.stat = kk.stat /\ r.cur = kk.cur
    BY <1>1, <1>2, <1>3, UnlinkWaiterFacts
  <2>2. r.prio = kk.prio /\ r.group = kk.group
    BY <1>1, <1>2, ListRemoveFacts
  <2>3. SameAccount(kk, r) /\ r.waitq = kk.waitq
    BY <1>1, <1>2, <1>3, ListRemoveEffect
  <2>4. r.timers = kk.timers /\ \A x : Contains(r.defunct, x) => Contains(kk.defunct, x)
    BY <1>1, <1>2, ListRemoveParked
  <2> QED
    BY <2>1, <2>2, <2>3, <2>4
<1> HIDE DEF r
<1>5. Parked(r) /\ OneRunning(r) /\ QueuesSound(r)
  BY <1>1, <1>4 DEF Parked, OneRunning, QueuesSound
<1> QED
  BY <1>4, <1>5 DEF Settled, Sound, r, d

\* The states, the current thread and the lists of the semaphores are what Settled is
\* about, beside Sound.
LEMMA SettledFrame ==
  ASSUME NEW kk, Settled(kk), NEW r, Sound(r),
         r.stat = kk.stat, r.cur = kk.cur, r.waitq = kk.waitq
  PROVE  Settled(r)
BY DEF Settled, OneRunning, QueuesSound

-----------------------------------------------------------------------------
(* The scheduler: the steps of the kernel.                                 *)

\* HighestRuns, in the interrupt handler too.
Urgent == k.cur \in Threads /\ k.lock = 0 => pc[k.cur] \in Windows \/ Highest(k)

\* The scheduler is not locked before it is started.
BootUnlocked == k.cur = None => k.lock = 0

SchedInv == IInv /\ OneRunning(k) /\ QueuesSound(k) /\ Urgent /\ BootUnlocked

\* What a step that takes the CPU from kk.cur must respect: the lock, and the turn of
\* a thread that is preempted, with slices left or without.
Orderly(kk, r) ==
  /\ kk.lock > 0 => r.cur = kk.cur
  /\ kk.cur # None /\ r.cur # kk.cur /\ r.stat[kk.cur] = "ready"
       /\ kk.prio[r.cur] < kk.prio[kk.cur]
     => Head(r.ready[kk.prio[kk.cur]]) = kk.cur

Good == Settled(k') /\ Urgent' /\ BootUnlocked' /\ Orderly(k, k')

\* A step that ends in rt_schedule, called on the record u.
LEMMA GoodSchedule ==
  ASSUME k.cur \in Threads, k.lock \in Nat, NEW u, Settled(u), u.cur = k.cur, u.lock = k.lock,
         u.prio = k.prio, k' = rt_schedule(u)
  PROVE  Good
<1>1. Sound(k') /\ k'.cur \in Threads
  BY ScheduleFacts, ScheduleParked DEF Settled, Sound
<1>2. /\ SameAccount(u, k') /\ k'.waitq = u.waitq /\ SameBlocked(u, k') /\ OneRunning(k')
      /\ u.lock # 0 => k' = u
      /\ u.lock = 0 => Highest(k')
      /\ k'.cur # u.cur /\ k'.stat[u.cur] = "ready" /\ u.prio[k'.cur] < u.prio[u.cur]
           => Head(k'.ready[u.prio[u.cur]]) = u.cur
  BY ScheduleEffect
<1>3. QueuesSound(k')
  BY <1>2 DEF QueuesSound, Settled, SameBlocked
<1>4. Settled(k')
  BY <1>1, <1>2, <1>3 DEF Settled
<1>5. Urgent'
  BY <1>2 DEF Urgent, SameAccount, Highest
<1>6. BootUnlocked'
  BY <1>1, NoneAssumption DEF BootUnlocked
<1>7. Orderly(k, k')
  BY <1>2 DEF Orderly
<1> QED
  BY <1>4, <1>5, <1>6, <1>7 DEF Good

\* A step that leaves the CPU with the current thread, and wakes no more urgent one
\* unless the thread is yet to call rt_schedule or holds the lock.
LEMMA GoodStay ==
  ASSUME SchedInv, k.cur \in Threads, Settled(k'), k'.cur = k.cur,
         k'.lock = 0 =>
           \/ pc'[k.cur] \in Windows
           \/ k.lock = 0 /\ k'.prio = k.prio /\ k'.group = k.group /\ pc[k.cur] \notin Windows
           \/ k.lock = 0 /\ k'.prio = k.prio /\ k'.group = k.group /\ pc' = pc
  PROVE  Good
<1>1. Urgent'
  BY DEF SchedInv, Urgent, Highest
<1>2. BootUnlocked'
  BY NoneAssumption DEF BootUnlocked
<1>3. Orderly(k, k')
  BY DEF Orderly
<1> QED
  BY <1>1, <1>2, <1>3 DEF Good

LEMMA InitSched == Init => SchedInv
<1> SUFFICES ASSUME Init
             PROVE  SchedInv
  OBVIOUS
<1>1. IInv
  BY InitIInv
<1>2. OneRunning(k) /\ QueuesSound(k)
  BY DEF Init, KInit, OneRunning, QueuesSound, Contains, IsInjective
<1>3. Urgent /\ BootUnlocked
  BY NoneAssumption DEF Init, KInit, Urgent, BootUnlocked
<1> QED
  BY <1>1, <1>2, <1>3 DEF SchedInv

LEMMA ThreadGood ==
  ASSUME SchedInv, NEW t \in Threads, ThreadStep(t)
  PROVE  Good
<1> USE DEF At, Goto, Caller, Blocker
<1>0. /\ Settled(k) /\ Sound(k) /\ k \in KState /\ k.lock \in Nat
      /\ pc \in [Threads -> Places]
  BY DEF SchedInv, IInv, Settled, Sound, Consistent, TypeOK, KState
<1>p. /\ "run" \notin Windows /\ "wait" \notin Windows /\ "nap" \notin Windows
      /\ {"sched", "take", "sleep", "park", "exit"} = Windows
  BY DEF Windows, After
<1>1. ASSUME NEW s \in Sems, TakeToken(t, s)
      PROVE  Good
  <2>1. k.val[s] - 1 \in 0 .. SemMax
    BY <1>0, <1>1, BoundAssumption DEF TakeToken, KState
  <2>2. k' = [k EXCEPT !.val[s] = k.val[s] - 1]
    BY <1>1 DEF TakeToken
  <2>3. /\ k'.stat = k.stat /\ k'.cur = k.cur /\ k'.waitq = k.waitq /\ k'.lock = k.lock
        /\ k'.prio = k.prio /\ k'.group = k.group
    BY <1>0, <2>2 DEF KState
  <2>4. Settled(k')
    BY <1>0, <2>1, <2>2, <2>3, AssignField, SettledFrame
  <2> QED
    BY <1>1, <2>3, <2>4, GoodStay DEF TakeToken
<1>2. ASSUME NEW s \in Sems, NEW timeout \in Timeouts, TakeWait(t, s, timeout)
      PROVE  Good
  <2>0. k.stat[t] = "running" /\ k' = SemWait(k, s, t, timeout)
    BY <1>2 DEF TakeWait
  <2>1. Settled(k') /\ WaitsFor(k, k', s, t)
    BY <1>0, <2>0, SemWaitEffect
  <2> QED
    BY <1>0, <1>p, <1>2, <2>1, GoodStay DEF TakeWait, WaitsFor
<1>3. ASSUME NEW s \in Sems, Release(t, s)
      PROVE  Good
  <2>1. CASE k.waitq[s] # <<>>
    <3> DEFINE h == Head(k.waitq[s])
    <3>0. k' = rt_thread_resume(k, h) /\ h \in Threads /\ k.stat[h] = "suspend"
      BY <1>0, <1>3, <2>1, FirstWaiter DEF Release
    <3> HIDE DEF h
    <3>1. Settled(k') /\ k'.cur = k.cur
      <4>1. Settled(k') /\ Woken(k, k', h)
        BY <1>0, <3>0, ResumeEffect
      <4> QED
        BY <4>1 DEF Woken
    <3>2. pc'[t] \in Windows
      BY <1>0, <1>p, <1>3, <2>1 DEF Release
    <3> QED
      BY <1>3, <3>1, <3>2, GoodStay DEF Release
  <2>2. CASE k.waitq[s] = <<>>
    <3>1. /\ Settled(k') /\ k'.cur = k.cur /\ k'.prio = k.prio /\ k'.group = k.group
          /\ k'.lock = k.lock
      BY <1>0, <1>3, <2>2, SemGiveCounts DEF Release
    <3> QED
      BY <1>3, <2>2, <3>1, GoodStay DEF Release
  <2> QED
    BY <2>1, <2>2
<1>4. ASSUME TakeReturn(t)
      PROVE  Good
  BY <1>0, <1>p, <1>4, GoodStay DEF TakeReturn
<1>5. ASSUME NEW timeout \in Timeouts \ {None}, Sleep(t, timeout)
      PROVE  Good
  <2> DEFINE u == [k EXCEPT !.err[t] = "ok"]
             v == rt_thread_suspend(u, t)
  <2>1. Settled(u) /\ u.stat[t] = "running" /\ u.cur = k.cur
    <3>1. u.stat = k.stat /\ u.cur = k.cur /\ u.waitq = k.waitq
      BY <1>0 DEF KState
    <3>2. Sound(u)
      BY <1>0, AssignField DEF Errors
    <3> HIDE DEF u
    <3> QED
      BY <1>0, <1>5, <3>1, <3>2, SettledFrame DEF Sleep
  <2> HIDE DEF u
  <2>2. /\ Settled(v) /\ v.cur = k.cur
        /\ v.stat = [u.stat EXCEPT ![t] = "suspend"]
    BY <2>1, SuspendEffect
  <2>3. k' = rt_timer_start(v, t, timeout) /\ timeout \in 0 .. MaxTimeout
    BY <1>5, CallsAssumption DEF Sleep, u
  <2> HIDE DEF v
  <2>4. v \in KState /\ Parked(v) /\ v.stat[t] = "suspend" /\ Consistent(v)
    <3>1. v \in KState /\ u.stat \in [Threads -> Stats] /\ Parked(v) /\ Consistent(v)
      BY <2>1, <2>2 DEF Settled, Sound, Consistent, KState
    <3> QED
      BY <2>2, <3>1
  <2>5. /\ k'.stat = v.stat /\ k'.cur = v.cur /\ k'.waitq = v.waitq
        /\ Consistent(k') /\ Parked(k')
    BY <2>3, <2>4, TimerStartFacts, TimerStartParked, TimerStartEffect, Frame
  <2>6. Settled(k')
    BY <2>2, <2>5, SettledFrame DEF Sound
  <2> QED
    BY <1>0, <1>p, <1>5, <2>2, <2>5, <2>6, GoodStay DEF Sleep
<1>6. ASSUME SleepReturn(t)
      PROVE  Good
  <2> DEFINE e == IF k.err[t] = "timeout" THEN "ok" ELSE k.err[t]
  <2>1. e \in Errors
    BY <1>0 DEF KState, Errors
  <2>2. k' = [k EXCEPT !.err[t] = e]
    BY <1>6 DEF SleepReturn
  <2> HIDE DEF e
  <2>3. /\ k'.stat = k.stat /\ k'.cur = k.cur /\ k'.waitq = k.waitq /\ k'.lock = k.lock
        /\ k'.prio = k.prio /\ k'.group = k.group
    BY <1>0, <2>2 DEF KState
  <2>4. Settled(k')
    BY <1>0, <2>1, <2>2, <2>3, AssignField, SettledFrame
  <2> QED
    BY <1>p, <1>6, <2>3, <2>4, GoodStay DEF SleepReturn
<1>7. ASSUME Park(t)
      PROVE  Good
  <2>1. Settled(k') /\ k'.cur = k.cur
    BY <1>0, <1>7, SuspendEffect DEF Park
  <2> QED
    BY <1>0, <1>p, <1>7, <2>1, GoodStay DEF Park
<1>8. ASSUME Exit(t)
      PROVE  Good
  <2>1. Settled(k') /\ k'.cur = k.cur
    BY <1>0, <1>8, ExitEffect DEF Exit
  <2> QED
    BY <1>0, <1>p, <1>8, <2>1, GoodStay DEF Exit
<1>9. ASSUME Yield(t)
      PROVE  Good
  <2> DEFINE u == [k EXCEPT !.slice[t] = InitTick, !.yld[t] = TRUE]
  <2>1. /\ u.stat = k.stat /\ u.cur = k.cur /\ u.waitq = k.waitq /\ u.lock = k.lock
        /\ u.prio = k.prio
    BY <1>0 DEF KState
  <2>2. Sound(u)
    <3>1. InitTick \in 1 .. InitTick
      BY BoundAssumption
    <3>2. \A b \in BOOLEAN : Sound([k EXCEPT !.slice[t] = InitTick, !.yld[t] = b])
      BY <1>0, <3>1, AssignField
    <3> QED
      BY <3>2
  <2>3. k' = rt_schedule(u)
    BY <1>9 DEF Yield
  <2> HIDE DEF u
  <2>4. Settled(u)
    BY <1>0, <2>1, <2>2, SettledFrame
  <2> QED
    BY <1>0, <1>9, <2>1, <2>3, <2>4, GoodSchedule DEF Yield
<1>10. ASSUME EnterCritical(t)
       PROVE  Good
  <2>1. k.lock + 1 \in Nat /\ k' = [k EXCEPT !.lock = k.lock + 1]
    BY <1>0, <1>10 DEF EnterCritical
  <2>2. /\ k'.stat = k.stat /\ k'.cur = k.cur /\ k'.waitq = k.waitq
        /\ k'.lock = k.lock + 1
    BY <1>0, <2>1 DEF KState
  <2>3. Settled(k')
    BY <1>0, <2>1, <2>2, AssignField, SettledFrame
  <2> QED
    BY <1>0, <1>10, <2>2, <2>3, GoodStay DEF EnterCritical
<1>11. ASSUME ExitCritical(t)
       PROVE  Good
  <2>1. k.lock - 1 \in Nat /\ k' = [k EXCEPT !.lock = k.lock - 1]
    BY <1>0, <1>11 DEF ExitCritical
  <2>2. /\ k'.stat = k.stat /\ k'.cur = k.cur /\ k'.waitq = k.waitq
        /\ k'.lock = k.lock - 1
    BY <1>0, <2>1 DEF KState
  <2>3. Settled(k')
    BY <1>0, <2>1, <2>2, AssignField, SettledFrame
  <2>4. k'.lock = 0 => pc'[t] \in Windows
    BY <1>0, <1>p, <1>11, <2>2 DEF ExitCritical
  <2> QED
    BY <1>11, <2>2, <2>3, <2>4, GoodStay DEF ExitCritical
<1>12. ASSUME CallSchedule(t)
       PROVE  Good
  BY <1>0, <1>12, GoodSchedule DEF CallSchedule
<1>13. ASSUME Reap(t)
       PROVE  Good
  <2>1. /\ Settled(k') /\ k'.cur = k.cur /\ k'.prio = k.prio /\ k'.group = k.group
        /\ k'.lock = k.lock
    BY <1>0, <1>13, ReapEffect DEF Reap, SameAccount
  <2> QED
    BY <1>13, <2>1, GoodStay DEF Reap
<1>14. ASSUME NEW u \in Threads, CreateTask(t, u)
       PROVE  Good
  <2> DEFINE v == rt_thread_init(k, u)
  <2>0. k.stat[u] = "close" /\ ~Contains(k.defunct, u)
    BY <1>14 DEF CreateTask
  <2>1. /\ Settled(v) /\ v.stat = [k.stat EXCEPT ![u] = "init"] /\ v.cur = k.cur
    BY <1>0, <2>0, ThreadInitEffect
  <2>2. v.stat[u] = "init"
    BY <1>0, <2>1 DEF KState
  <2>3. k' = rt_thread_startup(v, u)
    BY <1>14 DEF CreateTask
  <2> HIDE DEF v
  <2>4. Settled(k') /\ k'.cur = k.cur
    BY <2>1, <2>2, <2>3, StartupEffect DEF Woken
  <2>5. u # t
    BY <1>14 DEF CreateTask
  <2>6. pc'[t] \in Windows
    BY <1>0, <1>p, <1>14, <2>5 DEF CreateTask
  <2> QED
    BY <1>14, <2>4, <2>6, GoodStay DEF CreateTask
<1> QED
  BY <1>1, <1>2, <1>3, <1>4, <1>5, <1>6, <1>7, <1>8, <1>9, <1>10, <1>11, <1>12, <1>13, <1>14
  DEF ThreadStep, SemaphoreStep, ControlStep

\* The tick up to its rt_schedule, if its slice makes it call it.
Aged(kk) ==
  [kk EXCEPT !.left = [u \in Threads |->
     IF Contains(kk.timers, u) /\ kk.left[u] > 0 THEN kk.left[u] - 1 ELSE kk.left[u]]]

\* The tick does not touch what the properties are about, but for its rt_schedule.
LEMMA TickEffect ==
  ASSUME SchedInv, Tick
  PROVE  /\ k.cur \in Threads
         /\ \E u : /\ Settled(u) /\ SameAccount(k, u)
                   /\ u.stat = k.stat /\ u.cur = k.cur /\ u.waitq = k.waitq
                   /\ u.prio = k.prio /\ u.group = k.group /\ u.timers = k.timers
                   /\ k' = u \/ k' = rt_schedule(u)
<1> DEFINE t    == k.cur
           left == [u \in Threads |->
                      IF Contains(k.timers, u) /\ k.left[u] > 0 THEN k.left[u] - 1 ELSE k.left[u]]
           down == Aged(k)
           last == [down EXCEPT !.slice[t] = InitTick, !.yld[t] = TRUE]
           less == [down EXCEPT !.slice[t] = k.slice[t] - 1]
<1>1. Settled(k) /\ Sound(k) /\ k \in KState /\ t \in Threads
  BY NoneAssumption DEF SchedInv, IInv, Settled, Sound, Consistent, KState, Tick, Interrupted
<1>2. left \in [Threads -> 0 .. MaxTimeout]
  <2>1. k.left \in [Threads -> 0 .. MaxTimeout] /\ MaxTimeout \in Nat
    BY <1>1, BoundAssumption DEF KState
  <2>2. \A u \in Threads : k.left[u] > 0 => k.left[u] - 1 \in 0 .. MaxTimeout
    BY <2>1
  <2> QED
    BY <2>1, <2>2
<1>3. down = [k EXCEPT !.left = left]
  BY DEF Aged
<1>4. k' = IF k.slice[t] = 1 THEN rt_schedule(last) ELSE [down EXCEPT !.slice[t] = @ - 1]
  BY DEF Tick, Aged
<1> HIDE DEF left, down
<1>5. /\ down \in KState /\ down.stat = k.stat /\ down.prio = k.prio /\ down.cur = k.cur
      /\ down.ready = k.ready /\ down.group = k.group /\ down.slice = k.slice
      /\ down.timers = k.timers /\ down.defunct = k.defunct /\ down.waitq = k.waitq
      /\ down.err = k.err /\ down.lock = k.lock /\ down.val = k.val
  BY <1>1, <1>2, <1>3 DEF KState
<1>6. Sound(down)
  BY <1>1, <1>5, Frame DEF Sound, Parked
<1>7. InitTick \in 1 .. InitTick /\ (k.slice[t] # 1 => k.slice[t] - 1 \in 1 .. InitTick)
  BY <1>1, BoundAssumption DEF KState
<1>8. ASSUME NEW u, u = last \/ (u = less /\ k.slice[t] # 1)
      PROVE  /\ Settled(u) /\ SameAccount(k, u)
             /\ u.stat = k.stat /\ u.cur = k.cur /\ u.waitq = k.waitq
             /\ u.prio = k.prio /\ u.group = k.group /\ u.timers = k.timers
  <2>1. /\ SameAccount(k, u)
        /\ u.stat = k.stat /\ u.cur = k.cur /\ u.waitq = k.waitq
        /\ u.prio = k.prio /\ u.group = k.group /\ u.timers = k.timers
    BY <1>5, <1>8 DEF KState, SameAccount
  <2>2. Sound(u)
    <3>1. CASE u = last
      <4>1. \A b \in BOOLEAN : Sound([down EXCEPT !.slice[t] = InitTick, !.yld[t] = b])
        BY <1>1, <1>6, <1>7, AssignField
      <4> QED
        BY <3>1, <4>1
    <3>2. CASE u = less /\ k.slice[t] # 1
      BY <1>1, <1>6, <1>7, <3>2, AssignField
    <3> QED
      BY <1>8, <3>1, <3>2
  <2> QED
    BY <1>1, <2>1, <2>2, SettledFrame
<1>9. CASE k.slice[t] = 1
  <2> HIDE DEF last
  <2> QED
    BY <1>1, <1>4, <1>8, <1>9
<1>10. CASE k.slice[t] # 1
  <2>1. k' = less
    BY <1>4, <1>5, <1>10
  <2> HIDE DEF less
  <2> QED
    BY <1>1, <1>8, <1>10, <2>1
<1> QED
  BY <1>9, <1>10

LEMMA InterruptGood ==
  ASSUME SchedInv, Interrupt
  PROVE  Good
<1>0. /\ Settled(k) /\ Sound(k) /\ k \in KState /\ k.lock \in Nat
  BY DEF SchedInv, IInv, Settled, Sound, Consistent, TypeOK, KState
<1>1. CASE Tick
  <2>1. PICK u : /\ k.cur \in Threads /\ Settled(u) /\ SameAccount(k, u)
                 /\ u.stat = k.stat /\ u.cur = k.cur /\ u.waitq = k.waitq
                 /\ u.prio = k.prio /\ u.group = k.group /\ u.timers = k.timers
                 /\ k' = u \/ k' = rt_schedule(u)
    BY <1>1, TickEffect
  <2>2. CASE k' = u
    BY <1>1, <2>1, <2>2, GoodStay DEF SameAccount, Tick
  <2>3. CASE k' = rt_schedule(u)
    BY <1>0, <2>1, <2>3, GoodSchedule DEF SameAccount
  <2> QED
    BY <2>1, <2>2, <2>3
<1>2. CASE TimerExpire
  <2>1. k.cur \in Threads /\ k.timers # <<>>
    BY <1>2 DEF SchedInv, IInv, TickHasCurrent, TimerExpire, Due
  <2>2. Settled(Expired(k)) /\ Woken(k, Expired(k), Head(k.timers)) /\ k' = rt_schedule(Expired(k))
    BY <1>0, <1>2, <2>1, ExpireEffect DEF TimerExpire
  <2> QED
    BY <1>0, <2>1, <2>2, GoodSchedule DEF Woken
<1>3. CASE TickReturn
  <2>1. k.cur \in Threads
    BY <1>3 DEF SchedInv, IInv, TickHasCurrent, TickReturn
  <2> QED
    BY <1>0, <1>3, <2>1, GoodStay DEF TickReturn
<1>4. ASSUME NEW s \in Sems, IsrRelease(s)
      PROVE  Good
  <2>1. k.cur \in Threads
    BY <1>0, <1>4 DEF IsrRelease, Interrupted, KState
  <2>2. CASE k.waitq[s] # <<>>
    <3>1. Settled(SemGive(k, s)) /\ Woken(k, SemGive(k, s), Head(k.waitq[s]))
      BY <1>0, <2>2, FirstWaiter, ResumeEffect
    <3>2. k' = rt_schedule(SemGive(k, s))
      BY <1>4, <2>2 DEF IsrRelease
    <3> QED
      BY <1>0, <2>1, <3>1, <3>2, GoodSchedule DEF Woken
  <2>3. CASE k.waitq[s] = <<>>
    <3>1. /\ Settled(k') /\ k'.cur = k.cur /\ k'.prio = k.prio /\ k'.group = k.group
          /\ k'.lock = k.lock
      BY <1>0, <1>4, <2>3, SemGiveCounts DEF IsrRelease
    <3> QED
      BY <1>4, <2>1, <3>1, GoodStay DEF IsrRelease
  <2> QED
    BY <2>2, <2>3
<1> QED
  BY <1>1, <1>2, <1>3, <1>4 DEF Interrupt

\* The first thread to run is the most urgent of those that main started.
LEMMA StartSchedulerEffect ==
  ASSUME SchedInv, StartScheduler
  PROVE  /\ Settled(k') /\ Highest(k') /\ k'.cur \in Threads
         /\ SameAccount(k, k') /\ k'.timers = k.timers /\ k'.waitq = k.waitq
         /\ k'.stat = [k.stat EXCEPT ![k'.cur] = "running"]
<1> DEFINE p == HighestReady(k)
           to == Head(k.ready[p])
           u == [k EXCEPT !.cur = to]
<1>1. /\ k \in KState /\ Table(k) /\ Parked(k) /\ OneRunning(k) /\ QueuesSound(k)
      /\ k.cur = None /\ k.stat \in [Threads -> Stats]
  BY DEF SchedInv, IInv, Sound, Consistent, StartScheduler, KState
<1>2. k.group # {}
  <2>1. PICK t \in Threads : k.stat[t] = "ready" /\ k.prio[t] \in Prios
    BY <1>1, ThreadsAssumption DEF StartScheduler, KState
  <2>2. Contains(k.ready[k.prio[t]], t)
    BY <1>1, <2>1, NoneAssumption DEF Table, ListsBut
  <2>3. k.ready[k.prio[t]] # <<>>
    BY <2>2 DEF Contains
  <2> QED
    BY <1>1, <2>1, <2>3 DEF Table, GroupExact
<1>3. /\ to \in Threads /\ k.prio[to] = p /\ k.stat[to] = "ready"
      /\ \A q \in k.group : p <= q
  BY <1>1, <1>2, HighestReadyFacts, HighestReadyHead
<1>4. k' = MakeRunning(u, to)
  BY DEF StartScheduler, rt_system_scheduler_start
<1> HIDE DEF p, to
<1>5. /\ u \in KState /\ u.stat = k.stat /\ u.prio = k.prio /\ u.cur = to
      /\ u.ready = k.ready /\ u.group = k.group /\ u.waitq = k.waitq
      /\ u.timers = k.timers /\ u.defunct = k.defunct /\ SameAccount(k, u)
  BY <1>1, <1>3 DEF KState, SameAccount
<1> HIDE DEF u
<1>6. Table(u) /\ Parked(u) /\ QueuesSound(u)
  BY <1>1, <1>5 DEF Table, ListsBut, GroupExact, Parked, QueuesSound
<1>7. Consistent(k') /\ k'.cur = to
  BY <1>3, <1>4, <1>5, <1>6, MakeRunningFacts
<1>8. Parked(k')
  BY <1>3, <1>4, <1>5, <1>6, MakeRunningParked
<1>9. /\ SameAccount(u, k') /\ k'.timers = k.timers /\ k'.waitq = k.waitq
      /\ k'.prio = k.prio /\ k'.group \subseteq k.group
      /\ k'.stat = [k.stat EXCEPT ![to] = "running"]
  BY <1>3, <1>4, <1>5, <1>6, MakeRunningEffect
<1>10. Highest(k')
  BY <1>3, <1>7, <1>9 DEF Highest
<1>11. OneRunning(k') /\ QueuesSound(k')
  BY <1>1, <1>3, <1>7, <1>9, NoneAssumption DEF OneRunning, QueuesSound
<1>12. SameAccount(k, k')
  BY <1>5, <1>9 DEF SameAccount
<1> QED
  BY <1>3, <1>7, <1>8, <1>9, <1>10, <1>11, <1>12 DEF Settled, Sound

LEMMA BootGood ==
  ASSUME SchedInv, Boot
  PROVE  Good
<1>0. Settled(k) /\ k.lock \in Nat
  BY DEF SchedInv, IInv, Settled, TypeOK, KState
<1>1. ASSUME NEW t \in Threads, BootStartup(t)
      PROVE  Good
  <2>1. Settled(k') /\ Woken(k, k', t)
    BY <1>0, <1>1, StartupEffect DEF BootStartup
  <2>2. k.cur = None /\ k'.cur = None /\ k'.lock = 0 /\ k.lock = 0
    BY <1>1, <2>1 DEF BootStartup, Woken, SchedInv, BootUnlocked
  <2> QED
    BY <2>1, <2>2, NoneAssumption DEF Good, Urgent, BootUnlocked, Orderly
<1>2. CASE StartScheduler
  <2>1. Settled(k') /\ Highest(k') /\ k'.cur \in Threads
    BY <1>2, StartSchedulerEffect
  <2>2. k.cur = None /\ k.lock = 0
    BY <1>2 DEF StartScheduler, SchedInv, BootUnlocked
  <2>3. Urgent' /\ BootUnlocked'
    BY <2>1, NoneAssumption DEF Urgent, BootUnlocked, Highest
  <2> QED
    BY <2>1, <2>2, <2>3 DEF Good, Orderly
<1> QED
  BY <1>1, <1>2 DEF Boot

LEMMA NextGood == SchedInv /\ Next => Good
BY ThreadGood, InterruptGood, BootGood DEF Next

LEMMA NextSched == SchedInv /\ [Next]_vars => SchedInv'
<1> SUFFICES ASSUME SchedInv, [Next]_vars
             PROVE  SchedInv'
  OBVIOUS
<1>1. IInv'
  BY NextIInv DEF SchedInv
<1>2. CASE Next
  BY <1>1, <1>2, NextGood DEF Good, Settled, SchedInv
<1>3. CASE UNCHANGED vars
  BY <1>1, <1>3 DEF SchedInv, vars, Urgent, BootUnlocked, OneRunning, QueuesSound, Highest
<1> QED
  BY <1>2, <1>3

-----------------------------------------------------------------------------
(* The scheduler: the theorems.                                            *)

\* At most one thread is RUNNING, it is the current one, and whenever interrupts and
\* the scheduler are unlocked and no service is about to reschedule, none is more urgent.
THEOREM SchedInvariance == Spec => []SchedInv
<1>1. Init => SchedInv
  BY InitSched
<1>2. SchedInv /\ [Next]_vars => SchedInv'
  BY NextSched
<1> QED
  BY <1>1, <1>2, PTL DEF Spec

\* The application runs on the most urgent READY thread: whatever woke threads, in a
\* service or in an interrupt, the rt_schedule that follows has looked at them all.
THEOREM HighestRunsCorrect == Spec => []HighestRuns
<1>1. SchedInv => HighestRuns
  BY DEF SchedInv, IInv, TypeOK, KState, Urgent, Highest, HighestRuns
<1> QED
  BY <1>1, SchedInvariance, PTL

\* rt_enter_critical holds the CPU: neither an interrupt nor a service switches.
THEOREM CriticalHoldsCpuCorrect == Spec => CriticalHoldsCpu
<1>1. SchedInv /\ [Next]_vars => [k.lock > 0 => k'.cur = k.cur]_vars
  BY NextGood DEF Good, Orderly
<1> QED
  BY <1>1, SchedInvariance, PTL DEF Spec, CriticalHoldsCpu

\* rt_schedule puts a thread that is preempted with slices left back at the head of the
\* list of its priority.
THEOREM PreemptedGoesFirstCorrect == Spec => PreemptedGoesFirst
<1>1. SchedInv /\ [Next]_vars =>
        [k.cur # None /\ k'.cur # k.cur /\ k'.stat[k.cur] = "ready" /\ ~Yielding(k.cur)
           /\ k.prio[k'.cur] < k.prio[k.cur]
         => Head(k'.ready[k.prio[k.cur]]) = k.cur]_vars
  BY NextGood DEF Good, Orderly
<1> QED
  BY <1>1, SchedInvariance, PTL DEF Spec, PreemptedGoesFirst

-----------------------------------------------------------------------------
(* The threads that wait: the invariant.                                   *)

\* The service that a thread is in, from where its code stands.
serving == [run |-> "none", sched |-> "none", take |-> "take", wait |-> "take",
            sleep |-> "sleep", nap |-> "sleep", park |-> "park", spin |-> "park",
            exit |-> "exit", dead |-> "exit"]

Doing(t) == serving[pc[t]]

\* Why t is blocked, if it is, and the token it has, if it was given one.
Waits(t) ==
  /\ \A s \in Sems : Contains(k.waitq[s], t) <=> k.stat[t] = "suspend" /\ want[t] = s
  /\ want[t] \in Sems <=> Doing(t) = "take"
  /\ k.stat[t] = "suspend" =>
       \/ Doing(t) = "take" /\ k.err[t] = "ok"
       \/ Doing(t) = "sleep" /\ Contains(k.timers, t)
       \/ Doing(t) = "park"
  /\ k.stat[t] = "close" => Doing(t) = "exit"
  /\ grant[t] = IF Doing(t) = "take" /\ k.stat[t] # "suspend" /\ k.err[t] = "ok"
                THEN want[t] ELSE None

AllWait == \A t \in Threads : Waits(t)

\* A current thread that does not run is about to give the CPU away, and some thread
\* is there to take it: an idle thread never blocks.
CpuInv ==
  k.cur \in Threads =>
    /\ k.stat[k.cur] # "running" => k.lock = 0 /\ pc[k.cur] \in Windows \ {"sched"}
    /\ \A i \in Idlers : k.stat[i] \in {"ready", "running"}

WaitInv == SchedInv /\ CpuInv /\ AllWait /\ TokensConserved

-----------------------------------------------------------------------------
(* What a step may leave as it was.                                        *)

\* For thread t, r differs from kk in nothing that waiting is about, save its error.
SamePlace(kk, r, t) ==
  /\ r.stat[t] = "suspend" <=> kk.stat[t] = "suspend"
  /\ r.stat[t] = "close" <=> kk.stat[t] = "close"
  /\ \A s \in Sems : Contains(r.waitq[s], t) <=> Contains(kk.waitq[s], t)
  /\ Contains(r.timers, t) <=> Contains(kk.timers, t)

SameFor(kk, r, t) == SamePlace(kk, r, t) /\ r.err[t] = kk.err[t]

\* The step leaves thread t as it was, up to a switch of the CPU.
Untouched(t) ==
  /\ SameFor(k, k', t)
  /\ want'[t] = want[t] /\ grant'[t] = grant[t]
  /\ Doing(t)' = Doing(t)

\* How far the take of thread t has come.
Stage(t) ==
  IF Doing(t) # "take" THEN "out"
  ELSE IF k.stat[t] = "suspend" THEN "waiting"
  ELSE IF k.err[t] = "ok" THEN "granted" ELSE "failed"

\* A step that no semaphore and no caller of one notices.
Quiet ==
  /\ k'.val = k.val /\ UNCHANGED ghosts
  /\ \A t \in Threads :
       Untouched(t) \/ (Doing(t) # "take" /\ Doing(t)' # "take" /\ Waits(t)')

\* What every step does.
Kept ==
  /\ AllWait' /\ TokensConserved'
  /\ [CountingSemaphores!Next]_CountingSemaphores!vars

LEMMA UntouchedWaits ==
  ASSUME NEW t \in Threads, Waits(t), Untouched(t)
  PROVE  Waits(t)' /\ Stage(t)' = Stage(t)
BY DEF Waits, Untouched, SameFor, SamePlace, Stage

\* rt_schedule only moves the CPU.
LEMMA ScheduleSame ==
  ASSUME NEW kk, Settled(kk), kk.cur \in Threads
  PROVE  /\ rt_schedule(kk).val = kk.val
         /\ \A t \in Threads : SameFor(kk, rt_schedule(kk), t)
BY ScheduleEffect DEF SameAccount, SameBlocked, SameFor, SamePlace

\* rt_schedule leaves the CPU with a thread that runs, as long as a thread that is
\* always ready is there to take it.
LEMMA ScheduleRuns ==
  ASSUME NEW kk, Settled(kk), kk.cur \in Threads, Idlers # {},
         kk.stat[kk.cur] # "running" => kk.lock = 0,
         \A i \in Idlers : kk.stat[i] \in {"ready", "running"}
  PROVE  /\ rt_schedule(kk).stat[rt_schedule(kk).cur] = "running"
         /\ \A i \in Idlers : rt_schedule(kk).stat[i] \in {"ready", "running"}
<1> DEFINE r == rt_schedule(kk)
<1>1. /\ SameBlocked(kk, r)
      /\ kk.lock = 0 /\ kk.group # {} => r.stat[r.cur] = "running"
      /\ ~(kk.lock = 0 /\ kk.group # {}) => r = kk
  BY ScheduleEffect
<1> HIDE DEF r
<1>2. PICK i \in Idlers : kk.stat[i] \in {"ready", "running"}
  OBVIOUS
<1>3. i \in Threads
  BY CallsAssumption
<1>4. kk.stat[i] = "ready" => kk.group # {}
  <2>1. kk \in KState /\ Table(kk)
    BY DEF Settled, Sound, Consistent
  <2>2. kk.prio[i] \in Prios
    BY <1>3, <2>1 DEF KState
  <2>3. kk.stat[i] = "ready" => Contains(kk.ready[kk.prio[i]], i)
    BY <1>3, <2>1, <2>2, NoneAssumption DEF Table, ListsBut
  <2>4. kk.stat[i] = "ready" => kk.ready[kk.prio[i]] # <<>>
    BY <2>3 DEF Contains
  <2> QED
    BY <2>1, <2>2, <2>4 DEF Table, GroupExact
<1>5. kk.stat[i] = "running" => i = kk.cur
  BY <1>3 DEF Settled, OneRunning
<1>6. r.stat[r.cur] = "running"
  BY <1>1, <1>2, <1>4, <1>5
<1>7. \A j \in Idlers : r.stat[j] \in {"ready", "running"}
  BY <1>1, CallsAssumption DEF SameBlocked
<1> QED
  BY <1>6, <1>7 DEF r

\* A thread that is woken leaves the others as they were.
LEMMA WokenOthers ==
  ASSUME NEW kk \in KState, NEW r, NEW t \in Threads, Woken(kk, r, t)
  PROVE  /\ \A u \in Threads : u # t => r.stat[u] = kk.stat[u] /\ SamePlace(kk, r, u)
         /\ r.stat[t] = IF t = kk.cur THEN "running" ELSE "ready"
         /\ \A s \in Sems : ~Contains(r.waitq[s], t)
         /\ ~Contains(r.timers, t)
<1>1. kk.stat \in [Threads -> Stats]
  BY DEF KState
<1> QED
  BY <1>1 DEF Woken, SamePlace

\* So does a thread that blocks on a semaphore.
LEMMA WaitsForOthers ==
  ASSUME NEW kk \in KState, NEW r, NEW t \in Threads, NEW s \in Sems, WaitsFor(kk, r, s, t)
  PROVE  /\ \A u \in Threads : u # t => r.stat[u] = kk.stat[u] /\ SameFor(kk, r, u)
         /\ r.stat[t] = "suspend" /\ r.err[t] = "ok"
         /\ \A x \in Sems : Contains(r.waitq[x], t) <=> Contains(kk.waitq[x], t) \/ x = s
<1>1. kk.stat \in [Threads -> Stats] /\ kk.err \in [Threads -> Errors]
  BY DEF KState
<1> QED
  BY <1>1 DEF WaitsFor, SameFor, SamePlace

-----------------------------------------------------------------------------
(* The abstract semaphores.                                                *)

\* The list of the semaphore a thread takes tells what its state tells.
LEMMA StageIsPhase ==
  ASSUME NEW t \in Threads, TypeOK, Waits(t)
  PROVE  waiting(t) = Stage(t)
<1>1. pc[t] \in Places
  BY DEF TypeOK
<1>2. pc[t] \in {"take", "wait"} <=> Doing(t) = "take"
  BY <1>1 DEF Doing, serving, Places, Windows, After
<1> QED
  BY <1>2 DEF Waits, Stage, waiting

LEMMA StageIsPhaseNext ==
  ASSUME NEW t \in Threads, TypeOK', Waits(t)'
  PROVE  waiting(t)' = Stage(t)'
<1>1. pc'[t] \in Places
  BY DEF TypeOK
<1>2. pc'[t] \in {"take", "wait"} <=> Doing(t)' = "take"
  BY <1>1 DEF Doing, serving, Places, Windows, After
<1> QED
  BY <1>2 DEF Waits, Stage, waiting

\* At most one caller moves on in a step.
LEMMA PhaseMoves ==
  ASSUME TypeOK, AllWait, TypeOK', AllWait', NEW t \in Threads,
         \A u \in Threads : u # t => Stage(u)' = Stage(u)
  PROVE  [u \in Threads |-> waiting(u)]'
           = [[u \in Threads |-> waiting(u)] EXCEPT ![t] = Stage(t)']
<1>1. \A u \in Threads : waiting(u) = Stage(u) /\ waiting(u)' = Stage(u)'
  BY StageIsPhase, StageIsPhaseNext DEF AllWait
<1> QED
  BY <1>1

LEMMA PhasesStay ==
  ASSUME TypeOK, AllWait, TypeOK', AllWait',
         \A u \in Threads : Stage(u)' = Stage(u)
  PROVE  [u \in Threads |-> waiting(u)]' = [u \in Threads |-> waiting(u)]
<1>1. \A u \in Threads : waiting(u) = Stage(u) /\ waiting(u)' = Stage(u)'
  BY StageIsPhase, StageIsPhaseNext DEF AllWait
<1> QED
  BY <1>1

\* The threads on the list of a semaphore are those that the abstract one has waiting.
LEMMA WaitersAre ==
  ASSUME TypeOK, AllWait, NEW s \in Sems
  PROVE  CountingSemaphores!Waiters(s) = {t \in Threads : Contains(k.waitq[s], t)}
<1>1. \A t \in Threads : waiting(t) = Stage(t) /\ Waits(t)
  BY StageIsPhase DEF AllWait
<1>2. ASSUME NEW t \in Threads
      PROVE  waiting(t) = "waiting" /\ want[t] = s <=> Contains(k.waitq[s], t)
  BY <1>1 DEF Stage, Waits
<1> QED
  BY <1>2 DEF CountingSemaphores!Waiters

LEMMA QuietKept ==
  ASSUME TypeOK, AllWait, TokensConserved, TypeOK', Quiet
  PROVE  Kept
<1>1. AllWait' /\ \A t \in Threads : Stage(t)' = Stage(t)
  BY UntouchedWaits DEF AllWait, Quiet, Stage
<1>2. TokensConserved'
  BY DEF TokensConserved, Quiet, ghosts
<1>3. UNCHANGED CountingSemaphores!vars
  BY <1>1, PhasesStay DEF Quiet, ghosts, CountingSemaphores!vars
<1> QED
  BY <1>1, <1>2, <1>3 DEF Kept

-----------------------------------------------------------------------------
(* The steps that no semaphore notices.                                    *)

\* What the invariant says of the record and of the thread that has the CPU.
LEMMA WaitInvFacts ==
  ASSUME WaitInv
  PROVE  /\ SchedInv /\ IInv /\ TypeOK /\ Settled(k) /\ k \in KState /\ k.lock \in Nat
         /\ AllWait /\ TokensConserved /\ CpuInv
         /\ k.stat \in [Threads -> Stats] /\ k.err \in [Threads -> Errors]
         /\ pc \in [Threads -> Places]
         /\ None \notin Sems /\ Idlers \subseteq Threads
BY CallsAssumption
DEF WaitInv, SchedInv, IInv, Settled, Sound, Consistent, TypeOK, KState

\* Where the code of a thread may stand, and the service it is in there.
LEMMA PlacesFacts ==
  /\ "run" \notin Windows /\ "wait" \notin Windows /\ "nap" \notin Windows
  /\ Windows = {"sched", "take", "sleep", "park", "exit"}
  /\ serving["run"] = "none" /\ serving["sched"] = "none"
  /\ serving["take"] = "take" /\ serving["wait"] = "take"
  /\ serving["sleep"] = "sleep" /\ serving["nap"] = "sleep"
  /\ serving["park"] = "park" /\ serving["exit"] = "exit"
  /\ \A place \in Windows : serving[After[place]] = serving[place]
BY DEF Windows, After, serving

\* A thread in the application, or back in the service that waited, is RUNNING.
LEMMA CallerRuns ==
  ASSUME WaitInv, NEW t \in Threads, k.cur = t, pc[t] \notin Windows \ {"sched"}
  PROVE  k.stat[t] = "running"
BY DEF WaitInv, CpuInv

\* The CPU after a step that ends in rt_schedule.
LEMMA CpuAfterSchedule ==
  ASSUME WaitInv, Idlers # {}, k.cur \in Threads, NEW u, Settled(u), u.cur = k.cur,
         u.lock = k.lock,
         \A t \in Threads : u.stat[t] = k.stat[t] \/ u.stat[t] \in {"ready", "running"},
         u.stat[k.cur] = k.stat[k.cur] \/ u.stat[k.cur] = "running",
         k' = rt_schedule(u)
  PROVE  CpuInv'
<1>1. u.stat[u.cur] # "running" => u.lock = 0
  BY DEF WaitInv, CpuInv
<1>2. \A i \in Idlers : u.stat[i] \in {"ready", "running"}
  BY CallsAssumption DEF WaitInv, CpuInv
<1>3. k'.stat[k'.cur] = "running" /\ \A i \in Idlers : k'.stat[i] \in {"ready", "running"}
  BY <1>1, <1>2, ScheduleRuns
<1> QED
  BY <1>3 DEF CpuInv

\* The CPU after a step that leaves it where it is.
LEMMA CpuStays ==
  ASSUME WaitInv, k'.cur = k.cur,
         \A i \in Idlers : k'.stat[i] = k.stat[i] \/ k'.stat[i] \in {"ready", "running"},
         k.cur \in Threads /\ k'.stat[k.cur] # "running" =>
           k'.lock = 0 /\ pc'[k.cur] \in Windows \ {"sched"}
  PROVE  CpuInv'
BY DEF WaitInv, CpuInv

\* A step that only lets rt_schedule, or nobody, move the CPU.
LEMMA QuietSchedule ==
  ASSUME WaitInv, TypeOK', k.cur \in Threads, NEW u, Settled(u), SameAccount(k, u),
         u.stat = k.stat, u.cur = k.cur, u.waitq = k.waitq, u.timers = k.timers,
         k' = u \/ k' = rt_schedule(u),
         UNCHANGED ghosts, \A t \in Threads : Doing(t)' = Doing(t)
  PROVE  Kept
<1>1. \A t \in Threads : SameFor(k, u, t)
  BY DEF SameFor, SamePlace, SameAccount
<1>2. k'.val = k.val /\ \A t \in Threads : SameFor(k, k', t)
  BY <1>1, ScheduleSame DEF SameFor, SamePlace, SameAccount
<1>3. Quiet
  BY <1>2 DEF Quiet, Untouched, ghosts
<1> QED
  BY <1>3, WaitInvFacts, QuietKept

\* A service of thread t that concerns no semaphore.
LEMMA QuietThread ==
  ASSUME WaitInv, TypeOK', NEW t \in Threads, Doing(t) # "take", Doing(t)' # "take",
         k'.val = k.val, UNCHANGED ghosts,
         \A u \in Threads : u # t => SameFor(k, k', u) /\ Doing(u)' = Doing(u),
         k'.stat[t] # "suspend" \/ Doing(t)' = "park"
           \/ (Doing(t)' = "sleep" /\ Contains(k'.timers, t)),
         k'.stat[t] = "close" => Doing(t)' = "exit",
         \A s \in Sems : ~Contains(k'.waitq[s], t)
  PROVE  Kept
<1>1. TypeOK /\ AllWait /\ TokensConserved /\ None \notin Sems
  BY WaitInvFacts
<1>2. want[t] \notin Sems /\ grant[t] = None
  BY <1>1 DEF AllWait, Waits
<1>3. Waits(t)'
  BY <1>2 DEF Waits, ghosts
<1>4. \A u \in Threads : u # t => Untouched(u)
  BY DEF Untouched, ghosts
<1>5. Quiet
  BY <1>3, <1>4 DEF Quiet
<1> QED
  BY <1>1, <1>5, QuietKept

\* The services that change one number of the record, and the one that reaps.
LEMMA CriticalKept ==
  ASSUME WaitInv, TypeOK', NEW t \in Threads, EnterCritical(t) \/ ExitCritical(t) \/ Reap(t)
  PROVE  Kept /\ CpuInv'
<1> USE DEF At, Goto, Caller
<1>1. /\ Settled(k) /\ k \in KState /\ k.stat \in [Threads -> Stats] /\ pc \in [Threads -> Places]
  BY WaitInvFacts
<1>2. k.cur = t /\ pc[t] = "run" /\ UNCHANGED ghosts
  BY DEF EnterCritical, ExitCritical, Reap
<1>3. /\ k'.stat = k.stat /\ k'.cur = k.cur /\ k'.waitq = k.waitq /\ k'.timers = k.timers
      /\ k'.err = k.err /\ k'.val = k.val
  BY <1>1, ReapEffect DEF EnterCritical, ExitCritical, Reap, KState, SameAccount
<1>4. \A u \in Threads : Doing(u)' = Doing(u)
  <2>1. CASE UNCHANGED pc
    BY <2>1 DEF Doing
  <2>2. CASE pc' = [pc EXCEPT ![t] = "sched"]
    BY <1>1, <1>2, <2>2, PlacesFacts DEF Doing
  <2> QED
    BY <2>1, <2>2 DEF EnterCritical, ExitCritical, Reap
<1>5. Quiet
  BY <1>2, <1>3, <1>4 DEF Quiet, Untouched, SameFor, SamePlace, ghosts
<1>6. CpuInv'
  <2>1. k.stat[t] = "running"
    BY <1>2, PlacesFacts, CallerRuns
  <2> QED
    BY <1>2, <1>3, <2>1, CpuStays
<1> QED
  BY <1>5, <1>6, WaitInvFacts, QuietKept

\* rt_schedule at the end of a service, and rt_thread_yield.
LEMMA CallScheduleKept ==
  ASSUME WaitInv, TypeOK', Idlers # {}, NEW t \in Threads, CallSchedule(t)
  PROVE  Kept /\ CpuInv'
<1>1. /\ Settled(k) /\ pc \in [Threads -> Places]
  BY WaitInvFacts
<1>2. /\ k.cur = t /\ k' = rt_schedule(k) /\ UNCHANGED ghosts
      /\ \E place \in Windows : pc[t] = place /\ pc' = [pc EXCEPT ![t] = After[place]]
  BY DEF CallSchedule, At, Goto
<1>3. \A u \in Threads : Doing(u)' = Doing(u)
  <2>1. PICK place \in Windows : pc[t] = place /\ pc' = [pc EXCEPT ![t] = After[place]]
    BY <1>2
  <2>2. \A u \in Threads : pc'[u] = IF u = t THEN After[place] ELSE pc[u]
    BY <1>1, <2>1
  <2> QED
    BY <2>1, <2>2, PlacesFacts DEF Doing
<1>4. Kept
  BY <1>1, <1>2, <1>3, QuietSchedule DEF SameAccount
<1>5. CpuInv'
  BY <1>1, <1>2, CpuAfterSchedule
<1> QED
  BY <1>4, <1>5

LEMMA YieldKept ==
  ASSUME WaitInv, TypeOK', Idlers # {}, NEW t \in Threads, Yield(t)
  PROVE  Kept /\ CpuInv'
<1> DEFINE u == [k EXCEPT !.slice[t] = InitTick, !.yld[t] = TRUE]
<1>1. Settled(k) /\ k \in KState /\ Sound(k)
  BY WaitInvFacts DEF Settled
<1>2. /\ k.cur = t /\ k' = rt_schedule(u) /\ UNCHANGED ghosts /\ UNCHANGED pc
  BY DEF Yield, Caller, At
<1>3. /\ u.stat = k.stat /\ u.cur = k.cur /\ u.waitq = k.waitq /\ u.timers = k.timers
      /\ SameAccount(k, u)
  BY <1>1 DEF KState, SameAccount
<1>4. Sound(u)
  <2>1. InitTick \in 1 .. InitTick
    BY BoundAssumption
  <2>2. \A b \in BOOLEAN : Sound([k EXCEPT !.slice[t] = InitTick, !.yld[t] = b])
    BY <1>1, <2>1, AssignField
  <2> QED
    BY <2>2
<1> HIDE DEF u
<1>5. Settled(u)
  BY <1>1, <1>3, <1>4, SettledFrame
<1>6. Kept
  BY <1>2, <1>3, <1>5, QuietSchedule DEF Doing
<1>7. CpuInv'
  BY <1>2, <1>3, <1>5, CpuAfterSchedule DEF SameAccount
<1> QED
  BY <1>6, <1>7

\* The tick: whoever loses the CPU is READY.
LEMMA TickKept ==
  ASSUME WaitInv, TypeOK', Idlers # {}, Tick
  PROVE  Kept /\ CpuInv'
<1>1. PICK u : /\ k.cur \in Threads /\ Settled(u) /\ SameAccount(k, u)
               /\ u.stat = k.stat /\ u.cur = k.cur /\ u.waitq = k.waitq
               /\ u.timers = k.timers
               /\ k' = u \/ k' = rt_schedule(u)
  BY WaitInvFacts, TickEffect
<1>2. UNCHANGED ghosts /\ UNCHANGED pc
  BY DEF Tick
<1>3. Kept
  BY <1>1, <1>2, QuietSchedule DEF Doing
<1>4. CpuInv'
  <2>1. CASE k' = u
    BY <1>1, <1>2, <2>1 DEF WaitInv, CpuInv, SameAccount
  <2>2. CASE k' = rt_schedule(u)
    BY <1>1, <2>2, CpuAfterSchedule DEF SameAccount
  <2> QED
    BY <1>1, <2>1, <2>2
<1> QED
  BY <1>3, <1>4

\* A thread that sleeps is on the timer list; one that parks or ends need not be.
LEMMA BlockKept ==
  ASSUME WaitInv, TypeOK', NEW t \in Threads,
         (\E timeout \in Timeouts \ {None} : Sleep(t, timeout)) \/ Park(t) \/ Exit(t)
  PROVE  Kept /\ CpuInv'
<1> USE DEF At, Goto, Caller, Blocker
<1>0. /\ Settled(k) /\ Sound(k) /\ k \in KState /\ k.stat \in [Threads -> Stats]
      /\ pc \in [Threads -> Places] /\ QueuesSound(k) /\ Idlers \subseteq Threads
  BY WaitInvFacts DEF Settled
<1>1. /\ k.cur = t /\ pc[t] = "run" /\ k.stat[t] = "running" /\ t \notin Idlers /\ k.lock = 0
      /\ UNCHANGED ghosts
  BY DEF Sleep, Park, Exit
<1>2. Doing(t) = "none" /\ \A s \in Sems : ~Contains(k.waitq[s], t)
  BY <1>0, <1>1, PlacesFacts DEF Doing, QueuesSound
<1>3. ASSUME NEW place \in {"sleep", "park", "exit"}, pc' = [pc EXCEPT ![t] = place],
             NEW st \in {"suspend", "close"}, k'.stat = [k.stat EXCEPT ![t] = st],
             k'.cur = k.cur, k'.lock = k.lock, k'.val = k.val, k'.waitq = k.waitq,
             \A u \in Threads : u # t =>
               k'.err[u] = k.err[u] /\ (Contains(k'.timers, u) <=> Contains(k.timers, u)),
             place = "sleep" => Contains(k'.timers, t) /\ st = "suspend",
             place = "park" => st = "suspend", place = "exit" => st = "close"
      PROVE  Kept /\ CpuInv'
  <2>1. \A u \in Threads : k'.stat[u] = IF u = t THEN st ELSE k.stat[u]
    BY <1>0, <1>3
  <2>2. \A u \in Threads : u # t => SameFor(k, k', u) /\ Doing(u)' = Doing(u)
    BY <1>0, <1>3, <2>1 DEF SameFor, SamePlace, Doing
  <2>3. Doing(t)' = place
    BY <1>0, <1>3, PlacesFacts DEF Doing
  <2>4. Kept
    BY <1>1, <1>2, <1>3, <2>1, <2>2, <2>3, QuietThread
  <2>5. pc'[t] \in Windows \ {"sched"}
    BY <1>0, <1>3, PlacesFacts
  <2>6. CpuInv'
    BY <1>0, <1>1, <1>3, <2>1, <2>5, CpuStays
  <2> QED
    BY <2>4, <2>6
<1>4. ASSUME NEW timeout \in Timeouts \ {None}, Sleep(t, timeout)
      PROVE  Kept /\ CpuInv'
  <2> DEFINE u == [k EXCEPT !.err[t] = "ok"]
             v == rt_thread_suspend(u, t)
  <2>1. /\ u.stat = k.stat /\ u.cur = k.cur /\ u.waitq = k.waitq /\ u.timers = k.timers
        /\ u.lock = k.lock /\ u.val = k.val /\ u.err = [k.err EXCEPT ![t] = "ok"]
    BY <1>0 DEF KState
  <2>2. Sound(u)
    BY <1>0, AssignField DEF Errors
  <2>3. k' = rt_timer_start(v, t, timeout) /\ pc' = [pc EXCEPT ![t] = "sleep"]
        /\ timeout \in 0 .. MaxTimeout
    BY <1>4, CallsAssumption DEF Sleep
  <2> HIDE DEF u
  <2>4. Settled(u) /\ u.stat[t] = "running"
    BY <1>0, <1>1, <2>1, <2>2, SettledFrame
  <2>5. /\ Settled(v) /\ SameAccount(u, v) /\ v.waitq = k.waitq /\ v.cur = k.cur
        /\ v.stat = [k.stat EXCEPT ![t] = "suspend"]
        /\ \A x \in Threads : Contains(v.timers, x) <=> Contains(k.timers, x)
    BY <2>1, <2>4, SuspendEffect
  <2> HIDE DEF v
  <2>6. v \in KState /\ Parked(v)
    BY <2>5 DEF Settled, Sound, Consistent
  <2>7. /\ SameAccount(v, k') /\ k'.waitq = v.waitq
        /\ k'.stat = v.stat /\ k'.cur = v.cur
        /\ \A x : Contains(k'.timers, x) <=> Contains(v.timers, x) \/ x = t
    BY <2>3, <2>6, TimerStartFacts, TimerStartEffect
  <2>8. \A x \in Threads : x # t => k'.err[x] = k.err[x]
    <3>1. k'.err = [k.err EXCEPT ![t] = "ok"]
      BY <2>1, <2>5, <2>7 DEF SameAccount
    <3>2. k.err \in [Threads -> Errors]
      BY <1>0 DEF KState
    <3> QED
      BY <3>1, <3>2
  <2>9. k'.lock = k.lock /\ k'.val = k.val
    BY <2>1, <2>5, <2>7 DEF SameAccount
  <2> QED
    BY <1>3, <2>3, <2>5, <2>7, <2>8, <2>9
<1>5. CASE Park(t)
  <2>1. /\ k' = rt_thread_suspend(k, t) /\ pc' = [pc EXCEPT ![t] = "park"]
    BY <1>5 DEF Park
  <2>2. /\ SameAccount(k, k') /\ k'.waitq = k.waitq /\ k'.cur = k.cur
        /\ k'.stat = [k.stat EXCEPT ![t] = "suspend"]
        /\ \A x \in Threads : Contains(k'.timers, x) <=> Contains(k.timers, x)
    BY <1>0, <1>1, <2>1, SuspendEffect
  <2> QED
    BY <1>3, <2>1, <2>2 DEF SameAccount
<1>6. CASE Exit(t)
  <2>1. /\ k' = CloseThread(rt_schedule_remove_thread(k, t), t)
        /\ pc' = [pc EXCEPT ![t] = "exit"]
    BY <1>6 DEF Exit
  <2>2. /\ SameAccount(k, k') /\ k'.waitq = k.waitq /\ k'.cur = k.cur
        /\ k'.stat = [k.stat EXCEPT ![t] = "close"]
        /\ \A x \in Threads : Contains(k'.timers, x) <=> Contains(k.timers, x)
    BY <1>0, <1>1, <2>1, ExitEffect
  <2> QED
    BY <1>3, <2>1, <2>2 DEF SameAccount
<1> QED
  BY <1>4, <1>5, <1>6

LEMMA SleepReturnKept ==
  ASSUME WaitInv, TypeOK', NEW t \in Threads, SleepReturn(t)
  PROVE  Kept /\ CpuInv'
<1> DEFINE e == IF k.err[t] = "timeout" THEN "ok" ELSE k.err[t]
<1>1. /\ k \in KState /\ pc \in [Threads -> Places] /\ k.err \in [Threads -> Errors]
      /\ QueuesSound(k)
  BY WaitInvFacts DEF Settled
<1>2. /\ k.cur = t /\ pc[t] = "nap" /\ pc' = [pc EXCEPT ![t] = "run"] /\ UNCHANGED ghosts
      /\ k' = [k EXCEPT !.err[t] = e]
  BY DEF SleepReturn, At, Goto
<1> HIDE DEF e
<1>3. /\ k'.stat = k.stat /\ k'.cur = k.cur /\ k'.waitq = k.waitq /\ k'.timers = k.timers
      /\ k'.val = k.val /\ k'.err = [k.err EXCEPT ![t] = e]
  BY <1>1, <1>2 DEF KState
<1>4. k.stat[t] = "running"
  BY <1>2, PlacesFacts, CallerRuns
<1>5. \A u \in Threads : u # t => k'.err[u] = k.err[u] /\ pc'[u] = pc[u]
  BY <1>1, <1>2, <1>3
<1>6. \A u \in Threads : u # t => SameFor(k, k', u) /\ Doing(u)' = Doing(u)
  BY <1>3, <1>5 DEF SameFor, SamePlace, Doing
<1>7. Doing(t) = "sleep" /\ Doing(t)' = "none"
  BY <1>1, <1>2, PlacesFacts DEF Doing
<1>8. \A s \in Sems : ~Contains(k.waitq[s], t)
  BY <1>1, <1>4 DEF QueuesSound
<1>9. Kept
  BY <1>2, <1>3, <1>4, <1>6, <1>7, <1>8, QuietThread
<1>10. CpuInv'
  BY <1>2, <1>3, <1>4, CpuStays
<1> QED
  BY <1>9, <1>10

\* create_task makes a thread that has ended READY; the creator is yet to reschedule.
LEMMA CreateTaskKept ==
  ASSUME WaitInv, TypeOK', NEW t \in Threads, NEW u \in Threads, CreateTask(t, u)
  PROVE  Kept /\ CpuInv'
<1> DEFINE v == rt_thread_init(k, u)
<1>1. /\ Settled(k) /\ k \in KState /\ pc \in [Threads -> Places] /\ AllWait
      /\ k.err \in [Threads -> Errors] /\ k.stat \in [Threads -> Stats]
  BY WaitInvFacts
<1>2. /\ k.cur = t /\ pc[t] = "run" /\ k.stat[t] = "running"
      /\ k.stat[u] = "close" /\ ~Contains(k.defunct, u)
      /\ k' = rt_thread_startup(v, u)
      /\ pc' = [pc EXCEPT ![t] = "sched", ![u] = "run"] /\ UNCHANGED ghosts
  BY DEF CreateTask, Caller, At
<1>3. u # t
  BY <1>2
<1>4. /\ Settled(v) /\ v.stat = [k.stat EXCEPT ![u] = "init"]
      /\ v.err = [k.err EXCEPT ![u] = "ok"] /\ v.cur = k.cur /\ v.val = k.val
      /\ v.waitq = k.waitq /\ v.timers = k.timers
  BY <1>1, <1>2, ThreadInitEffect
<1> HIDE DEF v
<1>5. v \in KState /\ v.stat[u] = "init"
  BY <1>1, <1>4 DEF Settled, Sound, Consistent
<1>6. Woken(v, k', u) /\ k'.err = v.err
  BY <1>2, <1>4, <1>5, StartupEffect
<1>7. /\ \A x \in Threads : x # u => k'.stat[x] = v.stat[x] /\ SamePlace(v, k', x)
      /\ k'.stat[u] \in {"ready", "running"}
      /\ \A s \in Sems : ~Contains(k'.waitq[s], u)
      /\ k'.val = k.val /\ k'.cur = k.cur
  BY <1>4, <1>5, <1>6, WokenOthers DEF Woken
<1>8. \A x \in Threads : x # u => v.stat[x] = k.stat[x] /\ v.err[x] = k.err[x]
  BY <1>1, <1>4
<1>9. \A x \in Threads : x # u => SameFor(k, k', x)
  BY <1>4, <1>6, <1>7, <1>8 DEF SameFor, SamePlace
<1>10. \A x \in Threads : pc'[x] = IF x = u THEN "run" ELSE IF x = t THEN "sched" ELSE pc[x]
  BY <1>1, <1>2
<1>11. \A x \in Threads : x # u => Doing(x)' = Doing(x)
  <2>1. Doing(t)' = Doing(t)
    BY <1>2, <1>3, <1>10, PlacesFacts DEF Doing
  <2>2. \A x \in Threads : x # u /\ x # t => Doing(x)' = Doing(x)
    BY <1>10 DEF Doing
  <2> QED
    BY <2>1, <2>2
<1>12. Doing(u) = "exit" /\ Doing(u)' = "none"
  BY <1>1, <1>2, <1>10, PlacesFacts DEF AllWait, Waits, Doing
<1>13. Kept
  BY <1>2, <1>7, <1>9, <1>11, <1>12, QuietThread
<1>14. CpuInv'
  <2>1. \A x \in Threads : k'.stat[x] = k.stat[x] \/ k'.stat[x] \in {"ready", "running"}
    BY <1>7, <1>8
  <2>2. k'.stat[k.cur] = "running"
    BY <1>2, <1>3, <1>7, <1>8
  <2> QED
    BY <1>7, <2>1, <2>2, CpuStays, CallsAssumption
<1> QED
  BY <1>13, <1>14

\* Boot: the threads have waited for nothing yet.
LEMMA BootKept ==
  ASSUME WaitInv, TypeOK', Boot
  PROVE  Kept /\ CpuInv'
<1>0. /\ Settled(k) /\ k \in KState /\ k.stat \in [Threads -> Stats] /\ SchedInv
      /\ QueuesSound(k) /\ AllWait /\ TypeOK /\ TokensConserved
  BY WaitInvFacts DEF Settled
<1>1. ASSUME NEW t \in Threads, BootStartup(t)
      PROVE  Kept /\ CpuInv'
  <2>1. /\ k.cur = None /\ k.stat[t] = "init" /\ UNCHANGED ghosts /\ UNCHANGED pc
        /\ k' = rt_thread_startup(k, t)
    BY <1>1 DEF BootStartup
  <2>2. Woken(k, k', t) /\ k'.err = k.err
    BY <1>0, <2>1, StartupEffect
  <2>3. /\ \A x \in Threads : x # t => SamePlace(k, k', x)
        /\ k'.stat[t] \in {"ready", "running"}
        /\ \A s \in Sems : ~Contains(k'.waitq[s], t)
        /\ ~Contains(k'.timers, t)
        /\ k'.val = k.val /\ k'.cur = k.cur
    BY <1>0, <2>2, WokenOthers DEF Woken
  <2>4. \A s \in Sems : ~Contains(k.waitq[s], t)
    BY <1>0, <2>1 DEF QueuesSound
  <2>5. ~Contains(k.timers, t)
    BY <1>0, <2>1 DEF Settled, Sound, Parked
  <2>6. \A x \in Threads : SameFor(k, k', x)
    BY <2>1, <2>2, <2>3, <2>4, <2>5 DEF SameFor, SamePlace
  <2>7. Quiet
    BY <2>1, <2>3, <2>6 DEF Quiet, Untouched, Doing, ghosts
  <2> QED
    BY <1>0, <2>1, <2>3, <2>7, NoneAssumption, QuietKept DEF CpuInv
<1>2. CASE StartScheduler
  <2>1. /\ SameAccount(k, k') /\ k'.timers = k.timers /\ k'.waitq = k.waitq /\ k'.cur \in Threads
        /\ k'.stat = [k.stat EXCEPT ![k'.cur] = "running"]
    BY <1>0, <1>2, StartSchedulerEffect
  <2>2. UNCHANGED ghosts /\ UNCHANGED pc /\ \A t \in Threads : k.stat[t] = "ready"
    BY <1>2 DEF StartScheduler
  <2>3. \A t \in Threads : k'.stat[t] \in {"ready", "running"}
    BY <1>0, <2>1, <2>2
  <2>4. k'.stat[k'.cur] = "running"
    BY <1>0, <2>1
  <2>5. \A t \in Threads : SameFor(k, k', t)
    BY <2>1, <2>2, <2>3 DEF SameFor, SamePlace, SameAccount
  <2>6. Quiet
    BY <2>1, <2>2, <2>5 DEF Quiet, Untouched, SameAccount, Doing, ghosts
  <2>7. CpuInv'
    BY <2>3, <2>4, CallsAssumption DEF CpuInv
  <2> QED
    BY <1>0, <2>6, <2>7, QuietKept
<1> QED
  BY <1>1, <1>2 DEF Boot

-----------------------------------------------------------------------------
(* The steps of the semaphores.                                            *)

\* The threads that were given a token of s and have not returned with it yet.
Holders(s) == {t \in Threads : grant[t] = s}

LEMMA HoldersFinite == \A s : IsFiniteSet(Holders(s)) /\ IsFiniteSet(Holders(s)')
BY FiniteAssumption, FS_Subset DEF Holders

\* A token that is granted, or returned with, makes one holder more, or one less.
LEMMA HolderGained ==
  ASSUME TypeOK, NEW t \in Threads, NEW s \in Sems, grant[t] = None, None \notin Sems,
         grant' = [grant EXCEPT ![t] = s]
  PROVE  \A x \in Sems : Cardinality(Holders(x)') =
           IF x = s THEN Cardinality(Holders(x)) + 1 ELSE Cardinality(Holders(x))
<1>1. \A u \in Threads : grant'[u] = IF u = t THEN s ELSE grant[u]
  BY DEF TypeOK
<1>2. Holders(s)' = Holders(s) \cup {t} /\ t \notin Holders(s)
  BY <1>1 DEF Holders
<1>3. \A x \in Sems : x # s => Holders(x)' = Holders(x)
  BY <1>1 DEF Holders
<1>4. Cardinality(Holders(s) \cup {t}) = Cardinality(Holders(s)) + 1
  BY <1>2, HoldersFinite, FS_AddElement
<1> QED
  BY <1>2, <1>3, <1>4

LEMMA HolderLost ==
  ASSUME TypeOK, NEW t \in Threads, NEW s \in Sems, grant[t] = s, None \notin Sems,
         grant' = [grant EXCEPT ![t] = None]
  PROVE  \A x \in Sems : Cardinality(Holders(x)') =
           IF x = s THEN Cardinality(Holders(x)) - 1 ELSE Cardinality(Holders(x))
<1>1. \A u \in Threads : grant'[u] = IF u = t THEN None ELSE grant[u]
  BY DEF TypeOK
<1>2. Holders(s)' = Holders(s) \ {t} /\ t \in Holders(s)
  BY <1>1 DEF Holders
<1>3. \A x \in Sems : x # s => Holders(x)' = Holders(x)
  BY <1>1 DEF Holders
<1>4. Cardinality(Holders(s) \ {t}) = Cardinality(Holders(s)) - 1
  BY <1>2, HoldersFinite, FS_RemoveElement
<1> QED
  BY <1>2, <1>3, <1>4

\* TokensConserved, with Holders.
Balanced == \A s \in Sems : credit[s] = k.val[s] + Cardinality(Holders(s))

LEMMA BalancedIsConserved == (Balanced <=> TokensConserved) /\ (Balanced' <=> TokensConserved')
BY DEF Balanced, TokensConserved, Holders

LEMMA TakeTokenKept ==
  ASSUME WaitInv, TypeOK', NEW t \in Threads, NEW s \in Sems, TakeToken(t, s)
  PROVE  Kept /\ CpuInv'
<1>1. /\ k \in KState /\ TypeOK /\ AllWait /\ TokensConserved /\ CpuInv
      /\ k.val \in [Sems -> 0 .. SemMax] /\ credit \in [Sems -> Int]
  BY WaitInvFacts DEF KState, TypeOK
<1>2. /\ k' = [k EXCEPT !.val[s] = k.val[s] - 1] /\ k.val[s] > 0
      /\ credit' = [credit EXCEPT ![s] = credit[s] - 1]
      /\ UNCHANGED <<pc, isr, want, grant>>
  BY DEF TakeToken
<1>3. /\ k'.val = [k.val EXCEPT ![s] = k.val[s] - 1]
      /\ k'.stat = k.stat /\ k'.cur = k.cur /\ k'.waitq = k.waitq /\ k'.timers = k.timers
      /\ k'.err = k.err /\ k'.lock = k.lock
  BY <1>1, <1>2 DEF KState
<1>4. \A u \in Threads : Untouched(u)
  BY <1>2, <1>3 DEF Untouched, SameFor, SamePlace, Doing
<1>5. AllWait' /\ \A u \in Threads : Stage(u)' = Stage(u)
  BY <1>1, <1>4, UntouchedWaits DEF AllWait
<1>6. TokensConserved'
  <2>1. \A x \in Sems : k'.val[x] = IF x = s THEN k.val[x] - 1 ELSE k.val[x]
    BY <1>1, <1>3
  <2>2. \A x \in Sems : credit'[x] = IF x = s THEN credit[x] - 1 ELSE credit[x]
    BY <1>1, <1>2
  <2>3. \A x \in Sems : Cardinality(Holders(x)) \in Nat /\ Holders(x)' = Holders(x)
    BY <1>2, HoldersFinite, FS_CardinalityType DEF Holders
  <2>4. \A x \in Sems : k.val[x] \in Int /\ credit[x] = k.val[x] + Cardinality(Holders(x))
    BY <1>1, BalancedIsConserved, BoundAssumption DEF Balanced
  <2>5. Balanced'
    BY <2>1, <2>2, <2>3, <2>4 DEF Balanced
  <2> QED
    BY <2>5, BalancedIsConserved
<1>7. CountingSemaphores!TakeNow(s)
  BY <1>1, <1>2, <1>3, <1>5, PhasesStay DEF CountingSemaphores!TakeNow
<1>8. CountingSemaphores!Next
  BY <1>7 DEF CountingSemaphores!Next
<1>9. CpuInv'
  BY <1>1, <1>2, <1>3 DEF CpuInv
<1> QED
  BY <1>5, <1>6, <1>8, <1>9 DEF Kept

LEMMA TakeWaitKept ==
  ASSUME WaitInv, TypeOK', NEW t \in Threads, NEW s \in Sems, NEW timeout \in Timeouts,
         TakeWait(t, s, timeout)
  PROVE  Kept /\ CpuInv'
<1>1. /\ k \in KState /\ TypeOK /\ AllWait /\ TokensConserved /\ Settled(k)
      /\ want \in [Threads -> Sems \cup {None}] /\ pc \in [Threads -> Places]
      /\ None \notin Sems /\ Idlers \subseteq Threads /\ QueuesSound(k)
  BY WaitInvFacts DEF TypeOK, Settled
<1>2. /\ k' = SemWait(k, s, t, timeout) /\ k.val[s] = 0 /\ k.stat[t] = "running"
      /\ pc[t] = "run" /\ pc' = [pc EXCEPT ![t] = "take"] /\ want' = [want EXCEPT ![t] = s]
      /\ UNCHANGED <<grant, credit>> /\ k.cur = t /\ k.lock = 0 /\ t \notin Idlers
  BY DEF TakeWait, Blocker, Caller, At, Goto
<1>3. WaitsFor(k, k', s, t)
  BY <1>1, <1>2, SemWaitEffect
<1>4. /\ \A u \in Threads : u # t => k'.stat[u] = k.stat[u] /\ SameFor(k, k', u)
      /\ k'.stat[t] = "suspend" /\ k'.err[t] = "ok"
      /\ \A x \in Sems : Contains(k'.waitq[x], t) <=> Contains(k.waitq[x], t) \/ x = s
      /\ k'.val = k.val /\ k'.cur = k.cur /\ k'.lock = k.lock
  <2>1. k'.val = k.val /\ k'.cur = k.cur /\ k'.lock = k.lock
    BY <1>3 DEF WaitsFor
  <2> QED
    BY <1>1, <1>3, <2>1, WaitsForOthers
<1>5. /\ want'[t] = s /\ pc'[t] = "take"
      /\ \A u \in Threads : u # t => want'[u] = want[u] /\ pc'[u] = pc[u]
  BY <1>1, <1>2
<1>6. Doing(t) = "none" /\ Doing(t)' = "take"
  BY <1>2, <1>5, PlacesFacts DEF Doing
<1>7. \A x \in Sems : ~Contains(k.waitq[x], t)
  BY <1>1, <1>2 DEF QueuesSound
<1>8. Waits(t)'
  <2>1. grant[t] = None
    BY <1>1, <1>6 DEF AllWait, Waits
  <2> QED
    BY <1>2, <1>4, <1>5, <1>6, <1>7, <2>1 DEF Waits
<1>9. \A u \in Threads : u # t => Untouched(u)
  BY <1>2, <1>4, <1>5 DEF Untouched, Doing
<1>10. AllWait' /\ \A u \in Threads : u # t => Stage(u)' = Stage(u)
  BY <1>1, <1>8, <1>9, UntouchedWaits DEF AllWait
<1>11. Stage(t) = "out" /\ Stage(t)' = "waiting" /\ waiting(t) = Stage(t)
  BY <1>1, <1>4, <1>6, StageIsPhase DEF Stage, AllWait
<1>12. CountingSemaphores!Wait(t, s)
  BY <1>1, <1>2, <1>4, <1>10, <1>11, PhaseMoves DEF CountingSemaphores!Wait
<1>13. CountingSemaphores!Next
  BY <1>12 DEF CountingSemaphores!Next
<1>14. TokensConserved'
  BY <1>1, <1>2, <1>4 DEF TokensConserved
<1>15. CpuInv'
  BY <1>1, <1>2, <1>4, <1>5, PlacesFacts, CpuStays
<1> QED
  BY <1>10, <1>13, <1>14, <1>15 DEF Kept

\* A take returns RT_EOK just if it was given a token.
LEMMA TakeReturnKept ==
  ASSUME WaitInv, TypeOK', NEW t \in Threads, TakeReturn(t)
  PROVE  Kept /\ CpuInv'
<1> DEFINE s == want[t]
<1>1. /\ TypeOK /\ AllWait /\ TokensConserved /\ Waits(t)
      /\ want \in [Threads -> Sems \cup {None}] /\ pc \in [Threads -> Places]
      /\ grant \in [Threads -> Sems \cup {None}] /\ credit \in [Sems -> Int]
      /\ None \notin Sems /\ k \in KState
  BY WaitInvFacts DEF TypeOK, AllWait
<1>2. /\ pc[t] = "wait" /\ pc' = [pc EXCEPT ![t] = "run"] /\ want' = [want EXCEPT ![t] = None]
      /\ grant' = [grant EXCEPT ![t] = None] /\ k.cur = t /\ k' = k
      /\ credit' = IF k.err[t] = "ok" THEN [credit EXCEPT ![s] = credit[s] - 1] ELSE credit
  BY DEF TakeReturn, At, Goto
<1>3. k.stat[t] = "running"
  BY <1>2, PlacesFacts, CallerRuns
<1>4. /\ want'[t] = None /\ pc'[t] = "run" /\ grant'[t] = None
      /\ \A u \in Threads : u # t => want'[u] = want[u] /\ pc'[u] = pc[u] /\ grant'[u] = grant[u]
  BY <1>1, <1>2
<1>5. Doing(t) = "take" /\ Doing(t)' = "none"
  BY <1>2, <1>4, PlacesFacts DEF Doing
<1>6. s \in Sems /\ grant[t] = IF k.err[t] = "ok" THEN s ELSE None
  BY <1>1, <1>3, <1>5 DEF Waits
<1>7. Waits(t)'
  <2>1. \A x \in Sems : ~Contains(k.waitq[x], t)
    BY <1>1, <1>3 DEF Waits
  <2> QED
    BY <1>1, <1>2, <1>3, <1>4, <1>5, <2>1 DEF Waits
<1>8. \A u \in Threads : u # t => Untouched(u)
  BY <1>2, <1>4 DEF Untouched, SameFor, SamePlace, Doing
<1>9. AllWait' /\ \A u \in Threads : u # t => Stage(u)' = Stage(u)
  BY <1>1, <1>7, <1>8, UntouchedWaits DEF AllWait
<1>10. waiting(t) \in {"granted", "failed"} /\ Stage(t)' = "out"
  BY <1>1, <1>3, <1>5, StageIsPhase DEF Stage
<1>11. CountingSemaphores!Return(t)
  BY <1>1, <1>2, <1>9, <1>10, PhaseMoves DEF CountingSemaphores!Return
<1>12. CountingSemaphores!Next
  BY <1>11 DEF CountingSemaphores!Next
<1>13. TokensConserved'
  <2>1. CASE k.err[t] = "ok"
    <3> HIDE DEF s
    <3>1. \A x \in Sems : Cardinality(Holders(x)') =
            IF x = s THEN Cardinality(Holders(x)) - 1 ELSE Cardinality(Holders(x))
      BY <1>1, <1>2, <1>6, <2>1, HolderLost
    <3>2. \A x \in Sems : credit'[x] = IF x = s THEN credit[x] - 1 ELSE credit[x]
      BY <1>1, <1>2, <2>1
    <3>3. \A x \in Sems : k.val[x] \in Int /\ credit[x] = k.val[x] + Cardinality(Holders(x))
      BY <1>1, BalancedIsConserved, BoundAssumption DEF Balanced, KState
    <3>4. \A x \in Sems : Cardinality(Holders(x)) \in Nat
      BY HoldersFinite, FS_CardinalityType
    <3>5. Balanced'
      BY <1>2, <3>1, <3>2, <3>3, <3>4 DEF Balanced
    <3> QED
      BY <3>5, BalancedIsConserved
  <2>2. CASE k.err[t] # "ok"
    <3>1. grant' = grant /\ credit' = credit
      BY <1>1, <1>2, <1>6, <2>2
    <3> QED
      BY <1>1, <1>2, <3>1 DEF TokensConserved
  <2> QED
    BY <2>1, <2>2
<1>14. CpuInv'
  BY <1>2, <1>3, CpuStays
<1> QED
  BY <1>9, <1>12, <1>13, <1>14 DEF Kept

\* A release that finds a waiter gives it the token, in a service or in an interrupt.
LEMMA GrantKept ==
  ASSUME WaitInv, TypeOK', NEW s \in Sems, k.waitq[s] # <<>>, k.cur \in Threads,
         k' = SemGive(k, s) \/ k' = rt_schedule(SemGive(k, s)),
         Credited(s), UNCHANGED want, \A u \in Threads : Doing(u)' = Doing(u)
  PROVE  Kept
<1> DEFINE r == SemGive(k, s)
<1>1. /\ TypeOK /\ AllWait /\ TokensConserved /\ Settled(k) /\ k \in KState
      /\ grant \in [Threads -> Sems \cup {None}] /\ credit \in [Sems -> Int]
      /\ None \notin Sems
  BY WaitInvFacts DEF TypeOK
<1>2. PICK h \in Threads : /\ h = Head(k.waitq[s])
                         /\ Contains(k.waitq[s], h) /\ k.stat[h] = "suspend"
                         /\ r = rt_thread_resume(k, h)
  BY <1>1, FirstWaiter
<1>3. /\ credit' = [credit EXCEPT ![s] = credit[s] + 1] /\ grant' = [grant EXCEPT ![h] = s]
      /\ k' = r \/ k' = rt_schedule(r)
  BY <1>2 DEF Credited
<1> HIDE DEF r
<1>4. Settled(r) /\ Woken(k, r, h) /\ r.err = k.err
  BY <1>1, <1>2, ResumeEffect
<1>5. r.val = k.val /\ r.cur \in Threads
  BY <1>4 DEF Woken
<1>6. /\ \A u \in Threads : u # h => SamePlace(k, r, u)
      /\ r.stat[h] \in {"ready", "running"}
      /\ \A x \in Sems : ~Contains(r.waitq[x], h)
  BY <1>1, <1>2, <1>4, WokenOthers
<1>7. k'.val = k.val /\ \A u \in Threads : SameFor(r, k', u)
  <2>1. CASE k' = r
    BY <1>5, <2>1 DEF SameFor, SamePlace
  <2>2. CASE k' = rt_schedule(r)
    BY <1>4, <1>5, <2>2, ScheduleSame
  <2> QED
    BY <1>3, <2>1, <2>2
<1>8. \A u \in Threads : u # h => SameFor(k, k', u)
  BY <1>4, <1>6, <1>7 DEF SameFor, SamePlace
<1>9. /\ k'.stat[h] # "suspend" /\ k'.stat[h] # "close" /\ k'.err[h] = k.err[h]
      /\ \A x \in Sems : ~Contains(k'.waitq[x], h)
  BY <1>2, <1>4, <1>6, <1>7 DEF SameFor, SamePlace
<1>10. /\ want[h] = s /\ k.err[h] = "ok" /\ grant[h] = None /\ Doing(h) = "take"
  BY <1>1, <1>2 DEF AllWait, Waits
<1>11. grant'[h] = s /\ \A u \in Threads : u # h => grant'[u] = grant[u]
  BY <1>1, <1>2, <1>3
<1>12. Waits(h)'
  BY <1>2, <1>9, <1>10, <1>11 DEF Waits
<1>13. \A u \in Threads : u # h => Untouched(u)
  BY <1>8, <1>11 DEF Untouched
<1>14. AllWait' /\ \A u \in Threads : u # h => Stage(u)' = Stage(u)
  BY <1>1, <1>12, <1>13, UntouchedWaits DEF AllWait
<1>15. Stage(h) = "waiting" /\ Stage(h)' = "granted"
  BY <1>2, <1>9, <1>10 DEF Stage
<1>16. CountingSemaphores!Grant(h, s)
  <2>1. h \in CountingSemaphores!Waiters(s)
    BY <1>1, <1>2, WaitersAre
  <2> QED
    BY <1>1, <1>2, <1>7, <1>14, <1>15, <2>1, PhaseMoves DEF CountingSemaphores!Grant
<1>17. CountingSemaphores!Next
  BY <1>2, <1>16 DEF CountingSemaphores!Next
<1>18. TokensConserved'
  <2>1. \A x \in Sems : Cardinality(Holders(x)') =
          IF x = s THEN Cardinality(Holders(x)) + 1 ELSE Cardinality(Holders(x))
    BY <1>1, <1>2, <1>3, <1>10, HolderGained
  <2>2. \A x \in Sems : credit'[x] = IF x = s THEN credit[x] + 1 ELSE credit[x]
    BY <1>1, <1>3
  <2>3. \A x \in Sems : k.val[x] \in Int /\ credit[x] = k.val[x] + Cardinality(Holders(x))
    BY <1>1, BalancedIsConserved, BoundAssumption DEF Balanced, KState
  <2>4. \A x \in Sems : Cardinality(Holders(x)) \in Nat
    BY HoldersFinite, FS_CardinalityType
  <2>5. Balanced'
    BY <1>7, <2>1, <2>2, <2>3, <2>4 DEF Balanced
  <2> QED
    BY <2>5, BalancedIsConserved
<1> QED
  BY <1>14, <1>17, <1>18 DEF Kept

\* A release that finds none is counted, or refused at RT_SEM_VALUE_MAX.
LEMMA CountKept ==
  ASSUME WaitInv, TypeOK', NEW s \in Sems, k.waitq[s] = <<>>, k' = SemGive(k, s),
         Credited(s), UNCHANGED <<pc, want>>
  PROVE  Kept /\ CpuInv'
<1>1. /\ TypeOK /\ AllWait /\ TokensConserved /\ Settled(k) /\ k \in KState /\ CpuInv
      /\ k.val \in [Sems -> 0 .. SemMax] /\ credit \in [Sems -> Int]
  BY WaitInvFacts DEF TypeOK, KState
<1>2. /\ k'.val = IF k.val[s] < SemMax THEN [k.val EXCEPT ![s] = k.val[s] + 1] ELSE k.val
      /\ k'.stat = k.stat /\ k'.cur = k.cur /\ k'.err = k.err /\ k'.lock = k.lock
      /\ k'.timers = k.timers /\ k'.waitq = k.waitq
  BY <1>1, SemGiveCounts
<1>3. /\ credit' = IF k.val[s] < SemMax THEN [credit EXCEPT ![s] = credit[s] + 1] ELSE credit
      /\ grant' = grant
  BY DEF Credited
<1>4. \A u \in Threads : Untouched(u)
  BY <1>2, <1>3 DEF Untouched, SameFor, SamePlace, Doing
<1>5. AllWait' /\ \A u \in Threads : Stage(u)' = Stage(u)
  BY <1>1, <1>4, UntouchedWaits DEF AllWait
<1>6. TokensConserved'
  <2>1. \A x \in Sems : k'.val[x] = IF x = s /\ k.val[s] < SemMax THEN k.val[x] + 1 ELSE k.val[x]
    BY <1>1, <1>2
  <2>2. \A x \in Sems : credit'[x] = IF x = s /\ k.val[s] < SemMax THEN credit[x] + 1 ELSE credit[x]
    BY <1>1, <1>3
  <2>3. \A x \in Sems : Cardinality(Holders(x)) \in Nat /\ Holders(x)' = Holders(x)
    BY <1>3, HoldersFinite, FS_CardinalityType DEF Holders
  <2>4. \A x \in Sems : k.val[x] \in Int /\ credit[x] = k.val[x] + Cardinality(Holders(x))
    BY <1>1, BalancedIsConserved, BoundAssumption DEF Balanced
  <2>5. Balanced'
    BY <2>1, <2>2, <2>3, <2>4 DEF Balanced
  <2> QED
    BY <2>5, BalancedIsConserved
<1>7. [CountingSemaphores!Next]_CountingSemaphores!vars
  <2>1. CASE k.val[s] < SemMax
    <3>1. CountingSemaphores!Waiters(s) = {}
      BY <1>1, WaitersAre DEF Contains
    <3>2. CountingSemaphores!Count(s)
      BY <1>1, <1>2, <1>5, <2>1, <3>1, PhasesStay DEF CountingSemaphores!Count
    <3> QED
      BY <3>2 DEF CountingSemaphores!Next
  <2>2. CASE ~(k.val[s] < SemMax)
    BY <1>1, <1>2, <1>5, <2>2, PhasesStay DEF CountingSemaphores!vars
  <2> QED
    BY <2>1, <2>2
<1>8. CpuInv'
  BY <1>1, <1>2 DEF CpuInv
<1> QED
  BY <1>5, <1>6, <1>7, <1>8 DEF Kept

LEMMA ReleaseKept ==
  ASSUME WaitInv, TypeOK', NEW t \in Threads, NEW s \in Sems, Release(t, s)
  PROVE  Kept /\ CpuInv'
<1>1. /\ Settled(k) /\ k \in KState /\ pc \in [Threads -> Places] /\ Idlers \subseteq Threads
  BY WaitInvFacts
<1>2. /\ k.cur = t /\ pc[t] = "run" /\ k.stat[t] = "running" /\ k' = SemGive(k, s)
      /\ Credited(s) /\ UNCHANGED want
      /\ IF k.waitq[s] # <<>> THEN pc' = [pc EXCEPT ![t] = "sched"] ELSE UNCHANGED pc
  BY DEF Release, Caller, At, Goto
<1>3. CASE k.waitq[s] = <<>>
  BY <1>2, <1>3, CountKept
<1>4. CASE k.waitq[s] # <<>>
  <2>1. \A u \in Threads : Doing(u)' = Doing(u)
    <3>1. \A u \in Threads : pc'[u] = IF u = t THEN "sched" ELSE pc[u]
      BY <1>1, <1>2, <1>4
    <3> QED
      BY <1>2, <3>1, PlacesFacts DEF Doing
  <2>2. Kept
    BY <1>2, <1>4, <2>1, GrantKept
  <2> DEFINE h == Head(k.waitq[s])
  <2>3. h \in Threads /\ k.stat[h] = "suspend" /\ k' = rt_thread_resume(k, h)
    BY <1>1, <1>2, <1>4, FirstWaiter
  <2> HIDE DEF h
  <2>4. Woken(k, k', h)
    BY <1>1, <2>3, ResumeEffect
  <2>5. /\ \A u \in Threads : k'.stat[u] = k.stat[u] \/ k'.stat[u] \in {"ready", "running"}
        /\ k'.stat[t] = "running" /\ k'.cur = k.cur
    <3>1. k'.cur = k.cur
      BY <2>4 DEF Woken
    <3>2. /\ \A u \in Threads : u # h => k'.stat[u] = k.stat[u]
          /\ k'.stat[h] = IF h = k.cur THEN "running" ELSE "ready"
      BY <1>1, <2>3, <2>4, WokenOthers
    <3> QED
      BY <1>2, <2>3, <3>1, <3>2
  <2>6. CpuInv'
    BY <1>1, <1>2, <2>5, CpuStays
  <2> QED
    BY <2>2, <2>6
<1> QED
  BY <1>3, <1>4

LEMMA IsrReleaseKept ==
  ASSUME WaitInv, TypeOK', Idlers # {}, NEW s \in Sems, IsrRelease(s)
  PROVE  Kept /\ CpuInv'
<1>1. /\ Settled(k) /\ k \in KState /\ k.cur \in Threads
  BY WaitInvFacts DEF IsrRelease, Interrupted, KState
<1>2. /\ k' = IF k.waitq[s] # <<>> THEN rt_schedule(SemGive(k, s)) ELSE SemGive(k, s)
      /\ Credited(s) /\ UNCHANGED <<pc, isr, want>>
  BY DEF IsrRelease
<1>3. CASE k.waitq[s] = <<>>
  BY <1>2, <1>3, CountKept
<1>4. CASE k.waitq[s] # <<>>
  <2>1. Kept
    BY <1>1, <1>2, <1>4, GrantKept DEF Doing
  <2> DEFINE h == Head(k.waitq[s])
             r == SemGive(k, s)
  <2>2. h \in Threads /\ k.stat[h] = "suspend" /\ r = rt_thread_resume(k, h)
    BY <1>1, <1>4, FirstWaiter
  <2>3. k' = rt_schedule(r)
    BY <1>2, <1>4
  <2> HIDE DEF h, r
  <2>4. Woken(k, r, h) /\ Settled(r)
    BY <1>1, <2>2, ResumeEffect
  <2>5. r.cur = k.cur /\ r.lock = k.lock
    BY <2>4 DEF Woken
  <2>6. /\ \A u \in Threads : u # h => r.stat[u] = k.stat[u]
        /\ r.stat[h] = IF h = k.cur THEN "running" ELSE "ready"
    BY <1>1, <2>2, <2>4, WokenOthers
  <2>7. CpuInv'
    BY <1>1, <2>2, <2>3, <2>4, <2>5, <2>6, CpuAfterSchedule
  <2> QED
    BY <2>1, <2>7
<1> QED
  BY <1>3, <1>4

\* The timer of a thread in a timed take ends it with -RT_ETIMEOUT; any other thread
\* whose timer expires sleeps.
LEMMA TimerExpireKept ==
  ASSUME WaitInv, TypeOK', Idlers # {}, TimerExpire
  PROVE  Kept /\ CpuInv'
<1>1. /\ TypeOK /\ AllWait /\ TokensConserved /\ Settled(k) /\ k \in KState
      /\ k.cur \in Threads /\ k.timers # <<>> /\ None \notin Sems
      /\ k.err \in [Threads -> Errors]
  BY WaitInvFacts DEF IInv, TickHasCurrent, TimerExpire, Due
<1>2. /\ UNCHANGED ghosts /\ UNCHANGED pc
      /\ k' = _thread_timeout([k EXCEPT !.timers = Tail(k.timers)], Head(k.timers))
  BY DEF TimerExpire
<1> DEFINE r == Expired(k)
<1>3. PICK h \in Threads : /\ h = Head(k.timers)
                         /\ Contains(k.timers, h) /\ k.stat[h] = "suspend"
                         /\ Settled(r) /\ Woken(k, r, h)
                         /\ r.err = [k.err EXCEPT ![h] = "timeout"]
                         /\ k' = rt_schedule(r)
  BY <1>1, <1>2, ExpireEffect
<1> HIDE DEF r
<1>4. r.val = k.val /\ r.cur = k.cur /\ r.lock = k.lock
  BY <1>3 DEF Woken
<1>5. /\ \A u \in Threads : u # h => r.stat[u] = k.stat[u] /\ SamePlace(k, r, u)
      /\ r.stat[h] = IF h = k.cur THEN "running" ELSE "ready"
      /\ \A x \in Sems : ~Contains(r.waitq[x], h)
  BY <1>1, <1>3, WokenOthers
<1>6. k'.val = k.val /\ \A u \in Threads : SameFor(r, k', u)
  BY <1>1, <1>3, <1>4, ScheduleSame
<1>7. r.err[h] = "timeout" /\ \A u \in Threads : u # h => r.err[u] = k.err[u]
  BY <1>1, <1>3
<1>8. \A u \in Threads : u # h => SameFor(k, k', u)
  BY <1>5, <1>6, <1>7 DEF SameFor, SamePlace
<1>9. /\ k'.stat[h] # "suspend" /\ k'.stat[h] # "close" /\ k'.err[h] = "timeout"
      /\ \A x \in Sems : ~Contains(k'.waitq[x], h)
  BY <1>5, <1>6, <1>7 DEF SameFor, SamePlace
<1>10. grant[h] = None /\ (want[h] \in Sems <=> Doing(h) = "take")
  BY <1>1, <1>3 DEF AllWait, Waits
<1>11. Doing(h)' = Doing(h) /\ want'[h] = want[h] /\ grant'[h] = grant[h]
  BY <1>2 DEF Doing, ghosts
<1>12. Waits(h)'
  BY <1>9, <1>10, <1>11 DEF Waits
<1>13. \A u \in Threads : u # h => Untouched(u)
  BY <1>2, <1>8 DEF Untouched, Doing, ghosts
<1>14. AllWait' /\ \A u \in Threads : u # h => Stage(u)' = Stage(u)
  BY <1>1, <1>12, <1>13, UntouchedWaits DEF AllWait
<1>15. TokensConserved'
  BY <1>1, <1>2, <1>6 DEF TokensConserved, ghosts
<1>16. [CountingSemaphores!Next]_CountingSemaphores!vars
  <2>1. CASE Doing(h) = "take"
    <3>1. Stage(h) = "waiting" /\ Stage(h)' = "failed" /\ waiting(h) = Stage(h)
      BY <1>1, <1>3, <1>9, <1>11, <2>1, StageIsPhase DEF Stage, AllWait
    <3>2. CountingSemaphores!Fail(h)
      BY <1>1, <1>2, <1>6, <1>14, <3>1, PhaseMoves DEF CountingSemaphores!Fail, ghosts
    <3> QED
      BY <3>2 DEF CountingSemaphores!Next
  <2>2. CASE Doing(h) # "take"
    <3>1. Stage(h)' = Stage(h)
      BY <1>11, <2>2 DEF Stage
    <3> QED
      BY <1>1, <1>2, <1>6, <1>14, <3>1, PhasesStay DEF CountingSemaphores!vars, ghosts
  <2> QED
    BY <2>1, <2>2
<1>17. CpuInv'
  BY <1>1, <1>3, <1>4, <1>5, CpuAfterSchedule
<1> QED
  BY <1>14, <1>15, <1>16, <1>17 DEF Kept

LEMMA TickReturnKept ==
  ASSUME WaitInv, TypeOK', TickReturn
  PROVE  Kept /\ CpuInv'
<1>1. k' = k /\ UNCHANGED pc /\ UNCHANGED ghosts
  BY DEF TickReturn
<1>2. Quiet
  BY <1>1 DEF Quiet, Untouched, SameFor, SamePlace, Doing, ghosts
<1>3. CpuInv'
  BY <1>1 DEF WaitInv, CpuInv
<1> QED
  BY <1>2, <1>3, WaitInvFacts, QuietKept

-----------------------------------------------------------------------------
(* The threads that wait: the theorems.                                    *)

LEMMA InitWait == Init => WaitInv /\ CountingSemaphores!Init
<1> SUFFICES ASSUME Init
             PROVE  WaitInv /\ CountingSemaphores!Init
  OBVIOUS
<1>1. SchedInv /\ CpuInv
  BY InitSched, NoneAssumption DEF Init, KInit, CpuInv
<1>2. AllWait
  BY PlacesFacts, CallsAssumption DEF Init, KInit, AllWait, Waits, Doing, Contains
<1>3. TokensConserved
  <2> SUFFICES ASSUME NEW s \in Sems
               PROVE  credit[s] = k.val[s] + Cardinality({t \in Threads : grant[t] = s})
    BY DEF TokensConserved
  <2>1. {t \in Threads : grant[t] = s} = {}
    BY CallsAssumption DEF Init
  <2>2. credit[s] = 0 /\ k.val[s] = 0
    BY DEF Init, KInit
  <2> QED
    BY <2>1, <2>2, FS_EmptySet
<1>4. \A t \in Threads : waiting(t) = "out"
  BY DEF Init, waiting
<1>5. CountingSemaphores!Init
  BY <1>4 DEF Init, KInit, CountingSemaphores!Init
<1> QED
  BY <1>1, <1>2, <1>3, <1>5 DEF WaitInv

LEMMA NextWait ==
  ASSUME Idlers # {}, WaitInv, [Next]_vars
  PROVE  WaitInv' /\ [CountingSemaphores!Next]_CountingSemaphores!vars
<1>1. SchedInv' /\ TypeOK'
  BY NextSched DEF WaitInv, SchedInv, IInv
<1>2. CASE Boot
  BY <1>1, <1>2, BootKept DEF Kept, WaitInv
<1>3. CASE Interrupt
  BY <1>1, <1>3, TickKept, TimerExpireKept, TickReturnKept, IsrReleaseKept
  DEF Interrupt, Kept, WaitInv
<1>4. ASSUME NEW t \in Threads, ThreadStep(t)
      PROVE  WaitInv' /\ [CountingSemaphores!Next]_CountingSemaphores!vars
  <2>1. Kept /\ CpuInv'
    BY <1>1, <1>4, TakeTokenKept, TakeWaitKept, ReleaseKept, TakeReturnKept, BlockKept,
       SleepReturnKept, YieldKept, CriticalKept, CallScheduleKept, CreateTaskKept
    DEF ThreadStep, SemaphoreStep, ControlStep
  <2> QED
    BY <1>1, <2>1 DEF Kept, WaitInv
<1>5. CASE UNCHANGED vars
  <2>1. k' = k /\ UNCHANGED pc /\ UNCHANGED ghosts
    BY <1>5 DEF vars, ghosts
  <2>2. Quiet
    BY <2>1 DEF Quiet, Untouched, SameFor, SamePlace, Doing, ghosts
  <2>3. Kept
    BY <1>1, <2>2, WaitInvFacts, QuietKept
  <2> QED
    BY <1>1, <2>1, <2>3 DEF Kept, WaitInv, CpuInv
<1> QED
  BY <1>2, <1>3, <1>4, <1>5 DEF Next

\* The strengthened invariant, of a kernel with an idle thread (idle.c): why a thread is
\* blocked and which token it was given can be told from its state, its error and where
\* its code stands, and a thread that has blocked is always on its way to rt_schedule.
THEOREM WaitInvariance == Idlers # {} => (Spec => []WaitInv)
<1> SUFFICES ASSUME Idlers # {}
             PROVE  Spec => []WaitInv
  OBVIOUS
<1>1. Init => WaitInv
  BY InitWait
<1>2. WaitInv /\ [Next]_vars => WaitInv'
  BY NextWait
<1> QED
  BY <1>1, <1>2, PTL DEF Spec

\* With an idle thread that is always ready, rt_schedule never returns to a thread that
\* blocked: whatever interrupts come between the service and its rt_schedule.
THEOREM OnlyRunningThreadsRunCorrect == Idlers # {} => (Spec => []OnlyRunningThreadsRun)
<1> SUFFICES ASSUME Idlers # {}
             PROVE  Spec => []OnlyRunningThreadsRun
  OBVIOUS
<1>1. WaitInv => OnlyRunningThreadsRun
  BY WaitInvFacts DEF WaitInv, CpuInv, OnlyRunningThreadsRun, KState
<1> QED
  BY <1>1, WaitInvariance, PTL

\* A suspended thread is on the list of the semaphore it takes, or on the timer list if
\* it sleeps, and nobody else is on those lists.
THEOREM NoLostWaiterCorrect == Idlers # {} => (Spec => []NoLostWaiter)
<1> SUFFICES ASSUME Idlers # {}
             PROVE  Spec => []NoLostWaiter
  OBVIOUS
<1>1. WaitInv => NoLostWaiter
  <2> SUFFICES ASSUME WaitInv
               PROVE  NoLostWaiter
    OBVIOUS
  <2>1. AllWait /\ pc \in [Threads -> Places] /\ Parked(k)
    BY WaitInvFacts DEF Settled, Sound
  <2>2. \A t \in Threads : /\ Doing(t) = "take" => pc[t] \in {"take", "wait"}
                           /\ Doing(t) = "sleep" => pc[t] \in {"sleep", "nap"}
                           /\ Doing(t) = "park" => pc[t] \in {"park", "spin"}
    BY <2>1 DEF Doing, serving, Places, Windows, After
  <2> QED
    BY <2>1, <2>2 DEF AllWait, Waits, Parked, NoLostWaiter
<1> QED
  BY <1>1, WaitInvariance, PTL

\* No token of a semaphore is lost or made up, whatever timeouts race with releases.
THEOREM TokensConservedCorrect == Idlers # {} => (Spec => []TokensConserved)
<1> SUFFICES ASSUME Idlers # {}
             PROVE  Spec => []TokensConserved
  OBVIOUS
<1>1. WaitInv => TokensConserved
  BY DEF WaitInv
<1> QED
  BY <1>1, WaitInvariance, PTL

\* rt_sem_take and rt_sem_release implement counting semaphores: every step of the
\* kernel is a step of the abstract semaphores or none at all.
THEOREM SemaphoresImplementedCorrect == Idlers # {} => (Spec => SemaphoresImplemented)
<1> SUFFICES ASSUME Idlers # {}
             PROVE  Spec => SemaphoresImplemented
  OBVIOUS
<1>1. Init => CountingSemaphores!Init
  BY InitWait
<1>2. WaitInv /\ [Next]_vars => [CountingSemaphores!Next]_CountingSemaphores!vars
  BY NextWait
<1> QED
  BY <1>1, <1>2, WaitInvariance, PTL DEF Spec, SemaphoresImplemented, CountingSemaphores!Spec
=============================================================================
