----------------------------- MODULE IpcProofs ------------------------------
(***************************************************************************)
(* Proofs about MCIpc, for every set of threads with any priorities: the   *)
(* three promises of a mutex, that a semaphore which may be reset or       *)
(* destroyed implements the abstract one, and that an event implements the *)
(* abstract event flags, for any set of flags.  What the proofs share is   *)
(* how a step of an object changes the record of the threads' waits.  A    *)
(* destruction is followed turn by turn; if it takes the object itself for *)
(* a thread (CloseTakesWaiters is violated) the behaviour ends there, and  *)
(* the theorems speak of what came before.                                 *)
(***************************************************************************)
EXTENDS MCIpc, ListProofs

-----------------------------------------------------------------------------
(* The record of the waits, of an object with one wait list.               *)

Errors == {"ok", "timeout", "error"}

ThreadRecords ==
  [stat : [Threads -> {"ready", "suspend"}], err : [Threads -> Errors],
   prio : [Threads -> 0 .. PrioMax - 1], armed : SUBSET Threads,
   wait : [Queues -> Seq(Threads)]]

Waiting(r) == r.wait["receivers"]

\* Who is on the wait list, once; who is not has no timer; who is has met no error.
Calm(r) ==
  /\ r \in ThreadRecords
  /\ r.wait["senders"] = <<>>
  /\ IsInjective(Waiting(r))
  /\ \A t \in Threads : r.stat[t] = "suspend" <=> Contains(Waiting(r), t)
  /\ \A t \in Threads : r.stat[t] = "suspend" => r.err[t] = "ok"
  /\ \A t \in r.armed : r.stat[t] = "suspend"

\* s is r once t has been woken, with the error e.
Wakes(r, s, t, e) ==
  /\ s \in ThreadRecords
  /\ s.stat = [r.stat EXCEPT ![t] = "ready"]
  /\ s.err = [r.err EXCEPT ![t] = e]
  /\ s.prio = r.prio
  /\ s.armed = r.armed \ {t}
  /\ Waiting(s) = Unlink(Waiting(r), t)
  /\ s.wait["senders"] = Unlink(r.wait["senders"], t)

\* s is r once t waits.
Blocks(r, s, t) ==
  /\ s \in ThreadRecords
  /\ s.stat = [r.stat EXCEPT ![t] = "suspend"]
  /\ s.err = [r.err EXCEPT ![t] = "ok"]
  /\ s.prio = r.prio
  /\ s.armed \in {r.armed, r.armed \cup {t}}
  /\ \/ Waiting(s) = InsertSorted(Waiting(r), t, r.prio)
     \/ Waiting(s) = Append(Waiting(r), t)
  /\ s.wait["senders"] = r.wait["senders"]

\* s is r but for the error of t.
Answers(r, s, t, e) ==
  /\ s \in ThreadRecords
  /\ s.stat = r.stat /\ s.err = [r.err EXCEPT ![t] = e] /\ s.prio = r.prio
  /\ s.armed = r.armed /\ s.wait = r.wait

\* s is r but for the priority of t.
Lends(r, s, t, p) ==
  /\ s \in ThreadRecords
  /\ s.stat = r.stat /\ s.err = r.err /\ s.prio = [r.prio EXCEPT ![t] = p]
  /\ s.armed = r.armed /\ s.wait = r.wait

\* s is r once everybody who waited has been woken with an error.
WakesAll(r, s) ==
  /\ s \in ThreadRecords
  /\ s.stat = [t \in Threads |-> IF Contains(Waiting(r), t) THEN "ready" ELSE r.stat[t]]
  /\ s.err = [t \in Threads |-> IF Contains(Waiting(r), t) THEN "error" ELSE r.err[t]]
  /\ s.prio = r.prio
  /\ s.armed = r.armed \ {t \in Threads : Contains(Waiting(r), t)}
  /\ Waiting(s) = <<>>
  /\ s.wait["senders"] = r.wait["senders"]

\* RT_THREAD_CTRL_CHANGE_PRIORITY, as in Mutex.
ChangePriority(r, t, prio) == [r EXCEPT !.prio[t] = prio]

LEMMA RangeContains ==
  ASSUME NEW q, NEW t
  PROVE  t \in Range(q) <=> \E i \in DOMAIN q : q[i] = t
BY DEF Range

LEMMA ResumeWakes ==
  ASSUME NEW r \in ThreadRecords, NEW t \in Threads
  PROVE  Wakes(r, rt_thread_resume(r, t), t, r.err[t])
<1>1. \A q \in Queues : Unlink(r.wait[q], t) \in Seq(Threads)
  BY UnlinkElements DEF ThreadRecords
<1>2. "receivers" \in Queues /\ "senders" \in Queues
  BY DEF Queues
<1> QED
  BY <1>1, <1>2 DEF ThreadRecords, Wakes, rt_thread_resume, Waiting

LEMMA FailFirstWakes ==
  ASSUME NEW r \in ThreadRecords, NEW t \in Threads
  PROVE  Wakes(r, FailFirst(r, t), t, "error")
<1> DEFINE u == [r EXCEPT !.err[t] = "error"]
<1>1. /\ u \in ThreadRecords /\ u.stat = r.stat /\ u.err = [r.err EXCEPT ![t] = "error"]
      /\ u.prio = r.prio /\ u.armed = r.armed /\ u.wait = r.wait
  BY DEF ThreadRecords, Errors
<1>2. FailFirst(r, t) = rt_thread_resume(u, t)
  BY DEF FailFirst
<1> HIDE DEF u
<1>3. Wakes(u, rt_thread_resume(u, t), t, u.err[t])
  BY <1>1, ResumeWakes
<1>4. [u.err EXCEPT ![t] = u.err[t]] = u.err
  BY <1>1 DEF ThreadRecords
<1> QED
  BY <1>1, <1>2, <1>3, <1>4 DEF Wakes, Waiting

LEMMA TimeoutWakes ==
  ASSUME NEW r \in ThreadRecords, NEW t \in Threads
  PROVE  Wakes(r, [rt_thread_resume(r, t) EXCEPT !.err[t] = "timeout"], t, "timeout")
<1> DEFINE u == rt_thread_resume(r, t)
           s == [u EXCEPT !.err[t] = "timeout"]
<1>1. Wakes(r, u, t, r.err[t])
  BY ResumeWakes
<1> HIDE DEF u
<1>2. /\ s \in ThreadRecords /\ s.stat = u.stat /\ s.err = [u.err EXCEPT ![t] = "timeout"]
      /\ s.prio = u.prio /\ s.armed = u.armed /\ s.wait = u.wait
  BY <1>1 DEF ThreadRecords, Errors, Wakes
<1> HIDE DEF s
<1>3. [[r.err EXCEPT ![t] = r.err[t]] EXCEPT ![t] = "timeout"] = [r.err EXCEPT ![t] = "timeout"]
  BY DEF ThreadRecords
<1>4. Wakes(r, s, t, "timeout")
  BY <1>1, <1>2, <1>3 DEF Wakes, Waiting
<1> QED
  BY <1>4 DEF s, u

\* The record r once t is on the list w, and once its timer runs as well.
Listed(r, t, w) == [r EXCEPT !.stat[t] = "suspend", !.wait["receivers"] = w]
Timed(r, t) == [r EXCEPT !.armed = @ \cup {t}]

\* What _ipc_list_suspend and the timer of a wait make of the record.
LEMMA SuspendBlocks ==
  ASSUME NEW r \in ThreadRecords, NEW t \in Threads, r.err[t] = "ok",
         NEW w, w = InsertSorted(Waiting(r), t, r.prio) \/ w = Append(Waiting(r), t),
         NEW s, s = Listed(r, t, w) \/ s = Timed(Listed(r, t, w), t)
  PROVE  Blocks(r, s, t) /\ Waiting(s) = w
<1> DEFINE v == Listed(r, t, w)
<1>1. Waiting(r) \in Seq(Threads)
  BY DEF ThreadRecords, Waiting, Queues
<1>2. w \in Seq(Threads)
  BY <1>1, InsertSortedElements
<1>3. /\ v \in ThreadRecords /\ v.stat = [r.stat EXCEPT ![t] = "suspend"] /\ v.err = r.err
      /\ v.prio = r.prio /\ v.armed = r.armed /\ Waiting(v) = w
      /\ v.wait["senders"] = r.wait["senders"]
  BY <1>2 DEF ThreadRecords, Queues, Waiting, Listed
<1> HIDE DEF v
<1>4. v.armed \cup {t} \in SUBSET Threads
  BY <1>3 DEF ThreadRecords
<1>5. s = v \/ s = Timed(v, t)
  BY DEF v
<1>6. /\ s \in ThreadRecords /\ s.stat = v.stat /\ s.err = v.err /\ s.prio = v.prio
      /\ s.armed \in {v.armed, v.armed \cup {t}} /\ s.wait = v.wait
  <2>1. CASE s = v
    BY <1>3, <2>1
  <2>2. CASE s = Timed(v, t)
    BY <1>3, <1>4, <2>2 DEF ThreadRecords, Timed
  <2> QED
    BY <1>5, <2>1, <2>2
<1>7. [r.err EXCEPT ![t] = "ok"] = r.err
  BY DEF ThreadRecords
<1> QED
  BY <1>3, <1>6, <1>7 DEF Blocks, Waiting

LEMMA ResumeAllWakes ==
  ASSUME NEW r \in ThreadRecords
  PROVE  WakesAll(r, _ipc_list_resume_all(r, "receivers"))
<1> DEFINE all == Range(r.wait["receivers"])
<1>1. Waiting(r) \in Seq(Threads)
  BY DEF ThreadRecords, Waiting, Queues
<1>2. \A t : t \in all <=> Contains(Waiting(r), t)
  BY <1>1, RangeContains DEF Contains, Waiting
<1>3. r.armed \ all = r.armed \ {t \in Threads : Contains(Waiting(r), t)}
  BY <1>2 DEF ThreadRecords
<1> DEFINE stat == [t \in Threads |-> IF t \in all THEN "ready" ELSE r.stat[t]]
           err == [t \in Threads |-> IF t \in all THEN "error" ELSE r.err[t]]
           s == [r EXCEPT !.stat = stat, !.err = err, !.wait["receivers"] = <<>>,
                          !.armed = r.armed \ all]
<1>4. _ipc_list_resume_all(r, "receivers") = s
  BY DEF _ipc_list_resume_all, ThreadRecords
<1>5. /\ stat \in [Threads -> {"ready", "suspend"}] /\ err \in [Threads -> Errors]
      /\ stat = [t \in Threads |-> IF Contains(Waiting(r), t) THEN "ready" ELSE r.stat[t]]
      /\ err = [t \in Threads |-> IF Contains(Waiting(r), t) THEN "error" ELSE r.err[t]]
  BY <1>2 DEF ThreadRecords, Errors
<1> HIDE DEF all, stat, err
<1>6. /\ s \in ThreadRecords /\ s.stat = stat /\ s.err = err /\ s.prio = r.prio
      /\ s.armed = r.armed \ all /\ Waiting(s) = <<>> /\ s.wait["senders"] = r.wait["senders"]
  <2>1. /\ [r.wait EXCEPT !["receivers"] = <<>>] \in [Queues -> Seq(Threads)]
        /\ [r.wait EXCEPT !["receivers"] = <<>>]["receivers"] = <<>>
        /\ [r.wait EXCEPT !["receivers"] = <<>>]["senders"] = r.wait["senders"]
        /\ r.armed \ all \in SUBSET Threads
    BY DEF ThreadRecords, Queues
  <2> QED
    BY <1>5, <2>1 DEF ThreadRecords, Waiting
<1> HIDE DEF s
<1> QED
  BY <1>3, <1>4, <1>5, <1>6 DEF WakesAll

-----------------------------------------------------------------------------
(* What these changes keep.                                                *)

Sorted(r) == InOrder(Waiting(r), r.prio)

\* The waits stay sound when a thread is woken, and nobody overtakes another.
LEMMA WakesCalm ==
  ASSUME NEW r, Calm(r), NEW t \in Threads, NEW e \in Errors, NEW s, Wakes(r, s, t, e)
  PROVE  Calm(s) /\ (Sorted(r) => Sorted(s))
<1>1. Waiting(r) \in Seq(Threads) /\ r.wait["senders"] = <<>>
  BY DEF Calm, ThreadRecords, Waiting, Queues
<1>2. /\ IsInjective(Waiting(s))
      /\ \A u : Contains(Waiting(s), u) <=> Contains(Waiting(r), u) /\ u # t
  BY <1>1, UnlinkElements DEF Wakes, Calm
<1>3. s.wait["senders"] = <<>>
  BY <1>1 DEF Wakes, Unlink, Contains
<1>4. \A u \in Threads : /\ s.stat[u] = IF u = t THEN "ready" ELSE r.stat[u]
                         /\ s.err[u] = IF u = t THEN e ELSE r.err[u]
  BY DEF Wakes, Calm, ThreadRecords
<1>5. Calm(s)
  <2>1. \A u \in Threads : s.stat[u] = "suspend" <=> Contains(Waiting(s), u)
    BY <1>2, <1>4 DEF Calm
  <2>2. \A u \in Threads : s.stat[u] = "suspend" => s.err[u] = "ok"
    BY <1>4 DEF Calm
  <2>3. \A u \in s.armed : s.stat[u] = "suspend"
    BY <1>4 DEF Calm, Wakes, ThreadRecords
  <2> QED
    BY <1>2, <1>3, <2>1, <2>2, <2>3 DEF Calm, Wakes
<1>6. Sorted(r) => Sorted(s)
  BY <1>1, UnlinkInOrder DEF Sorted, Wakes
<1> QED
  BY <1>5, <1>6

\* ... when a thread that did not wait does, behind those that are as urgent if the
\* list is sorted, ...
LEMMA BlocksCalm ==
  ASSUME NEW r, Calm(r), NEW t \in Threads, r.stat[t] = "ready", NEW s, Blocks(r, s, t)
  PROVE  /\ Calm(s)
         /\ Sorted(r) /\ Waiting(s) = InsertSorted(Waiting(r), t, r.prio) => Sorted(s)
         /\ \A u : Contains(Waiting(s), u) <=> Contains(Waiting(r), u) \/ u = t
<1>1. Waiting(r) \in Seq(Threads) /\ r.prio \in [Threads -> Int]
  BY IpcAssumption DEF Calm, ThreadRecords, Waiting, Queues
<1>2. ~Contains(Waiting(r), t)
  BY DEF Calm
<1>3. /\ IsInjective(Waiting(s))
      /\ \A u : Contains(Waiting(s), u) <=> Contains(Waiting(r), u) \/ u = t
  <2>1. CASE Waiting(s) = InsertSorted(Waiting(r), t, r.prio)
    BY <1>1, <1>2, <2>1, InsertSortedElements DEF Calm
  <2>2. CASE Waiting(s) = Append(Waiting(r), t)
    BY <1>1, <1>2, <2>2, AddElements DEF Calm
  <2> QED
    BY <2>1, <2>2 DEF Blocks
<1>4. \A u \in Threads : /\ s.stat[u] = IF u = t THEN "suspend" ELSE r.stat[u]
                         /\ s.err[u] = IF u = t THEN "ok" ELSE r.err[u]
  BY DEF Blocks, Calm, ThreadRecords
<1>5. Calm(s)
  <2>1. \A u \in Threads : s.stat[u] = "suspend" <=> Contains(Waiting(s), u)
    BY <1>3, <1>4 DEF Calm
  <2>2. \A u \in Threads : s.stat[u] = "suspend" => s.err[u] = "ok"
    BY <1>4 DEF Calm
  <2>3. \A u \in s.armed : s.stat[u] = "suspend"
    BY <1>4 DEF Calm, Blocks, ThreadRecords
  <2> QED
    BY <1>3, <2>1, <2>2, <2>3 DEF Calm, Blocks
<1>6. Sorted(r) /\ Waiting(s) = InsertSorted(Waiting(r), t, r.prio) => Sorted(s)
  BY <1>1, InsertSortedInOrder DEF Sorted, Blocks
<1> QED
  BY <1>3, <1>5, <1>6

\* ... when a call that does not wait answers, ...
LEMMA AnswersCalm ==
  ASSUME NEW r, Calm(r), NEW t \in Threads, r.stat[t] = "ready", NEW e, NEW s,
         Answers(r, s, t, e)
  PROVE  Calm(s) /\ (Sorted(r) => Sorted(s))
<1>1. \A u \in Threads : u # t => s.err[u] = r.err[u]
  BY DEF Answers, Calm, ThreadRecords
<1>2. Waiting(s) = Waiting(r)
  BY DEF Answers, Waiting
<1> QED
  BY <1>1, <1>2 DEF Answers, Calm, Sorted

\* ... when the priority of a thread changes that does not wait, ...
LEMMA LendsCalm ==
  ASSUME NEW r, Calm(r), NEW t \in Threads, r.stat[t] = "ready", NEW p, NEW s,
         Lends(r, s, t, p)
  PROVE  Calm(s) /\ (Sorted(r) => Sorted(s))
<1>1. Waiting(s) = Waiting(r) /\ Waiting(r) \in Seq(Threads)
  BY DEF Lends, Calm, Waiting, ThreadRecords, Queues
<1>2. Calm(s)
  BY <1>1 DEF Calm, Lends
<1>3. \A i \in DOMAIN Waiting(r) : Waiting(r)[i] \in Threads /\ Waiting(r)[i] # t
  BY <1>1 DEF Calm, Contains
<1>4. \A i \in DOMAIN Waiting(r) : s.prio[Waiting(r)[i]] = r.prio[Waiting(r)[i]]
  BY <1>3 DEF Lends, Calm, ThreadRecords
<1> QED
  BY <1>1, <1>2, <1>4 DEF Sorted, InOrder

\* ... and when nobody waits any more.
LEMMA WakesAllCalm ==
  ASSUME NEW r, Calm(r), NEW s, WakesAll(r, s)
  PROVE  Calm(s) /\ Sorted(s)
<1>1. \A u \in Threads : s.stat[u] = "ready"
  BY DEF WakesAll, Calm, ThreadRecords
<1>2. ~Contains(Waiting(s), 0) /\ IsInjective(Waiting(s)) /\ \A u : ~Contains(Waiting(s), u)
  BY DEF WakesAll, Contains, IsInjective
<1>3. s.armed = {}
  BY DEF WakesAll, Calm, ThreadRecords
<1> QED
  BY <1>1, <1>2, <1>3 DEF Calm, WakesAll, Sorted, InOrder

-----------------------------------------------------------------------------
(* Mutexes.                                                                *)

\* The types, and the waits.
LockWaits ==
  /\ Calm(th) /\ Sorted(th)
  /\ pc \in [Threads -> {"run", "wait"}]
  /\ obj \in [value : {0, 1}, owner : Threads \cup {None}, orig : 0 .. PrioMax,
              hold : 0 .. HoldMax]
  /\ ghost \in [Threads -> [taken : 0 .. HoldMax, orphan : BOOLEAN]]
  /\ \A t \in Threads : th.stat[t] = "suspend" => pc[t] = "wait"

\* The fields of the mutex agree, and its owner does not wait.
Held ==
  /\ obj.owner = None => obj.hold = 0 /\ obj.value = 1
  /\ obj.owner # None => /\ obj.hold >= 1 /\ obj.orig < PrioMax /\ obj.value = 0
                         /\ th.stat[obj.owner] = "ready"
                         /\ ~ghost[obj.owner].orphan => obj.orig = Priority[obj.owner]

\* What each thread knows, or will know when it returns from its wait.
Told ==
  Live => \A t \in Threads :
    /\ ghost[t].taken = IF obj.owner = t /\ pc[t] = "run" THEN obj.hold ELSE 0
    /\ pc[t] = "wait" /\ th.stat[t] = "ready" => ((obj.owner = t) <=> (th.err[t] = "ok"))
    /\ pc[t] = "wait" /\ obj.owner = t => obj.hold = 1

\* The owner is as urgent as those that wait.
Urgent ==
  Live => \A w \in Threads :
    th.stat[w] = "suspend" => obj.owner # None /\ th.prio[obj.owner] <= th.prio[w]

\* A mutex that is destroyed is nobody's.
Lost ==
  ~Live => /\ \A t \in Threads : ghost[t].taken = 0
           /\ obj.owner # None => ghost[obj.owner].orphan

LockInv == LockWaits /\ Held /\ Told /\ Urgent /\ Lost /\ Lock!PriorityRestored

LEMMA LockSame ==
  /\ \A r, t : Lock!rt_thread_resume(r, t) = rt_thread_resume(r, t)
  /\ \A r, t : Lock!FailFirst(r, t) = FailFirst(r, t)
  /\ \A q, t, key : Lock!InsertSorted(q, t, key) = InsertSorted(q, t, key)
  /\ \A q : Lock!IsInjective(q) = IsInjective(q)
  /\ \A q, t : Lock!Contains(q, t) = Contains(q, t)
  /\ \A q : Lock!Range(q) = Range(q)
<1>1. \A q, t : Lock!Unlink(q, t) = Unlink(q, t)
  BY DEF Lock!Unlink, Unlink, Lock!Contains, Contains, Lock!RemoveAt, RemoveAt
<1>2. \A r, t : Lock!rt_thread_resume(r, t) = rt_thread_resume(r, t)
  BY <1>1 DEF Lock!rt_thread_resume, rt_thread_resume, Lock!Queues, Queues
<1>3. \A r, t : Lock!FailFirst(r, t) = FailFirst(r, t)
  BY <1>2 DEF Lock!FailFirst, FailFirst
<1>4. \A q, t, key : Lock!InsertSorted(q, t, key) = InsertSorted(q, t, key)
  BY DEF Lock!InsertSorted, Lock!FirstLater, Lock!InsertAt, InsertSorted, FirstLater, InsertAt
<1>5. /\ \A q : Lock!IsInjective(q) = IsInjective(q)
      /\ \A q, t : Lock!Contains(q, t) = Contains(q, t)
      /\ \A q : Lock!Range(q) = Range(q)
  BY DEF Lock!IsInjective, IsInjective, Lock!Contains, Contains, Lock!Range, Range
<1> QED
  BY <1>2, <1>3, <1>4, <1>5

LEMMA LockInit ==
  ASSUME Lock!Init
  PROVE  LockInv
<1>1. \A q \in Queues : th.wait[q] = <<>>
  BY DEF Lock!Init, Lock!IpcInit, Queues, Lock!Queues
<1>2. /\ th.stat = [t \in Threads |-> "ready"] /\ th.err = [t \in Threads |-> "ok"]
      /\ th.prio = Priority /\ th.armed = {} /\ th.wait = [q \in Queues |-> <<>>]
      /\ th \in ThreadRecords
      /\ pc = [t \in Threads |-> "run"] /\ life = "none"
      /\ obj = [value |-> 1, owner |-> None, orig |-> PrioMax, hold |-> 0]
      /\ ghost = [t \in Threads |-> [taken |-> 0, orphan |-> FALSE]]
  BY IpcAssumption DEF Lock!Init, Lock!IpcInit, Queues, Lock!Queues, Lock!Fresh, Lock!NoPrio,
     ThreadRecords, Errors
<1>3. Calm(th) /\ Sorted(th)
  <2>1. Waiting(th) = <<>>
    BY <1>1 DEF Waiting, Queues
  <2>2. \A t : ~Contains(<<>>, t)
    BY DEF Contains
  <2> QED
    BY <1>1, <1>2, <2>1, <2>2 DEF Calm, Sorted, InOrder, IsInjective, Queues
<1>4. LockWaits
  BY <1>2, <1>3, IpcAssumption, ObjectsAssumption DEF LockWaits
<1>5. Held /\ Told /\ Urgent /\ Lost /\ Lock!PriorityRestored
  BY <1>2, IpcAssumption DEF Held, Told, Urgent, Lost, Lock!PriorityRestored, Live
<1> QED
  BY <1>4, <1>5 DEF LockInv

\* A call that answers at once.
LEMMA LockAnswers ==
  ASSUME LockInv, NEW t \in Threads, pc[t] = "run", th.stat[t] = "ready", NEW e \in Errors,
         Answers(th, th', t, e), UNCHANGED <<pc, life, obj, ghost>>
  PROVE  LockInv'
<1>1. /\ Calm(th') /\ Sorted(th')
  BY AnswersCalm DEF LockInv, LockWaits
<1>2. /\ th'.stat = th.stat /\ th'.prio = th.prio
      /\ \A u \in Threads : u # t => th'.err[u] = th.err[u]
  BY DEF Answers, LockInv, LockWaits, Calm, ThreadRecords
<1>3. LockWaits'
  BY <1>1, <1>2 DEF LockInv, LockWaits
<1>4. Held'
  BY <1>2 DEF LockInv, Held
<1>5. Told'
  BY <1>2 DEF LockInv, Told, Live
<1>6. Urgent' /\ Lost' /\ Lock!PriorityRestored'
  BY <1>2 DEF LockInv, Urgent, Lost, Lock!PriorityRestored, Live
<1> QED
  BY <1>3, <1>4, <1>5, <1>6 DEF LockInv


\* A wait that ends without the mutex.
LEMMA LockWakes ==
  ASSUME LockInv, NEW t \in Threads, th.stat[t] = "suspend", NEW e \in Errors \ {"ok"},
         Wakes(th, th', t, e), UNCHANGED <<pc, life, obj, ghost>>
  PROVE  LockInv'
<1>1. /\ Calm(th') /\ Sorted(th')
  BY WakesCalm DEF LockInv, LockWaits
<1>2. /\ th'.prio = th.prio
      /\ \A u \in Threads : /\ th'.stat[u] = IF u = t THEN "ready" ELSE th.stat[u]
                            /\ th'.err[u] = IF u = t THEN e ELSE th.err[u]
  BY DEF Wakes, LockInv, LockWaits, Calm, ThreadRecords
<1>3. LockWaits'
  BY <1>1, <1>2 DEF LockInv, LockWaits
<1>4. Held'
  BY <1>2 DEF LockInv, LockWaits, Held
<1>5. obj.owner # t
  BY IpcAssumption DEF LockInv, Held
<1>6. Told'
  BY <1>2, <1>5 DEF LockInv, Told, Live, Errors
<1>7. Urgent' /\ Lost' /\ Lock!PriorityRestored'
  BY <1>2 DEF LockInv, Urgent, Lost, Lock!PriorityRestored, Live
<1> QED
  BY <1>3, <1>4, <1>6, <1>7 DEF LockInv

\* The life of a mutex.
LEMMA LockSetUp ==
  ASSUME LockInv, Lock!rt_mutex_init \/ Lock!rt_mutex_create
  PROVE  LockInv'
<1>1. /\ life = "none" /\ \A t \in Threads : pc[t] = "run"
      /\ life' \in {"static", "heap"} /\ UNCHANGED <<th, pc, ghost>>
      /\ obj' = [value |-> 1, owner |-> None, orig |-> PrioMax, hold |-> 0]
  BY DEF Lock!rt_mutex_init, Lock!rt_mutex_create, Lock!SetUp, Lock!Fresh, Lock!NoPrio
<1>2. obj'.owner = None /\ obj'.hold = 0 /\ obj'.value = 1
      /\ obj' \in [value : {0, 1}, owner : Threads \cup {None}, orig : 0 .. PrioMax,
                   hold : 0 .. HoldMax]
  BY <1>1, IpcAssumption, ObjectsAssumption
<1>3. LockWaits'
  BY <1>1, <1>2 DEF LockInv, LockWaits
<1>4. Held'
  BY <1>2 DEF Held
<1>5. ~Live /\ Live'
  BY <1>1 DEF Live
<1>6. Told'
  BY <1>1, <1>2, <1>5, IpcAssumption DEF LockInv, Lost, Told
<1>7. Urgent' /\ Lost'
  BY <1>1, <1>5 DEF LockInv, LockWaits, Urgent, Lost
<1>8. Lock!PriorityRestored'
  BY <1>1, <1>2, <1>5 DEF LockInv, LockWaits, Lost, Lock!PriorityRestored
<1> QED
  BY <1>3, <1>4, <1>6, <1>7, <1>8 DEF LockInv

LEMMA LockBeginClose ==
  ASSUME LockInv, Lock!rt_mutex_detach \/ Lock!rt_mutex_delete
  PROVE  LockInv'
<1>1. life' = "close" /\ UNCHANGED <<th, pc, obj>>
      /\ ghost' = [t \in Threads |-> [taken |-> 0, orphan |-> ghost[t].orphan \/ obj.owner = t]]
  BY DEF Lock!rt_mutex_detach, Lock!rt_mutex_delete, Lock!BeginClose, Lock!Orphaned
<1>2. \A t \in Threads : /\ ghost'[t].taken = 0
                         /\ ghost'[t].orphan = (ghost[t].orphan \/ obj.owner = t)
  BY <1>1
<1>3. ghost' \in [Threads -> [taken : 0 .. HoldMax, orphan : BOOLEAN]]
  BY <1>1, ObjectsAssumption DEF LockInv, LockWaits
<1>4. ~Live'
  BY <1>1 DEF Live
<1>5. LockWaits'
  BY <1>1, <1>3 DEF LockInv, LockWaits
<1>6. Held'
  BY <1>1, <1>2 DEF LockInv, LockWaits, Held
<1>7. Told' /\ Urgent'
  BY <1>4 DEF Told, Urgent
<1>8. Lost'
  BY <1>1, <1>2 DEF LockInv, LockWaits, Lost
<1>9. Lock!PriorityRestored'
  BY <1>1, <1>2 DEF LockInv, Lock!PriorityRestored
<1> QED
  BY <1>5, <1>6, <1>7, <1>8, <1>9 DEF LockInv

LEMMA LockCloses ==
  ASSUME LockInv, Lock!CloseStep \/ Lock!CloseEnd, UNCHANGED <<obj, ghost>>
  PROVE  LockInv'
<1>1. Waiting(th) \in Seq(Threads) /\ th.wait["senders"] = <<>> /\ th \in ThreadRecords
  BY DEF LockInv, LockWaits, Calm, ThreadRecords, Waiting, Queues
<1>2. /\ ~Live /\ ~Live' /\ UNCHANGED pc
      /\ \/ UNCHANGED th
         \/ Waiting(th) # <<>> /\ th' = FailFirst(th, Head(Waiting(th)))
  BY <1>1, LockSame DEF Lock!CloseStep, Lock!CloseTest, Lock!CloseTurn, Lock!CloseEnd, Live, Waiting
<1>3. CASE UNCHANGED th
  BY <1>2, <1>3 DEF LockInv, LockWaits, Held, Told, Urgent, Lost, Lock!PriorityRestored
<1>4. CASE Waiting(th) # <<>> /\ th' = FailFirst(th, Head(Waiting(th)))
  <2>1. PICK t \in Threads : t = Head(Waiting(th)) /\ th.stat[t] = "suspend"
    BY <1>1, <1>4, TailElements DEF LockInv, LockWaits, Calm
  <2>2. Wakes(th, th', t, "error")
    BY <1>1, <1>4, <2>1, FailFirstWakes
  <2>3. Calm(th') /\ Sorted(th')
    BY <2>2, WakesCalm DEF LockInv, LockWaits, Errors
  <2>4. /\ th'.prio = th.prio
        /\ \A u \in Threads : th'.stat[u] = IF u = t THEN "ready" ELSE th.stat[u]
    BY <1>1, <2>2 DEF Wakes, ThreadRecords
  <2>5. LockWaits'
    BY <1>2, <2>3, <2>4 DEF LockInv, LockWaits
  <2>6. Held'
    BY <2>4 DEF LockInv, LockWaits, Held
  <2>7. Told' /\ Urgent'
    BY <1>2 DEF Told, Urgent
  <2>8. Lost' /\ Lock!PriorityRestored'
    BY <1>2, <2>4 DEF LockInv, Lost, Lock!PriorityRestored
  <2> QED
    BY <2>5, <2>6, <2>7, <2>8 DEF LockInv
<1> QED
  BY <1>2, <1>3, <1>4

\* rt_mutex_take: t has the mutex, once more or at last.
LEMMA LockTakeAgain ==
  ASSUME LockInv, NEW t \in Threads, Lock!TakeAgain(t)
  PROVE  LockInv'
<1>1. /\ pc[t] = "run" /\ th.stat[t] = "ready" /\ obj.owner = t /\ Live
      /\ th' = [th EXCEPT !.err[t] = "ok"] /\ UNCHANGED <<pc, life>>
      /\ \/ /\ obj.hold < HoldMax /\ obj' = [obj EXCEPT !.hold = @ + 1]
            /\ ghost' = [ghost EXCEPT ![t].taken = @ + 1]
         \/ UNCHANGED <<obj, ghost>>
  BY DEF Lock!TakeAgain, Lock!Calls, Lock!Live, Lock!Taken, Live
<1>2. Answers(th, th', t, "ok")
  BY <1>1 DEF LockInv, LockWaits, Calm, ThreadRecords, Answers, Errors
<1>3. CASE UNCHANGED <<obj, ghost>>
  BY <1>1, <1>2, <1>3, LockAnswers DEF Errors
<1>4. CASE /\ obj.hold < HoldMax /\ obj' = [obj EXCEPT !.hold = @ + 1]
           /\ ghost' = [ghost EXCEPT ![t].taken = @ + 1]
  <2>1. /\ Calm(th') /\ Sorted(th')
    BY <1>1, <1>2, AnswersCalm DEF LockInv, LockWaits
  <2>2. /\ th'.stat = th.stat /\ th'.prio = th.prio
        /\ \A u \in Threads : u # t => th'.err[u] = th.err[u]
    BY <1>2 DEF Answers, LockInv, LockWaits, Calm, ThreadRecords
  <2>3. /\ obj'.value = obj.value /\ obj'.owner = t /\ obj'.orig = obj.orig
        /\ obj'.hold = obj.hold + 1 /\ obj.hold \in 0 .. HoldMax
        /\ obj' \in [value : {0, 1}, owner : Threads \cup {None}, orig : 0 .. PrioMax,
                     hold : 0 .. HoldMax]
    BY <1>1, <1>4, ObjectsAssumption DEF LockInv, LockWaits
  <2>4. ghost[t].taken = obj.hold /\ t # None
    BY <1>1, IpcAssumption DEF LockInv, Told
  <2>5. /\ ghost' \in [Threads -> [taken : 0 .. HoldMax, orphan : BOOLEAN]]
        /\ \A u \in Threads : /\ ghost'[u].orphan = ghost[u].orphan
                              /\ u # t => ghost'[u].taken = ghost[u].taken
        /\ ghost'[t].taken = obj.hold + 1
    BY <1>4, <2>3, <2>4, ObjectsAssumption DEF LockInv, LockWaits
  <2>6. LockWaits'
    BY <1>1, <2>1, <2>2, <2>3, <2>5 DEF LockInv, LockWaits
  <2>7. Held'
    BY <1>1, <2>2, <2>3, <2>4, <2>5 DEF LockInv, Held
  <2>8. Told'
    BY <1>1, <2>2, <2>3, <2>5 DEF LockInv, Told, Live
  <2>9. Urgent' /\ Lost'
    BY <1>1, <2>2, <2>3 DEF LockInv, Urgent, Lost, Live
  <2>10. Lock!PriorityRestored'
    BY <1>1, <2>2, <2>3, <2>5 DEF LockInv, Lock!PriorityRestored
  <2> QED
    BY <2>6, <2>7, <2>8, <2>9, <2>10 DEF LockInv
<1> QED
  BY <1>1, <1>3, <1>4

LEMMA LockTakeFree ==
  ASSUME LockInv, NEW t \in Threads, Lock!TakeFree(t)
  PROVE  LockInv'
<1>1. /\ pc[t] = "run" /\ th.stat[t] = "ready" /\ obj.value > 0 /\ Live
      /\ th' = [th EXCEPT !.err[t] = "ok"] /\ UNCHANGED <<pc, life>>
      /\ obj' = [value |-> obj.value - 1, owner |-> t, orig |-> th.prio[t], hold |-> obj.hold + 1]
      /\ ghost' = [ghost EXCEPT ![t].taken = @ + 1]
  BY DEF Lock!TakeFree, Lock!Calls, Lock!Live, Lock!Taken, Live
<1>2. Answers(th, th', t, "ok")
  BY <1>1 DEF LockInv, LockWaits, Calm, ThreadRecords, Answers, Errors
<1>3. /\ Calm(th') /\ Sorted(th')
  BY <1>1, <1>2, AnswersCalm DEF LockInv, LockWaits
<1>4. /\ th'.stat = th.stat /\ th'.prio = th.prio
      /\ \A u \in Threads : u # t => th'.err[u] = th.err[u]
  BY <1>2 DEF Answers, LockInv, LockWaits, Calm, ThreadRecords
<1>5. obj.value = 1 /\ obj.owner = None /\ obj.hold = 0 /\ t # None
  BY <1>1, IpcAssumption DEF LockInv, LockWaits, Held
<1>6. th.prio[t] \in 0 .. PrioMax - 1
  BY DEF LockInv, LockWaits, Calm, ThreadRecords
<1>7. /\ obj'.value = 0 /\ obj'.owner = t /\ obj'.orig = th.prio[t] /\ obj'.hold = 1
      /\ obj' \in [value : {0, 1}, owner : Threads \cup {None}, orig : 0 .. PrioMax,
                   hold : 0 .. HoldMax]
  BY <1>1, <1>5, <1>6, IpcAssumption, ObjectsAssumption
<1>8. ghost[t].taken = 0
  BY <1>1, <1>5 DEF LockInv, Told
<1>9. /\ ghost' \in [Threads -> [taken : 0 .. HoldMax, orphan : BOOLEAN]]
      /\ \A u \in Threads : /\ ghost'[u].orphan = ghost[u].orphan
                            /\ u # t => ghost'[u].taken = ghost[u].taken
      /\ ghost'[t].taken = 1
  BY <1>1, <1>8, ObjectsAssumption DEF LockInv, LockWaits
<1>10. LockWaits'
  BY <1>1, <1>3, <1>4, <1>7, <1>9 DEF LockInv, LockWaits
<1>11. Held'
  <2>1. ~ghost[t].orphan => th.prio[t] = Priority[t]
    BY <1>5 DEF LockInv, Lock!PriorityRestored
  <2> QED
    BY <1>1, <1>4, <1>5, <1>6, <1>7, <1>9, <2>1, IpcAssumption DEF Held
<1>12. \A u \in Threads : th.stat[u] # "suspend"
  BY <1>1, <1>5 DEF LockInv, Urgent
<1>13. Told'
  BY <1>1, <1>4, <1>5, <1>7, <1>9 DEF LockInv, Told, Live
<1>14. Urgent' /\ Lost'
  BY <1>1, <1>4, <1>12 DEF LockInv, Urgent, Lost, Live
<1>15. Lock!PriorityRestored'
  BY <1>1, <1>4, <1>5, <1>7, <1>9, IpcAssumption DEF LockInv, Lock!PriorityRestored
<1> QED
  BY <1>10, <1>11, <1>13, <1>14, <1>15 DEF LockInv

\* The owner is lent the priority of t, if that is more urgent, and t waits.
LEMMA LockTakeWait ==
  ASSUME LockInv, NEW t \in Threads, NEW patience, Lock!TakeWait(t, patience)
  PROVE  LockInv'
<1> DEFINE r0 == [th EXCEPT !.err[t] = "ok"]
           r == Lock!Inherit(r0, t)
<1>1. /\ pc[t] = "run" /\ th.stat[t] = "ready" /\ obj.value = 0 /\ obj.owner # t /\ Live
      /\ th' = Lock!Suspend(r, "receivers", t, patience)
      /\ pc' = [pc EXCEPT ![t] = "wait"] /\ UNCHANGED <<life, obj, ghost>>
  BY DEF Lock!TakeWait, Lock!Calls, Lock!Live, Live, Lock!Goto
<1>2. PICK o \in Threads : o = obj.owner /\ o # t
  BY <1>1 DEF LockInv, LockWaits, Held
<1>3. Calm(th) /\ Sorted(th) /\ th.stat[o] = "ready"
  BY <1>2, IpcAssumption DEF LockInv, LockWaits, Held
<1>4. PICK p \in 0 .. PrioMax - 1 :
        /\ Lends(r0, r, o, p)
        /\ p <= r0.prio[t] /\ p <= r0.prio[o]
        /\ p = r0.prio[t] \/ p = r0.prio[o]
  <2>1. r0 \in ThreadRecords
    BY <1>3 DEF Calm, ThreadRecords, Errors
  <2> HIDE DEF r0
  <2>2. r0.prio[t] \in 0 .. PrioMax - 1 /\ r0.prio[o] \in 0 .. PrioMax - 1
    BY <2>1 DEF ThreadRecords
  <2>3. CASE r0.prio[t] < r0.prio[o]
    <3>1. r = [r0 EXCEPT !.prio[o] = r0.prio[t]]
      BY <1>2, <2>3 DEF Lock!Inherit, Lock!ChangePriority
    <3> HIDE DEF r
    <3>2. Lends(r0, r, o, r0.prio[t])
      BY <2>1, <2>2, <3>1 DEF Lends, ThreadRecords
    <3> QED
      BY <2>2, <2>3, <3>2
  <2>4. CASE ~(r0.prio[t] < r0.prio[o])
    <3>1. r = r0
      BY <1>2, <2>4 DEF Lock!Inherit
    <3> HIDE DEF r
    <3>2. Lends(r0, r, o, r0.prio[o])
      BY <2>1, <2>2, <3>1 DEF Lends, ThreadRecords
    <3> QED
      BY <2>2, <2>4, <3>2
  <2> QED
    BY <2>3, <2>4
<1>5. Answers(th, r0, t, "ok")
  BY <1>3 DEF Calm, ThreadRecords, Answers, Errors
<1> HIDE DEF r0
<1>6. Calm(r0) /\ Sorted(r0) /\ r0.stat = th.stat /\ r0.prio = th.prio
  BY <1>1, <1>3, <1>5, AnswersCalm DEF Answers
<1> HIDE DEF r
<1>7. /\ Calm(r) /\ Sorted(r) /\ r.stat = th.stat /\ r.prio = [th.prio EXCEPT ![o] = p]
      /\ r.err = [th.err EXCEPT ![t] = "ok"]
  BY <1>3, <1>4, <1>5, <1>6, LendsCalm DEF Lends, Answers
<1>8. r \in ThreadRecords /\ r.err[t] = "ok"
  BY <1>3, <1>7 DEF Calm, ThreadRecords
<1>9. Blocks(r, th', t) /\ Waiting(th') = InsertSorted(Waiting(r), t, r.prio)
  <2> DEFINE w == InsertSorted(Waiting(r), t, r.prio)
             v == Listed(r, t, w)
  <2>1. Lock!_ipc_list_suspend(r, "receivers", t) = v
    BY <1>7, LockSame DEF Lock!_ipc_list_suspend, Waiting, Calm, ThreadRecords, Queues, Listed
  <2> HIDE DEF v
  <2>2. th' = v \/ th' = Timed(v, t)
    BY <1>1, <2>1 DEF Lock!Suspend, Timed
  <2>3. PICK s : s = th'
    OBVIOUS
  <2>4. s = v \/ s = Timed(v, t)
    BY <2>2, <2>3
  <2>5. w = InsertSorted(Waiting(r), t, r.prio)
    OBVIOUS
  <2> HIDE DEF w
  <2>6. s = Listed(r, t, w) \/ s = Timed(Listed(r, t, w), t)
    BY <2>4 DEF v
  <2>7. Blocks(r, s, t) /\ Waiting(s) = w
    BY <1>8, <2>5, <2>6, SuspendBlocks
  <2> QED
    BY <2>3, <2>5, <2>7
<1>10. Calm(th') /\ Sorted(th')
  BY <1>1, <1>7, <1>9, BlocksCalm
<1>11. \A u \in Threads :
         /\ th'.stat[u] = IF u = t THEN "suspend" ELSE th.stat[u]
         /\ th'.err[u] = IF u = t THEN "ok" ELSE th.err[u]
         /\ th'.prio[u] = IF u = o THEN p ELSE th.prio[u]
         /\ pc'[u] = IF u = t THEN "wait" ELSE pc[u]
         /\ th.prio[u] \in 0 .. PrioMax - 1
  <2>1. /\ th'.stat = [th.stat EXCEPT ![t] = "suspend"] /\ th'.prio = [th.prio EXCEPT ![o] = p]
        /\ th'.err = [[th.err EXCEPT ![t] = "ok"] EXCEPT ![t] = "ok"]
    BY <1>7, <1>9 DEF Blocks
  <2> QED
    BY <1>1, <1>3, <2>1 DEF Calm, ThreadRecords, LockInv, LockWaits
<1>12. LockWaits'
  BY <1>1, <1>10, <1>11 DEF LockInv, LockWaits
<1>13. Held'
  BY <1>1, <1>2, <1>11 DEF LockInv, Held
<1>14. Told'
  BY <1>1, <1>2, <1>11 DEF LockInv, Told, Live
<1>15. Urgent'
  <2>1. \A w \in Threads : th.stat[w] = "suspend" => th.prio[o] <= th.prio[w] /\ w # o
    BY <1>1, <1>2, <1>3 DEF LockInv, Urgent
  <2>2. p <= th.prio[t] /\ p <= th.prio[o]
    BY <1>4, <1>6
  <2>3. o # None
    BY IpcAssumption
  <2>4. \A w \in Threads : th'.stat[w] = "suspend" => th'.prio[o] <= th'.prio[w]
    BY <1>2, <1>11, <2>1, <2>2, IpcAssumption
  <2> QED
    BY <1>1, <1>2, <2>3, <2>4 DEF Urgent
<1>16. Lost'
  BY <1>1 DEF LockInv, Lost, Live
<1>17. Lock!PriorityRestored'
  BY <1>1, <1>2, <1>11 DEF LockInv, Lock!PriorityRestored
<1> QED
  BY <1>12, <1>13, <1>14, <1>15, <1>16, <1>17 DEF LockInv

LEMMA LockTakeReturn ==
  ASSUME LockInv, NEW t \in Threads, Lock!TakeReturn(t)
  PROVE  LockInv'
<1>1. /\ pc[t] = "wait" /\ th.stat[t] = "ready"
      /\ pc' = [pc EXCEPT ![t] = "run"] /\ UNCHANGED <<th, life, obj>>
      /\ IF th.err[t] = "ok" /\ Live THEN ghost' = [ghost EXCEPT ![t].taken = @ + 1]
                                     ELSE UNCHANGED ghost
  BY DEF Lock!TakeReturn, Lock!Woken, Lock!Resumed, Lock!Goto, Lock!Live, Lock!Taken, Live
<1>2. \A u \in Threads : pc'[u] = IF u = t THEN "run" ELSE pc[u]
  BY <1>1 DEF LockInv, LockWaits
<1>3. ghost[t].taken = 0
  BY <1>1 DEF LockInv, Told, Lost
<1>4. /\ ghost' \in [Threads -> [taken : 0 .. HoldMax, orphan : BOOLEAN]]
      /\ \A u \in Threads : /\ ghost'[u].orphan = ghost[u].orphan
                            /\ u # t => ghost'[u].taken = ghost[u].taken
      /\ ghost'[t].taken = IF th.err[t] = "ok" /\ Live THEN 1 ELSE 0
  <2>1. CASE th.err[t] = "ok" /\ Live
    BY <1>1, <1>3, <2>1, ObjectsAssumption DEF LockInv, LockWaits
  <2>2. CASE ~(th.err[t] = "ok" /\ Live)
    BY <1>1, <1>3, <2>2 DEF LockInv, LockWaits
  <2> QED
    BY <2>1, <2>2
<1>5. LockWaits'
  BY <1>1, <1>2, <1>4 DEF LockInv, LockWaits
<1>6. Held'
  BY <1>1, <1>4 DEF LockInv, LockWaits, Held
<1>7. Told'
  BY <1>1, <1>2, <1>4 DEF LockInv, Told, Live
<1>8. Urgent'
  BY <1>1 DEF LockInv, Urgent, Live
<1>9. Lost'
  BY <1>1, <1>4 DEF LockInv, LockWaits, Lost, Live
<1>10. Lock!PriorityRestored'
  BY <1>1, <1>4 DEF LockInv, Lock!PriorityRestored
<1> QED
  BY <1>5, <1>6, <1>7, <1>8, <1>9, <1>10 DEF LockInv

\* What the two kinds of last release have in common: t gets its priority back.
LEMMA LockGiveBack ==
  ASSUME LockInv, NEW t \in Threads, Live, pc[t] = "run", th.stat[t] = "ready", obj.owner = t
  PROVE  /\ t # None /\ obj.value = 0 /\ obj.hold >= 1 /\ obj.orig \in 0 .. PrioMax - 1
         /\ ghost[t].taken = obj.hold
         /\ ~ghost[t].orphan => obj.orig = Priority[t]
         /\ Lends(th, ChangePriority(th, t, obj.orig), t, obj.orig)
<1>1. /\ t # None /\ obj.value = 0 /\ obj.hold >= 1 /\ obj.orig \in 0 .. PrioMax - 1
      /\ ~ghost[t].orphan => obj.orig = Priority[t]
  BY IpcAssumption DEF LockInv, LockWaits, Held
<1>2. ghost[t].taken = obj.hold
  BY DEF LockInv, Told
<1>3. th \in ThreadRecords
  BY DEF LockInv, LockWaits, Calm
<1>4. Lends(th, ChangePriority(th, t, obj.orig), t, obj.orig)
  BY <1>1, <1>3 DEF Lends, ThreadRecords, ChangePriority
<1> QED
  BY <1>1, <1>2, <1>4

\* rt_mutex_release when t holds the mutex more than once, ...
LEMMA LockReleaseOne ==
  ASSUME LockInv, NEW t \in Threads, Live, pc[t] = "run", th.stat[t] = "ready", obj.owner = t,
         obj.hold > 1, obj' = [obj EXCEPT !.hold = @ - 1],
         ghost' = [ghost EXCEPT ![t].taken = @ - 1], UNCHANGED <<th, pc, life>>
  PROVE  LockInv'
<1>1. /\ t # None /\ obj.hold \in 0 .. HoldMax /\ ghost[t].taken = obj.hold
      /\ ~ghost[t].orphan => obj.orig = Priority[t]
  BY LockGiveBack DEF LockInv, LockWaits
<1>2. /\ obj'.value = obj.value /\ obj'.owner = t /\ obj'.orig = obj.orig
      /\ obj'.hold = obj.hold - 1 /\ obj'.hold >= 1
      /\ obj' \in [value : {0, 1}, owner : Threads \cup {None}, orig : 0 .. PrioMax,
                   hold : 0 .. HoldMax]
  BY <1>1, ObjectsAssumption DEF LockInv, LockWaits
<1>3. /\ ghost' \in [Threads -> [taken : 0 .. HoldMax, orphan : BOOLEAN]]
      /\ \A u \in Threads : /\ ghost'[u].orphan = ghost[u].orphan
                            /\ u # t => ghost'[u].taken = ghost[u].taken
      /\ ghost'[t].taken = obj.hold - 1
  BY <1>1, ObjectsAssumption DEF LockInv, LockWaits
<1>4. LockWaits'
  BY <1>2, <1>3 DEF LockInv, LockWaits
<1>5. Held'
  BY <1>1, <1>2, <1>3 DEF LockInv, Held
<1>6. Told'
  BY <1>2, <1>3 DEF LockInv, Told, Live
<1>7. Urgent' /\ Lost'
  BY <1>2 DEF LockInv, Urgent, Lost, Live
<1>8. Lock!PriorityRestored'
  BY <1>2, <1>3 DEF LockInv, Lock!PriorityRestored
<1> QED
  BY <1>4, <1>5, <1>6, <1>7, <1>8 DEF LockInv

\* ... when somebody waits, ...
LEMMA LockHandOver ==
  ASSUME LockInv, NEW t \in Threads, Live, pc[t] = "run", th.stat[t] = "ready", obj.owner = t,
         ~(obj.hold > 1), ghost' = [ghost EXCEPT ![t].taken = @ - 1], UNCHANGED <<pc, life>>,
         NEW r, Lends(th, r, t, obj.orig), Waiting(r) # <<>>,
         NEW next, next = Head(Waiting(r)),
         obj' = [obj EXCEPT !.owner = next, !.orig = r.prio[next], !.hold = 1],
         th' = rt_thread_resume(r, next)
  PROVE  LockInv'
<1>1. /\ t # None /\ obj.value = 0 /\ obj.hold = 1 /\ obj.orig \in 0 .. PrioMax - 1
      /\ ghost[t].taken = 1
      /\ ~ghost[t].orphan => obj.orig = Priority[t]
  BY LockGiveBack DEF LockInv, LockWaits
<1>2. Calm(th) /\ Calm(r) /\ Sorted(r) /\ Waiting(r) \in Seq(Threads)
  <2>1. Calm(th) /\ Calm(r) /\ Sorted(r)
    BY LendsCalm DEF LockInv, LockWaits
  <2> QED
    BY <2>1 DEF Calm, ThreadRecords, Waiting, Queues
<1>3. /\ r.stat = th.stat /\ r.err = th.err
      /\ \A u \in Threads : /\ r.prio[u] = IF u = t THEN obj.orig ELSE th.prio[u]
                            /\ r.prio[u] \in 0 .. PrioMax - 1
  <2>1. r.stat = th.stat /\ r.err = th.err /\ r.prio = [th.prio EXCEPT ![t] = obj.orig]
    BY DEF Lends
  <2>2. PICK f, g : f = th.prio /\ g = r.prio
    OBVIOUS
  <2>3. f \in [Threads -> 0 .. PrioMax - 1] /\ g = [f EXCEPT ![t] = obj.orig]
    BY <1>2, <2>1, <2>2 DEF Calm, ThreadRecords
  <2>4. \A u \in Threads : /\ g[u] = IF u = t THEN obj.orig ELSE f[u]
                           /\ g[u] \in 0 .. PrioMax - 1
    BY <1>1, <2>3
  <2> QED
    BY <2>1, <2>2, <2>4
<1>4. /\ next \in Threads /\ th.stat[next] = "suspend" /\ next # t /\ next # None
      /\ th.err[next] = "ok" /\ pc[next] = "wait"
  <2>1. next \in Threads /\ Contains(Waiting(r), next)
    BY <1>2, TailElements DEF Calm
  <2>2. th.stat[next] = "suspend"
    BY <1>2, <1>3, <2>1 DEF Calm
  <2>3. th.err[next] = "ok"
    BY <1>2, <2>1, <2>2 DEF Calm
  <2>4. pc[next] = "wait" /\ next # t
    BY <2>1, <2>2 DEF LockInv, LockWaits
  <2>5. next # None
    BY <2>1, IpcAssumption
  <2> QED
    BY <2>1, <2>2, <2>3, <2>4, <2>5
<1>5. Wakes(r, th', next, "ok")
  BY <1>2, <1>3, <1>4, ResumeWakes DEF Calm
<1>6. Calm(th') /\ Sorted(th')
  BY <1>2, <1>4, <1>5, WakesCalm DEF Errors
<1>7. /\ th'.prio = r.prio
      /\ \A u \in Threads : /\ th'.stat[u] = IF u = next THEN "ready" ELSE th.stat[u]
                            /\ th'.err[u] = th.err[u]
  <2>1. /\ th'.stat = [r.stat EXCEPT ![next] = "ready"]
        /\ th'.err = [r.err EXCEPT ![next] = "ok"] /\ th'.prio = r.prio
        /\ r \in ThreadRecords
    BY <1>2, <1>5 DEF Wakes, Calm
  <2> QED
    BY <1>3, <1>4, <2>1 DEF ThreadRecords
<1>8. /\ obj'.value = 0 /\ obj'.owner = next /\ obj'.orig = th.prio[next] /\ obj'.hold = 1
      /\ obj'.orig \in 0 .. PrioMax - 1
      /\ obj' \in [value : {0, 1}, owner : Threads \cup {None}, orig : 0 .. PrioMax,
                   hold : 0 .. HoldMax]
  <2>1. r.prio[next] = th.prio[next] /\ r.prio[next] \in 0 .. PrioMax
    BY <1>3, <1>4, IpcAssumption
  <2> QED
    BY <1>1, <1>3, <1>4, <2>1, ObjectsAssumption DEF LockInv, LockWaits
<1>9. /\ ghost' \in [Threads -> [taken : 0 .. HoldMax, orphan : BOOLEAN]]
      /\ \A u \in Threads : /\ ghost'[u].orphan = ghost[u].orphan
                            /\ u # t => ghost'[u].taken = ghost[u].taken
      /\ ghost'[t].taken = 0
  BY <1>1, ObjectsAssumption DEF LockInv, LockWaits
<1>10. LockWaits'
  <2>1. pc \in [Threads -> {"run", "wait"}] /\ pc' = pc
        /\ \A u \in Threads : th'.stat[u] = "suspend" => pc[u] = "wait"
    BY <1>7 DEF LockInv, LockWaits
  <2> QED
    BY <1>6, <1>8, <1>9, <2>1 DEF LockWaits
<1>11. ~ghost[next].orphan => th.prio[next] = Priority[next]
  BY <1>4 DEF LockInv, Lock!PriorityRestored
<1>12. Held'
  BY <1>4, <1>7, <1>8, <1>9, <1>11, IpcAssumption DEF Held
<1>13. Told'
  BY <1>4, <1>7, <1>8, <1>9 DEF LockInv, Told, Live
<1>14. Urgent'
  <2>1. \A u \in Threads : Contains(Waiting(r), u) => r.prio[next] <= r.prio[u]
    <3> SUFFICES ASSUME NEW u \in Threads, Contains(Waiting(r), u)
                 PROVE  r.prio[next] <= r.prio[u]
      OBVIOUS
    <3>1. PICK i \in DOMAIN Waiting(r) : Waiting(r)[i] = u
      BY <1>2 DEF Contains
    <3>2. 1 \in DOMAIN Waiting(r) /\ next = Waiting(r)[1] /\ (i = 1 \/ 1 < i)
      BY <1>2, <3>1
    <3>3. CASE i = 1
      BY <1>3, <1>4, <3>1, <3>2, <3>3, IpcAssumption
    <3>4. CASE 1 < i
      BY <1>2, <3>1, <3>2, <3>4 DEF Sorted, InOrder
    <3> QED
      BY <3>2, <3>3, <3>4
  <2>2. \A u \in Threads : th'.stat[u] = "suspend" => Contains(Waiting(r), u)
    BY <1>2, <1>3, <1>7 DEF Calm
  <2> QED
    BY <1>4, <1>7, <1>8, <2>1, <2>2 DEF Urgent
<1>15. Lost'
  BY DEF Lost, Live
<1>16. Lock!PriorityRestored'
  <2> SUFFICES ASSUME NEW u \in Threads, u # next, ~ghost[u].orphan
               PROVE  r.prio[u] = Priority[u]
    BY <1>7, <1>8, <1>9 DEF Lock!PriorityRestored
  <2> QED
    BY <1>1, <1>3 DEF LockInv, Lock!PriorityRestored
<1> QED
  BY <1>10, <1>12, <1>13, <1>14, <1>15, <1>16 DEF LockInv

\* ... and when nobody does.
LEMMA LockSetFree ==
  ASSUME LockInv, NEW t \in Threads, Live, pc[t] = "run", th.stat[t] = "ready", obj.owner = t,
         ~(obj.hold > 1), ghost' = [ghost EXCEPT ![t].taken = @ - 1], UNCHANGED <<pc, life>>,
         NEW r, Lends(th, r, t, obj.orig), Waiting(r) = <<>>,
         obj' = [value |-> obj.value + 1, owner |-> None, orig |-> PrioMax, hold |-> 0],
         th' = r
  PROVE  LockInv'
<1>1. /\ t # None /\ obj.value = 0 /\ obj.hold = 1 /\ obj.orig \in 0 .. PrioMax - 1
      /\ ghost[t].taken = 1
      /\ ~ghost[t].orphan => obj.orig = Priority[t]
  BY LockGiveBack DEF LockInv, LockWaits
<1>2. Calm(th) /\ Calm(r) /\ Sorted(r)
  BY LendsCalm DEF LockInv, LockWaits
<1>3. /\ r.stat = th.stat /\ r.err = th.err
      /\ \A u \in Threads : r.prio[u] = IF u = t THEN obj.orig ELSE th.prio[u]
  BY <1>2 DEF Lends, Calm, ThreadRecords
<1>4. \A u \in Threads : r.stat[u] # "suspend"
  BY <1>2 DEF Calm, Contains
<1>5. /\ obj'.value = 1 /\ obj'.owner = None /\ obj'.hold = 0
      /\ obj' \in [value : {0, 1}, owner : Threads \cup {None}, orig : 0 .. PrioMax,
                   hold : 0 .. HoldMax]
  BY <1>1, IpcAssumption, ObjectsAssumption
<1>6. /\ ghost' \in [Threads -> [taken : 0 .. HoldMax, orphan : BOOLEAN]]
      /\ \A u \in Threads : /\ ghost'[u].orphan = ghost[u].orphan
                            /\ u # t => ghost'[u].taken = ghost[u].taken
      /\ ghost'[t].taken = 0
  BY <1>1, ObjectsAssumption DEF LockInv, LockWaits
<1>7. LockWaits'
  BY <1>2, <1>3, <1>5, <1>6 DEF LockInv, LockWaits
<1>8. Held'
  BY <1>5 DEF Held
<1>9. Told'
  BY <1>3, <1>5, <1>6, IpcAssumption DEF LockInv, Told, Live
<1>10. Urgent' /\ Lost'
  BY <1>4 DEF Urgent, Lost, Live
<1>11. Lock!PriorityRestored'
  BY <1>1, <1>3, <1>6 DEF LockInv, Lock!PriorityRestored
<1> QED
  BY <1>7, <1>8, <1>9, <1>10, <1>11 DEF LockInv

LEMMA LockRelease ==
  ASSUME LockInv, NEW t \in Threads, Lock!Release(t)
  PROVE  LockInv'
<1> DEFINE r == ChangePriority(th, t, obj.orig)
<1>1. /\ Live /\ pc[t] = "run" /\ th.stat[t] = "ready" /\ obj.owner = t
      /\ ghost' = [ghost EXCEPT ![t].taken = @ - 1] /\ UNCHANGED <<pc, life>>
  BY DEF Lock!Release, Lock!Calls, Lock!Live, Live
<1>2. CASE obj.hold > 1
  BY <1>1, <1>2, LockReleaseOne DEF Lock!Release
<1>3. CASE ~(obj.hold > 1)
  <2>1. Lends(th, r, t, obj.orig)
    BY <1>1, LockGiveBack
  <2>2. Lock!ChangePriority(th, t, obj.orig) = r
    BY DEF Lock!ChangePriority, ChangePriority
  <2> HIDE DEF r
  <2>3. CASE Waiting(r) # <<>>
    <3>1. Lock!HandOver(r)
      BY <1>3, <2>2, <2>3 DEF Lock!Release, Waiting
    <3> DEFINE next == Head(Waiting(r))
    <3>2. /\ obj' = [obj EXCEPT !.owner = next, !.orig = r.prio[next], !.hold = 1]
          /\ th' = rt_thread_resume(r, next)
      BY <3>1, LockSame DEF Lock!HandOver, Lock!_ipc_list_resume, Waiting
    <3>3. next = Head(Waiting(r))
      OBVIOUS
    <3> HIDE DEF next
    <3> QED
      BY <1>1, <1>3, <2>1, <2>3, <3>2, <3>3, LockHandOver
  <2>4. CASE Waiting(r) = <<>>
    <3>1. Lock!SetFree(r)
      BY <1>3, <2>2, <2>4 DEF Lock!Release, Waiting
    <3>2. /\ obj' = [value |-> obj.value + 1, owner |-> None, orig |-> PrioMax, hold |-> 0]
          /\ th' = r
      BY <3>1 DEF Lock!SetFree, Lock!Fresh, Lock!NoPrio
    <3> QED
      BY <1>1, <1>3, <2>1, <2>4, <3>2, LockSetFree
  <2> QED
    BY <2>3, <2>4
<1> QED
  BY <1>2, <1>3

LEMMA LockNext ==
  ASSUME LockInv, Lock!Next
  PROVE  LockInv'
<1>1. th \in ThreadRecords /\ \A t \in Threads : th.stat[t] \in {"ready", "suspend"}
  BY DEF LockInv, LockWaits, Calm, ThreadRecords
<1>2. CASE Lock!rt_mutex_init \/ Lock!rt_mutex_create
  BY <1>2, LockSetUp
<1>3. CASE Lock!rt_mutex_detach \/ Lock!rt_mutex_delete
  BY <1>3, LockBeginClose
<1>4. CASE (Lock!CloseStep \/ Lock!CloseEnd) /\ UNCHANGED <<obj, ghost>>
  BY <1>4, LockCloses
<1>5. ASSUME NEW t \in Threads, Lock!TakeNo(t) \/ Lock!ReleaseRefused(t)
      PROVE  LockInv'
  <2>1. PICK e \in Errors :
          /\ pc[t] = "run" /\ th.stat[t] = "ready"
          /\ th' = [th EXCEPT !.err[t] = e] /\ UNCHANGED <<pc, life, obj, ghost>>
    BY <1>5 DEF Lock!TakeNo, Lock!ReleaseRefused, Lock!Calls, Errors
  <2>2. Answers(th, th', t, e)
    BY <1>1, <2>1 DEF ThreadRecords, Answers
  <2> QED
    BY <2>1, <2>2, LockAnswers
<1>6. ASSUME NEW t \in Threads, Lock!_thread_timeout(t), UNCHANGED <<obj, ghost>>
      PROVE  LockInv'
  <2>1. /\ t \in th.armed /\ th' = [rt_thread_resume(th, t) EXCEPT !.err[t] = "timeout"]
        /\ UNCHANGED <<pc, life>>
    BY <1>6, LockSame DEF Lock!_thread_timeout
  <2>2. Wakes(th, th', t, "timeout") /\ th.stat[t] = "suspend"
    BY <1>1, <2>1, TimeoutWakes DEF LockInv, LockWaits, Calm
  <2> QED
    BY <1>6, <2>1, <2>2, LockWakes DEF Errors
<1>7. ASSUME NEW t \in Threads,
             \/ Lock!TakeAgain(t) \/ Lock!TakeFree(t) \/ Lock!TakeReturn(t) \/ Lock!Release(t)
             \/ \E p \in Waits : Lock!TakeWait(t, p)
      PROVE  LockInv'
  BY <1>7, LockTakeAgain, LockTakeFree, LockTakeReturn, LockRelease, LockTakeWait
<1> QED
  BY <1>2, <1>3, <1>4, <1>5, <1>6, <1>7 DEF Lock!Next

LEMMA LockInvFacts ==
  ASSUME LockInv
  PROVE  Lock!Exclusive /\ Lock!NoInversion /\ Lock!PriorityRestored
<1>1. Lock!Exclusive
  BY IpcAssumption DEF LockInv, LockWaits, Held, Told, Lock!Exclusive, Lock!Live, Live
<1>2. Lock!NoInversion
  <2> SUFFICES ASSUME Live, NEW w \in Lock!Range(th.wait["receivers"])
               PROVE  obj.owner # None /\ th.prio[obj.owner] <= th.prio[w]
    BY DEF Lock!NoInversion, Lock!Live, Live
  <2>1. Waiting(th) \in Seq(Threads)
    BY DEF LockInv, LockWaits, Calm, ThreadRecords, Waiting, Queues
  <2>2. \E i \in DOMAIN Waiting(th) : Waiting(th)[i] = w
    BY LockSame, RangeContains DEF Waiting
  <2>3. w \in Threads /\ Contains(Waiting(th), w)
    BY <2>1, <2>2 DEF Contains
  <2> QED
    BY <2>3 DEF LockInv, LockWaits, Calm, Urgent
<1> QED
  BY <1>1, <1>2 DEF LockInv

\* The strengthened invariant of a mutex, for any number of threads of any priorities.
THEOREM LockInvariance == Spec => [](kind = "mutex" => LockInv)
<1>1. Init => (kind = "mutex" => LockInv)
  BY LockInit DEF Init
<1>2. (kind = "mutex" => LockInv) /\ [Next]_vars => (kind = "mutex" => LockInv)'
  <2>1. ASSUME kind = "mutex" => LockInv, Next, kind' = "mutex"
        PROVE  LockInv'
    BY <2>1, LockNext DEF Next
  <2>2. ASSUME kind = "mutex" => LockInv, UNCHANGED vars, kind' = "mutex"
        PROVE  LockInv'
    BY <2>2 DEF vars, ipcVars, LockInv, LockWaits, Held, Told, Urgent, Lost,
       Lock!PriorityRestored, Live
  <2> QED
    BY <2>1, <2>2
<1> QED
  BY <1>1, <1>2, PTL DEF Spec

\* rt_mutex_take tells one thread at a time that it holds the mutex, and as often as it
\* holds it, whatever timeouts, refused calls and hand-overs come in between.
THEOREM MutexExclusiveCorrect == Spec => []MutexExclusive
<1>1. (kind = "mutex" => LockInv) => MutexExclusive
  BY LockInvFacts DEF MutexExclusive
<1> QED
  BY <1>1, LockInvariance, PTL

\* The owner of a mutex is as urgent as every thread that waits for it: rt_mutex_take
\* lends it the priority of a waiter, and rt_mutex_release picks the most urgent.
THEOREM MutexNoInversionCorrect == Spec => []MutexNoInversion
<1>1. (kind = "mutex" => LockInv) => MutexNoInversion
  BY LockInvFacts DEF MutexNoInversion
<1> QED
  BY <1>1, LockInvariance, PTL

\* The last rt_mutex_release gives its priority back to the thread that was lent one.
THEOREM MutexPriorityRestoredCorrect == Spec => []MutexPriorityRestored
<1>1. (kind = "mutex" => LockInv) => MutexPriorityRestored
  BY LockInvFacts DEF MutexPriorityRestored
<1> QED
  BY <1>1, LockInvariance, PTL

-----------------------------------------------------------------------------
(* Semaphores.                                                             *)

\* The type of the semaphore, and the waits.
SemInv ==
  /\ Calm(th) /\ (PrioFlag => Sorted(th))
  /\ pc \in [Threads -> {"run", "wait"}]
  /\ obj \in 0 .. SemMax
  /\ \A t \in Threads : th.stat[t] = "suspend" => pc[t] = "wait"

\* The step moves the take of t to the phase x, and no other.
Moves(t, x) == \A u \in Threads : Sem!Phase(u)' = IF u = t THEN x ELSE Sem!Phase(u)

\* It moves no take.
Stays == \A u \in Threads : Sem!Phase(u)' = Sem!Phase(u)

\* What a step of a semaphore does.
SemKept == SemInv' /\ [Tokens!ResettableNext]_Tokens!vars

LEMMA SemSame ==
  /\ \A r, t : Sem!rt_thread_resume(r, t) = rt_thread_resume(r, t)
  /\ \A r, t : Sem!FailFirst(r, t) = FailFirst(r, t)
  /\ \A q, t, key : Sem!InsertSorted(q, t, key) = InsertSorted(q, t, key)
  /\ \A r, q : Sem!_ipc_list_resume_all(r, q) = _ipc_list_resume_all(r, q)
<1>1. \A q, t : Sem!Unlink(q, t) = Unlink(q, t)
  BY DEF Sem!Unlink, Unlink, Sem!Contains, Contains, Sem!RemoveAt, RemoveAt
<1>2. \A r, t : Sem!rt_thread_resume(r, t) = rt_thread_resume(r, t)
  BY <1>1 DEF Sem!rt_thread_resume, rt_thread_resume, Sem!Queues, Queues
<1>3. \A r, t : Sem!FailFirst(r, t) = FailFirst(r, t)
  BY <1>2 DEF Sem!FailFirst, FailFirst
<1>4. \A q, t, key : Sem!InsertSorted(q, t, key) = InsertSorted(q, t, key)
  BY DEF Sem!InsertSorted, Sem!FirstLater, Sem!InsertAt, InsertSorted, FirstLater, InsertAt
<1>5. \A r, q : Sem!_ipc_list_resume_all(r, q) = _ipc_list_resume_all(r, q)
  BY DEF Sem!_ipc_list_resume_all, _ipc_list_resume_all, Sem!Range, Range
<1> QED
  BY <1>2, <1>3, <1>4, <1>5

LEMMA SemMoves ==
  ASSUME kind = "semaphore", kind' = "semaphore", NEW t \in Threads, NEW x, Moves(t, x)
  PROVE  /\ [u \in Threads |-> SemPhase(u)]' = [[u \in Threads |-> SemPhase(u)] EXCEPT ![t] = x]
         /\ x = "out" =>
              [u \in Threads |-> IF SemPhase(u) = "out" THEN None ELSE "semaphore"]' =
                [[u \in Threads |-> IF SemPhase(u) = "out" THEN None ELSE "semaphore"]
                   EXCEPT ![t] = None]
         /\ x # "out" =>
              [u \in Threads |-> IF SemPhase(u) = "out" THEN None ELSE "semaphore"]' =
                [[u \in Threads |-> IF SemPhase(u) = "out" THEN None ELSE "semaphore"]
                   EXCEPT ![t] = "semaphore"]
         /\ x # "out" /\ SemPhase(t) # "out" =>
              [u \in Threads |-> IF SemPhase(u) = "out" THEN None ELSE "semaphore"]' =
                [u \in Threads |-> IF SemPhase(u) = "out" THEN None ELSE "semaphore"]
<1>1. \A u \in Threads : SemPhase(u) = Sem!Phase(u) /\ SemPhase(u)' = Sem!Phase(u)'
  BY DEF SemPhase
<1>2. \A u \in Threads : SemPhase(u)' = IF u = t THEN x ELSE SemPhase(u)
  BY <1>1 DEF Moves
<1> QED
  BY <1>2

LEMMA SemStays ==
  ASSUME kind = "semaphore", kind' = "semaphore", Stays
  PROVE  /\ [u \in Threads |-> SemPhase(u)]' = [u \in Threads |-> SemPhase(u)]
         /\ [u \in Threads |-> IF SemPhase(u) = "out" THEN None ELSE "semaphore"]' =
              [u \in Threads |-> IF SemPhase(u) = "out" THEN None ELSE "semaphore"]
<1>1. \A u \in Threads : SemPhase(u)' = SemPhase(u)
  BY DEF SemPhase, Stays
<1> QED
  BY <1>1

\* The threads on the wait list are those that the abstract semaphore has waiting.
LEMMA SemWaiters ==
  ASSUME kind = "semaphore", SemInv
  PROVE  /\ Tokens!Waiters("semaphore") = {t \in Threads : th.stat[t] = "suspend"}
         /\ Tokens!Waiters("semaphore") = {t \in Threads : Contains(Waiting(th), t)}
<1>1. \A t \in Threads : SemPhase(t) = "waiting" <=> th.stat[t] = "suspend"
  BY DEF SemInv, SemPhase, Sem!Phase
<1>2. Tokens!Waiters("semaphore") = {t \in Threads : th.stat[t] = "suspend"}
  BY <1>1 DEF Tokens!Waiters
<1> QED
  BY <1>2 DEF SemInv, Calm

\* A step that sets or keeps the value and concerns no take.
LEMMA SemQuiet ==
  ASSUME kind = "semaphore", kind' = "semaphore", SemInv, UNCHANGED <<th, pc>>,
         obj' = obj
  PROVE  SemKept
<1>1. SemInv'
  BY DEF SemInv
<1>2. Stays
  BY DEF Stays, Sem!Phase
<1>3. UNCHANGED Tokens!vars
  BY <1>2, SemStays DEF Tokens!vars
<1> QED
  BY <1>1, <1>3 DEF SemKept

\* The wait of t ends with the error e.
LEMMA SemWakes ==
  ASSUME SemInv, NEW t \in Threads, th.stat[t] = "suspend", NEW e \in Errors,
         Wakes(th, th', t, e), UNCHANGED pc
  PROVE  /\ Calm(th') /\ (PrioFlag => Sorted(th'))
         /\ \A u \in Threads : th'.stat[u] = "suspend" => pc[u] = "wait"
         /\ Moves(t, IF e = "ok" THEN "granted" ELSE "failed")
<1>1. Calm(th') /\ (PrioFlag => Sorted(th'))
  BY WakesCalm DEF SemInv
<1>2. \A u \in Threads : /\ th'.stat[u] = IF u = t THEN "ready" ELSE th.stat[u]
                         /\ th'.err[u] = IF u = t THEN e ELSE th.err[u]
  BY DEF Wakes, SemInv, Calm, ThreadRecords
<1>3. \A u \in Threads : th'.stat[u] = "suspend" => pc[u] = "wait"
  BY <1>2 DEF SemInv
<1>4. pc[t] = "wait"
  BY DEF SemInv
<1>5. Moves(t, IF e = "ok" THEN "granted" ELSE "failed")
  BY <1>2, <1>4 DEF Moves, Sem!Phase
<1> QED
  BY <1>1, <1>3, <1>5

\* A wait that ends without a token is a failure of the abstract semaphore.
LEMMA SemFails ==
  ASSUME kind = "semaphore", kind' = "semaphore", SemInv, NEW t \in Threads,
         th.stat[t] = "suspend", NEW e \in Errors \ {"ok"}, Wakes(th, th', t, e),
         UNCHANGED <<pc, obj>>
  PROVE  SemKept
<1>1. /\ Calm(th') /\ (PrioFlag => Sorted(th'))
      /\ \A u \in Threads : th'.stat[u] = "suspend" => pc[u] = "wait"
      /\ Moves(t, "failed")
  BY SemWakes
<1>2. SemInv'
  BY <1>1 DEF SemInv
<1>3. SemPhase(t) = "waiting"
  BY DEF SemInv, SemPhase, Sem!Phase
<1>4. Tokens!Fail(t)
  <2>1. "failed" # "out" /\ SemPhase(t) # "out"
    BY <1>3
  <2> QED
    BY <1>1, <1>3, <2>1, SemMoves DEF Tokens!Fail
<1> QED
  BY <1>2, <1>4 DEF SemKept, Tokens!ResettableNext, Tokens!Next

LEMMA SemTakeNow ==
  ASSUME kind = "semaphore", kind' = "semaphore", SemInv, Sem!TakeNow
  PROVE  SemKept
<1>1. obj > 0 /\ obj' = obj - 1 /\ UNCHANGED <<th, pc>>
  BY DEF Sem!TakeNow
<1>2. obj' \in 0 .. SemMax
  BY <1>1, ObjectsAssumption DEF SemInv
<1>3. SemInv'
  BY <1>1, <1>2 DEF SemInv
<1>4. Stays
  BY <1>1 DEF Stays, Sem!Phase
<1>5. Tokens!TakeNow("semaphore")
  BY <1>1, <1>4, SemStays DEF Tokens!TakeNow
<1> QED
  BY <1>3, <1>5 DEF SemKept, Tokens!ResettableNext, Tokens!Next

LEMMA SemTakeWait ==
  ASSUME kind = "semaphore", kind' = "semaphore", SemInv, NEW t \in Threads, NEW patience,
         Sem!TakeWait(t, patience)
  PROVE  SemKept
<1> DEFINE r == [th EXCEPT !.err[t] = "ok"]
<1>1. /\ pc[t] = "run" /\ th.stat[t] = "ready" /\ obj = 0
      /\ th' = Sem!Suspend(r, "receivers", t, patience)
      /\ pc' = [pc EXCEPT ![t] = "wait"] /\ obj' = obj
  BY DEF Sem!TakeWait, Sem!Calls, Sem!Goto
<1>2. Answers(th, r, t, "ok")
  BY DEF SemInv, Calm, ThreadRecords, Answers, Errors
<1> HIDE DEF r
<1>3. /\ Calm(r) /\ (PrioFlag => Sorted(r))
      /\ r.stat = th.stat /\ r.err = [th.err EXCEPT ![t] = "ok"]
  BY <1>1, <1>2, AnswersCalm DEF SemInv, Answers
<1>4. r \in ThreadRecords /\ r.err[t] = "ok"
  BY <1>3 DEF Calm, SemInv, ThreadRecords
<1>5. PICK w : w = IF PrioFlag THEN InsertSorted(Waiting(r), t, r.prio) ELSE Append(Waiting(r), t)
  OBVIOUS
<1>6. w = InsertSorted(Waiting(r), t, r.prio) \/ w = Append(Waiting(r), t)
  BY <1>5
<1>7. Sem!_ipc_list_suspend(r, "receivers", t) = Listed(r, t, w)
  BY <1>4, <1>5, SemSame DEF Sem!_ipc_list_suspend, Waiting, ThreadRecords, Queues, Listed
<1>8. th' = Listed(r, t, w) \/ th' = Timed(Listed(r, t, w), t)
  BY <1>1, <1>7 DEF Sem!Suspend, Timed
<1>9. PICK s : s = th'
  OBVIOUS
<1>10. s = Listed(r, t, w) \/ s = Timed(Listed(r, t, w), t)
  BY <1>8, <1>9
<1>11. Blocks(r, s, t) /\ Waiting(s) = w
  BY <1>4, <1>6, <1>10, SuspendBlocks
<1>12. Calm(s) /\ (PrioFlag => Sorted(s))
  BY <1>1, <1>3, <1>5, <1>11, BlocksCalm
<1>13. \A u \in Threads : /\ s.stat[u] = IF u = t THEN "suspend" ELSE th.stat[u]
                          /\ u # t => s.err[u] = th.err[u]
                          /\ pc'[u] = IF u = t THEN "wait" ELSE pc[u]
  <2>1. s.stat = [r.stat EXCEPT ![t] = "suspend"] /\ s.err = [r.err EXCEPT ![t] = "ok"]
    BY <1>11 DEF Blocks
  <2> QED
    BY <1>1, <1>3, <2>1 DEF SemInv, Calm, ThreadRecords
<1>14. SemInv'
  BY <1>1, <1>9, <1>12, <1>13 DEF SemInv
<1>15. Moves(t, "waiting")
  BY <1>9, <1>13 DEF Moves, Sem!Phase
<1>16. SemPhase(t) = "out"
  BY <1>1 DEF SemPhase, Sem!Phase
<1>17. Tokens!Wait(t, "semaphore")
  <2>1. "waiting" # "out" /\ obj = 0 /\ obj' = obj
    BY <1>1
  <2>2. /\ [u \in Threads |-> SemPhase(u)]' =
             [[u \in Threads |-> SemPhase(u)] EXCEPT ![t] = "waiting"]
        /\ [u \in Threads |-> IF SemPhase(u) = "out" THEN None ELSE "semaphore"]' =
             [[u \in Threads |-> IF SemPhase(u) = "out" THEN None ELSE "semaphore"]
                EXCEPT ![t] = "semaphore"]
    BY <1>15, <2>1, SemMoves
  <2>3. [x \in {"semaphore"} |-> IF kind = "semaphore" THEN obj ELSE 0]["semaphore"] = 0
    BY <2>1
  <2>4. UNCHANGED [x \in {"semaphore"} |-> IF kind = "semaphore" THEN obj ELSE 0]
    BY <2>1
  <2>5. [u \in Threads |-> SemPhase(u)][t] = "out"
    BY <1>16
  <2> QED
    BY <2>2, <2>3, <2>4, <2>5 DEF Tokens!Wait
<1> QED
  BY <1>14, <1>17 DEF SemKept, Tokens!ResettableNext, Tokens!Next

LEMMA SemTakeReturn ==
  ASSUME kind = "semaphore", kind' = "semaphore", SemInv, NEW t \in Threads, Sem!TakeReturn(t)
  PROVE  SemKept
<1>1. /\ pc[t] = "wait" /\ th.stat[t] = "ready"
      /\ pc' = [pc EXCEPT ![t] = "run"] /\ UNCHANGED <<th, obj>>
  BY DEF Sem!TakeReturn, Sem!Woken, Sem!Resumed, Sem!Goto
<1>2. \A u \in Threads : pc'[u] = IF u = t THEN "run" ELSE pc[u]
  BY <1>1 DEF SemInv
<1>3. SemInv'
  BY <1>1, <1>2 DEF SemInv
<1>4. Moves(t, "out")
  BY <1>1, <1>2 DEF Moves, Sem!Phase
<1>5. SemPhase(t) \in {"granted", "failed"}
  BY <1>1 DEF SemPhase, Sem!Phase
<1>6. Tokens!Return(t)
  BY <1>1, <1>4, <1>5, SemMoves DEF Tokens!Return
<1> QED
  BY <1>3, <1>6 DEF SemKept, Tokens!ResettableNext, Tokens!Next

LEMMA SemRelease ==
  ASSUME kind = "semaphore", kind' = "semaphore", SemInv, Sem!rt_sem_release
  PROVE  SemKept
<1>1. Waiting(th) \in Seq(Threads) /\ th \in ThreadRecords
  BY DEF SemInv, Calm, ThreadRecords, Waiting, Queues
<1>2. CASE Waiting(th) # <<>>
  <2>1. th' = rt_thread_resume(th, Head(Waiting(th))) /\ obj' = obj /\ pc' = pc
    BY <1>2, SemSame DEF Sem!rt_sem_release, Sem!WakeFirst, Sem!_ipc_list_resume, Waiting
  <2>2. PICK t \in Threads : t = Head(Waiting(th)) /\ th.stat[t] = "suspend"
    BY <1>1, <1>2, TailElements DEF SemInv, Calm
  <2>3. Wakes(th, th', t, "ok")
    BY <1>1, <2>1, <2>2, ResumeWakes DEF SemInv, Calm
  <2>4. /\ Calm(th') /\ (PrioFlag => Sorted(th'))
        /\ \A u \in Threads : th'.stat[u] = "suspend" => pc[u] = "wait"
        /\ Moves(t, "granted")
    BY <2>1, <2>2, <2>3, SemWakes DEF Errors
  <2>5. SemInv'
    BY <2>1, <2>4 DEF SemInv
  <2>6. SemPhase(t) = "waiting" /\ t \in Tokens!Waiters("semaphore")
    BY <2>2, SemWaiters DEF SemInv, SemPhase, Sem!Phase
  <2>7. Tokens!Grant(t, "semaphore")
    <3>1. "granted" # "out" /\ SemPhase(t) # "out" /\ obj' = obj
      BY <2>1, <2>6
    <3> QED
      BY <2>4, <2>6, <3>1, SemMoves DEF Tokens!Grant
  <2> QED
    BY <2>5, <2>7 DEF SemKept, Tokens!ResettableNext, Tokens!Next
<1>3. CASE Waiting(th) = <<>> /\ obj < SemMax
  <2>1. UNCHANGED <<th, pc>> /\ obj' = obj + 1
    BY <1>3 DEF Sem!rt_sem_release, Sem!WakeFirst, Waiting
  <2>2. obj' \in 0 .. SemMax
    BY <1>3, <2>1, ObjectsAssumption DEF SemInv
  <2>3. SemInv' /\ Stays
    BY <2>1, <2>2 DEF SemInv, Stays, Sem!Phase
  <2>4. Tokens!Waiters("semaphore") = {}
    BY <1>3, SemWaiters DEF Contains
  <2>5. Tokens!Count("semaphore")
    BY <1>3, <2>1, <2>3, <2>4, SemStays DEF Tokens!Count
  <2> QED
    BY <2>3, <2>5 DEF SemKept, Tokens!ResettableNext, Tokens!Next
<1>4. CASE Waiting(th) = <<>> /\ ~(obj < SemMax)
  BY <1>4, SemQuiet DEF Sem!rt_sem_release, Sem!WakeFirst, Waiting
<1> QED
  BY <1>2, <1>3, <1>4

\* rt_sem_init, rt_sem_create and rt_sem_control set the value.
LEMMA SemSets ==
  ASSUME kind = "semaphore", kind' = "semaphore", SemInv, NEW v \in Int,
         Sem!rt_sem_init(v) \/ Sem!rt_sem_create(v) \/ Sem!rt_sem_control(v)
  PROVE  SemKept
<1>1. th \in ThreadRecords /\ Calm(th)
  BY DEF SemInv, Calm
<1>2. PICK x \in 0 .. SemMax : obj' = x
  <2>1. obj' = v % (SemMax + 1)
    BY DEF Sem!rt_sem_init, Sem!rt_sem_create, Sem!rt_sem_control
  <2>2. v % (SemMax + 1) \in 0 .. SemMax
    BY ObjectsAssumption
  <2> QED
    BY <2>1, <2>2
<1>3. /\ pc' = pc
      /\ \/ UNCHANGED th /\ \A t \in Threads : pc[t] = "run"
         \/ WakesAll(th, th')
  <2>1. CASE Sem!rt_sem_init(v) \/ Sem!rt_sem_create(v)
    BY <2>1 DEF Sem!rt_sem_init, Sem!rt_sem_create, Sem!SetUp
  <2>2. CASE Sem!rt_sem_control(v)
    BY <1>1, <2>2, SemSame, ResumeAllWakes DEF Sem!rt_sem_control
  <2> QED
    BY <2>1, <2>2
<1>4. \A t \in Threads :
        /\ th'.stat[t] = "ready"
        /\ Sem!Phase(t)' = IF th.stat[t] = "suspend" THEN "failed" ELSE Sem!Phase(t)
  <2>1. CASE UNCHANGED th /\ \A t \in Threads : pc[t] = "run"
    <3>1. \A t \in Threads : th.stat[t] = "ready"
      BY <1>1, <2>1 DEF SemInv, ThreadRecords
    <3> QED
      BY <1>3, <2>1, <3>1 DEF Sem!Phase
  <2>2. CASE WakesAll(th, th')
    <3>1. \A t \in Threads :
            /\ th'.stat[t] = "ready"
            /\ th'.err[t] = IF th.stat[t] = "suspend" THEN "error" ELSE th.err[t]
      BY <1>1, <2>2 DEF WakesAll, Calm, ThreadRecords
    <3>2. \A t \in Threads : th.stat[t] = "suspend" => pc[t] = "wait"
      BY DEF SemInv
    <3> QED
      BY <1>3, <3>1, <3>2 DEF Sem!Phase
  <2> QED
    BY <1>3, <2>1, <2>2
<1>5. SemInv'
  <2>1. Calm(th') /\ (PrioFlag => Sorted(th'))
    BY <1>1, <1>3, WakesAllCalm DEF SemInv
  <2> QED
    BY <1>2, <1>3, <1>4, <2>1 DEF SemInv
<1>6. \A t \in Threads :
        /\ SemPhase(t)' = IF th.stat[t] = "suspend" THEN "failed" ELSE SemPhase(t)
        /\ th.stat[t] = "suspend" => SemPhase(t) = "waiting"
  BY <1>4 DEF SemPhase, Sem!Phase, SemInv
<1>7. Tokens!SetValue("semaphore", x)
  <2>1. [t \in Threads |-> SemPhase(t)]' =
          [t \in Threads |-> IF t \in Tokens!Waiters("semaphore") THEN "failed"
                             ELSE [u \in Threads |-> SemPhase(u)][t]]
    BY <1>6, SemWaiters
  <2>2. [t \in Threads |-> IF SemPhase(t) = "out" THEN None ELSE "semaphore"]' =
          [t \in Threads |-> IF SemPhase(t) = "out" THEN None ELSE "semaphore"]
    BY <1>6
  <2> QED
    BY <1>2, <2>1, <2>2 DEF Tokens!SetValue
<1> QED
  BY <1>5, <1>7 DEF SemKept, Tokens!ResettableNext

LEMMA SemNext ==
  ASSUME kind = "semaphore", kind' = "semaphore", SemInv, Sem!Next
  PROVE  SemKept
<1>1. Waiting(th) \in Seq(Threads) /\ th.wait["senders"] = <<>> /\ th \in ThreadRecords
  BY DEF SemInv, Calm, ThreadRecords, Waiting, Queues
<1>2. CASE Sem!rt_sem_detach \/ Sem!rt_sem_delete
  BY <1>2, SemQuiet DEF Sem!rt_sem_detach, Sem!rt_sem_delete, Sem!BeginClose
<1>3. CASE (Sem!CloseStep \/ Sem!CloseEnd) /\ UNCHANGED obj
  <2>1. /\ UNCHANGED <<pc, obj>>
        /\ \/ UNCHANGED th
           \/ Waiting(th) # <<>> /\ th' = FailFirst(th, Head(Waiting(th)))
    BY <1>1, <1>3, SemSame DEF Sem!CloseStep, Sem!CloseTest, Sem!CloseTurn, Sem!CloseEnd, Waiting
  <2>2. CASE UNCHANGED th
    BY <2>1, <2>2, SemQuiet
  <2>3. CASE Waiting(th) # <<>> /\ th' = FailFirst(th, Head(Waiting(th)))
    <3>1. PICK t \in Threads : t = Head(Waiting(th)) /\ th.stat[t] = "suspend"
      BY <1>1, <2>3, TailElements DEF SemInv, Calm
    <3>2. Wakes(th, th', t, "error")
      BY <1>1, <2>3, <3>1, FailFirstWakes
    <3> QED
      BY <2>1, <3>1, <3>2, SemFails DEF Errors
  <2> QED
    BY <2>1, <2>2, <2>3
<1>4. ASSUME NEW t \in Threads, Sem!_thread_timeout(t), UNCHANGED obj
      PROVE  SemKept
  <2>1. /\ t \in th.armed /\ th' = [rt_thread_resume(th, t) EXCEPT !.err[t] = "timeout"]
        /\ UNCHANGED <<pc, obj>>
    BY <1>4, SemSame DEF Sem!_thread_timeout
  <2>2. Wakes(th, th', t, "timeout") /\ th.stat[t] = "suspend"
    BY <1>1, <2>1, TimeoutWakes DEF SemInv, Calm
  <2> QED
    BY <2>1, <2>2, SemFails DEF Errors
<1>5. ASSUME NEW v \in 0 .. SemMax + 1,
             Sem!rt_sem_init(v) \/ Sem!rt_sem_create(v) \/ Sem!rt_sem_control(v)
      PROVE  SemKept
  BY <1>5, SemSets
<1>6. ASSUME NEW t \in Threads, Sem!TakeReturn(t) \/ \E p \in Waits : Sem!TakeWait(t, p)
      PROVE  SemKept
  BY <1>6, SemTakeReturn, SemTakeWait
<1> QED
  BY <1>2, <1>3, <1>4, <1>5, <1>6, SemTakeNow, SemRelease DEF Sem!Next

LEMMA SemInit == Sem!Init => SemInv
<1> SUFFICES ASSUME Sem!Init
             PROVE  SemInv
  OBVIOUS
<1>1. /\ th.stat = [t \in Threads |-> "ready"] /\ th.err = [t \in Threads |-> "ok"]
      /\ th.armed = {} /\ th.wait = [q \in Queues |-> <<>>]
      /\ th \in ThreadRecords /\ pc = [t \in Threads |-> "run"] /\ obj = 0
  BY IpcAssumption DEF Sem!Init, Sem!IpcInit, Queues, Sem!Queues, ThreadRecords, Errors
<1>2. Waiting(th) = <<>> /\ th.wait["senders"] = <<>> /\ \A t : ~Contains(<<>>, t)
  BY <1>1 DEF Waiting, Queues, Contains
<1>3. Calm(th)
  BY <1>1, <1>2 DEF Calm, IsInjective
<1> QED
  BY <1>1, <1>2, <1>3, ObjectsAssumption DEF SemInv, Sorted, InOrder

\* The abstract semaphore stands still while the object is of another kind.
LEMMA OtherKinds ==
  ASSUME kind # "semaphore", kind' = kind
  PROVE  UNCHANGED Tokens!vars
<1>1. \A t \in Threads : SemPhase(t) = "out" /\ SemPhase(t)' = "out"
  BY DEF SemPhase
<1> QED
  BY <1>1 DEF Tokens!vars

\* The strengthened invariant of a semaphore, for any number of threads and tokens, up
\* to a destruction that takes the semaphore for a thread.
THEOREM SemInvariance == Spec => [](kind = "semaphore" => SemInv)
<1>1. Init => (kind = "semaphore" => SemInv)
  BY SemInit DEF Init
<1>2. (kind = "semaphore" => SemInv) /\ [Next]_vars => (kind = "semaphore" => SemInv)'
  <2> SUFFICES ASSUME kind = "semaphore" => SemInv, [Next]_vars, kind' = "semaphore"
               PROVE  SemInv'
    OBVIOUS
  <2>1. kind = "semaphore"
    BY DEF Next, vars
  <2>2. CASE Next
    BY <2>1, <2>2, SemNext DEF Next, SemKept
  <2>3. CASE UNCHANGED vars
    BY <2>1, <2>3, SemQuiet DEF vars, ipcVars, SemKept
  <2> QED
    BY <2>2, <2>3
<1> QED
  BY <1>1, <1>2, PTL DEF Spec

\* A semaphore that is reset while threads wait for it, or whose destruction fails them
\* one by one beside their timeouts, implements the abstract one: every step is a step of
\* that, or none at all.  A destruction that takes the semaphore for a thread ends the
\* behaviour: nothing is claimed of what follows.
THEOREM SemaphoreImplementedCorrect == Spec => SemaphoreImplemented
<1>1. (kind = "semaphore" => SemInv) /\ [Next]_vars => [Tokens!ResettableNext]_Tokens!vars
  <2> SUFFICES ASSUME kind = "semaphore" => SemInv, [Next]_vars
               PROVE  [Tokens!ResettableNext]_Tokens!vars
    OBVIOUS
  <2>1. kind' = kind
    BY DEF Next, vars
  <2>2. CASE kind # "semaphore"
    BY <2>1, <2>2, OtherKinds
  <2>3. CASE kind = "semaphore" /\ Next
    BY <2>1, <2>3, SemNext DEF Next, SemKept
  <2>4. CASE kind = "semaphore" /\ UNCHANGED vars
    BY <2>1, <2>4, SemQuiet DEF vars, ipcVars, SemKept
  <2> QED
    BY <2>2, <2>3, <2>4
<1>2. Init => Tokens!Init
  <2> SUFFICES ASSUME Init
               PROVE  Tokens!Init
    OBVIOUS
  <2>1. /\ \A t \in Threads : SemPhase(t) = "out"
        /\ kind = "semaphore" => obj = 0
    BY DEF Init, SemPhase, Sem!Phase, Sem!Init, Sem!IpcInit
  <2> QED
    BY <2>1 DEF Tokens!Init
<1> QED
  BY <1>1, <1>2, SemInvariance, PTL DEF Spec, SemaphoreImplemented, Tokens!ResettableSpec

-----------------------------------------------------------------------------
(* Events: the loop of rt_event_send.                                      *)

AskRecords == [bits : SUBSET Bits, all : BOOLEAN, clear : BOOLEAN]
Visits == [set : SUBSET Bits, call : [Threads -> AskRecords], th : ThreadRecords]

LEMMA EventCalls ==
  /\ \A r, t : Event!rt_thread_resume(r, t) = rt_thread_resume(r, t)
  /\ \A r, t : Event!FailFirst(r, t) = FailFirst(r, t)
  /\ \A q, t, key : Event!InsertSorted(q, t, key) = InsertSorted(q, t, key)
  /\ \A r, q : Event!_ipc_list_resume_all(r, q) = _ipc_list_resume_all(r, q)
<1>1. \A q, t : Event!Unlink(q, t) = Unlink(q, t)
  BY DEF Event!Unlink, Unlink, Event!Contains, Contains, Event!RemoveAt, RemoveAt
<1>2. \A r, t : Event!rt_thread_resume(r, t) = rt_thread_resume(r, t)
  BY <1>1 DEF Event!rt_thread_resume, rt_thread_resume, Event!Queues, Queues
<1>3. \A r, t : Event!FailFirst(r, t) = FailFirst(r, t)
  BY <1>2 DEF Event!FailFirst, FailFirst
<1>4. \A q, t, key : Event!InsertSorted(q, t, key) = InsertSorted(q, t, key)
  BY DEF Event!InsertSorted, Event!FirstLater, Event!InsertAt, InsertSorted, FirstLater, InsertAt
<1>5. \A r, q : Event!_ipc_list_resume_all(r, q) = _ipc_list_resume_all(r, q)
  BY DEF Event!_ipc_list_resume_all, _ipc_list_resume_all, Event!Range, Range
<1> QED
  BY <1>2, <1>3, <1>4, <1>5

\* v is what the loop has made of the threads r, of the fields c of their calls and of
\* the flags s when it has visited the first i of those who wait, and answered G.
Visited(r, c, s, i, v, G) ==
  /\ v \in Visits
  /\ Calm(v.th) /\ (PrioFlag => Sorted(v.th))
  /\ v.th.err = r.err
  /\ \A t \in G : \E j \in 1 .. i : Waiting(r)[j] = t
  /\ \A t \in Threads : v.th.stat[t] = IF t \in G THEN "ready" ELSE r.stat[t]
  /\ \A t \in Threads \ G : v.call[t] = c[t]
  /\ \A t \in G : /\ v.call[t].bits \subseteq c[t].bits \cap s
                  /\ Event!Matches(c[t], v.call[t].bits)
  /\ \A t, u \in G : t # u /\ c[t].clear /\ c[u].clear => v.call[t].bits \cap v.call[u].bits = {}
  /\ \A x : x \in v.set <=> x \in s /\ \A t \in G : ~(c[t].clear /\ x \in v.call[t].bits)
  /\ \A j \in 1 .. i : Waiting(r)[j] \notin G => ~Event!Matches(c[Waiting(r)[j]], v.set)

\* What a visit that answers t makes of the state.
GivenFlags(v, t) == v.call[t].bits \cap v.set
Answered(v, t, w) ==
  /\ w \in Visits
  /\ Wakes(v.th, w.th, t, v.th.err[t])
  /\ w.set = IF v.call[t].clear THEN v.set \ GivenFlags(v, t) ELSE v.set
  /\ w.call[t].bits = GivenFlags(v, t)
  /\ \A u \in Threads : u # t => w.call[u] = v.call[u]

LEMMA VisitAnswers ==
  ASSUME NEW v \in Visits, NEW t \in Threads, Event!Matches(v.call[t], v.set)
  PROVE  Answered(v, t, Event!Visit(v, t))
<1> DEFINE e == GivenFlags(v, t)
           w == Event!Visit(v, t)
<1>1. PICK c, s, h : c = v.call /\ s = v.set /\ h = rt_thread_resume(v.th, t)
  OBVIOUS
<1>2. PICK c2, s2 : /\ c2 = [c EXCEPT ![t].bits = e]
                    /\ s2 = IF c[t].clear THEN s \ e ELSE s
  OBVIOUS
<1>3. w = [v EXCEPT !.call = c2, !.set = s2, !.th = h]
  BY <1>1, <1>2, EventCalls DEF Event!Visit, Visits, GivenFlags
<1> HIDE DEF w
<1>4. v.th \in ThreadRecords /\ c \in [Threads -> AskRecords] /\ s \in SUBSET Bits
  BY <1>1 DEF Visits
<1>5. Wakes(v.th, h, t, v.th.err[t]) /\ h \in ThreadRecords
  BY <1>1, <1>4, ResumeWakes DEF Wakes
<1>6. e \in SUBSET Bits /\ s2 \in SUBSET Bits
  BY <1>1, <1>2, <1>4 DEF GivenFlags
<1> HIDE DEF e
<1>7. /\ c2 \in [Threads -> AskRecords] /\ c2[t].bits = e
      /\ \A u \in Threads : u # t => c2[u] = c[u]
  BY <1>2, <1>4, <1>6 DEF AskRecords
<1>8. w \in Visits /\ w.th = h /\ w.set = s2 /\ w.call = c2
  BY <1>3, <1>5, <1>6, <1>7 DEF Visits
<1>9. Answered(v, t, w)
  BY <1>1, <1>2, <1>5, <1>7, <1>8 DEF Answered, e
<1> QED
  BY <1>9 DEF w

LEMMA VisitMore ==
  ASSUME NEW r, Calm(r), NEW c, NEW s, NEW i \in Nat, i + 1 \in 1 .. Len(Waiting(r)),
         NEW v, NEW G, Visited(r, c, s, i, v, G), NEW w, w = Event!Visit(v, Waiting(r)[i + 1])
  PROVE  \E H : Visited(r, c, s, i + 1, w, H)
<1>1. PICK q \in Seq(Threads) : q = Waiting(r)
  BY DEF Calm, ThreadRecords, Waiting, Queues
<1>2. IsInjective(q) /\ i + 1 \in 1 .. Len(q) /\ Len(q) \in Nat
  BY <1>1 DEF Calm
<1>3. PICK t \in Threads : t = q[i + 1]
  BY <1>1, <1>2
<1>4. (\A j \in 1 .. i : j \in 1 .. i + 1) /\ \A j \in 1 .. i + 1 : j \in 1 .. i \/ j = i + 1
  OBVIOUS
<1>5. t \notin G
  <2>1. \A j \in 1 .. i : q[j] # q[i + 1]
    BY <1>2 DEF IsInjective
  <2> QED
    BY <1>1, <1>3, <2>1 DEF Visited
<1>6. v.call[t] = c[t] /\ v.th.stat[t] = "suspend" /\ v \in Visits
  <2>1. Contains(q, t)
    BY <1>2, <1>3 DEF Contains
  <2> QED
    BY <1>1, <1>3, <1>5, <2>1 DEF Visited, Calm
<1>7. CASE ~Event!Matches(c[t], v.set)
  <2>1. w = v
    BY <1>1, <1>3, <1>6, <1>7 DEF Event!Visit
  <2>2. \A j \in 1 .. i + 1 : q[j] \notin G => ~Event!Matches(c[q[j]], v.set)
    BY <1>1, <1>3, <1>4, <1>7 DEF Visited
  <2>3. \A u \in G : \E j \in 1 .. i + 1 : q[j] = u
    BY <1>1, <1>4 DEF Visited
  <2>4. Visited(r, c, s, i + 1, v, G)
    BY <1>1, <2>2, <2>3 DEF Visited
  <2> QED
    BY <2>1, <2>4
<1>8. CASE Event!Matches(c[t], v.set)
  <2>1. PICK e, b : e = c[t].bits \cap v.set /\ b = w.call
    OBVIOUS
  <2>2. /\ w \in Visits /\ Wakes(v.th, w.th, t, v.th.err[t])
        /\ w.set = IF c[t].clear THEN v.set \ e ELSE v.set
        /\ b[t].bits = e /\ \A u \in Threads : u # t => b[u] = v.call[u]
    <3>1. w = Event!Visit(v, t) /\ e = GivenFlags(v, t)
      BY <1>1, <1>3, <1>6, <2>1 DEF GivenFlags
    <3>2. Event!Matches(v.call[t], v.set)
      BY <1>6, <1>8
    <3>3. Answered(v, t, w)
      BY <1>6, <3>1, <3>2, VisitAnswers
    <3> QED
      BY <1>6, <2>1, <3>1, <3>3 DEF Answered
  <2>3. /\ Calm(w.th) /\ (PrioFlag => Sorted(w.th))
        /\ w.th.err = v.th.err
        /\ \A u \in Threads : w.th.stat[u] = IF u = t THEN "ready" ELSE v.th.stat[u]
    <3>1. v.th \in ThreadRecords /\ Calm(v.th) /\ v.th.err[t] \in Errors
      BY <1>6 DEF Visits, ThreadRecords, Visited
    <3>2. [v.th.err EXCEPT ![t] = v.th.err[t]] = v.th.err
      BY <3>1 DEF ThreadRecords
    <3>3. Calm(w.th) /\ (Sorted(v.th) => Sorted(w.th))
      BY <2>2, <3>1, WakesCalm
    <3> QED
      BY <2>2, <3>1, <3>2, <3>3 DEF Wakes, ThreadRecords, Visited
  <2>4. PICK H : H = G \cup {t}
    OBVIOUS
  <2>5. \A u \in H : \E j \in 1 .. i + 1 : q[j] = u
    BY <1>1, <1>3, <1>4, <2>4, <1>2 DEF Visited
  <2>6. /\ \A u \in Threads : w.th.stat[u] = IF u \in H THEN "ready" ELSE r.stat[u]
        /\ \A u \in Threads \ H : b[u] = c[u]
        /\ H \subseteq Threads /\ G \subseteq Threads
    <3>1. G \subseteq Threads
      <4>1. \A j \in 1 .. i : q[j] \in Threads
        BY <1>1, <1>2
      <4> QED
        BY <1>1, <4>1 DEF Visited
    <3> QED
      BY <2>2, <2>3, <2>4, <3>1 DEF Visited
  <2>7. \A u \in G : b[u] = v.call[u]
    BY <1>5, <2>2, <2>6
  <2>8. \A u \in H : b[u].bits \subseteq c[u].bits \cap s /\ Event!Matches(c[u], b[u].bits)
    <3>1. v.set \subseteq s
      BY DEF Visited
    <3>2. Event!Matches(c[t], e)
      BY <1>8, <2>1 DEF Event!Matches
    <3>3. b[t].bits \subseteq c[t].bits \cap s /\ Event!Matches(c[t], b[t].bits)
      BY <2>1, <2>2, <3>1, <3>2
    <3>4. \A u \in G : b[u].bits \subseteq c[u].bits \cap s /\ Event!Matches(c[u], b[u].bits)
      BY <2>7 DEF Visited
    <3> QED
      BY <2>4, <3>3, <3>4
  <2>9. \A u \in G : c[u].clear => b[u].bits \cap v.set = {}
    BY <2>7 DEF Visited
  <2>10. \A u, x \in H : u # x /\ c[u].clear /\ c[x].clear => b[u].bits \cap b[x].bits = {}
    <3>1. e \subseteq v.set
      BY <2>1
    <3> QED
      BY <2>2, <2>4, <2>7, <2>9, <3>1 DEF Visited
  <2>11. \A x : x \in w.set <=> x \in s /\ \A u \in H : ~(c[u].clear /\ x \in b[u].bits)
    BY <2>2, <2>4, <2>7 DEF Visited
  <2>12. \A j \in 1 .. i + 1 : q[j] \notin H => ~Event!Matches(c[q[j]], w.set)
    <3>1. w.set \subseteq v.set
      BY <2>2
    <3>2. \A a : ~Event!Matches(a, v.set) => ~Event!Matches(a, w.set)
      BY <3>1 DEF Event!Matches
    <3>3. \A j \in 1 .. i : q[j] \notin G => ~Event!Matches(c[q[j]], v.set)
      BY <1>1 DEF Visited
    <3> QED
      BY <1>3, <1>4, <2>4, <3>2, <3>3
  <2>13. Visited(r, c, s, i + 1, w, H)
    <3>1. w.th.err = r.err
      BY <2>3 DEF Visited
    <3>2. /\ w \in Visits /\ Calm(w.th) /\ (PrioFlag => Sorted(w.th))
          /\ \A u \in H : \E j \in 1 .. i + 1 : Waiting(r)[j] = u
          /\ \A j \in 1 .. i + 1 : Waiting(r)[j] \notin H => ~Event!Matches(c[Waiting(r)[j]], w.set)
      BY <1>1, <2>2, <2>3, <2>5, <2>12
    <3>3. \A u \in H : w.call[u].bits \subseteq c[u].bits \cap s /\ Event!Matches(c[u], w.call[u].bits)
      BY <2>1, <2>8
    <3>4. \A u, x \in H : u # x /\ c[u].clear /\ c[x].clear => w.call[u].bits \cap w.call[x].bits = {}
      BY <2>1, <2>10
    <3>5. \A x : x \in w.set <=> x \in s /\ \A u \in H : ~(c[u].clear /\ x \in w.call[u].bits)
      BY <2>1, <2>11
    <3> QED
      BY <2>1, <2>6, <3>1, <3>2, <3>3, <3>4, <3>5 DEF Visited
  <2> QED
    BY <2>13
<1> QED
  BY <1>7, <1>8

\* w holds the states between the visits of the first n threads of q.
VisitSteps(w, m, q, n) ==
  /\ w = [i \in 0 .. n |-> w[i]]
  /\ \A i \in 0 .. n : w[i] = IF i = 0 THEN m ELSE Event!Visit(w[i - 1], q[i])

LEMMA VisitsExist ==
  ASSUME NEW m, NEW q, NEW n \in Nat
  PROVE  \E w : VisitSteps(w, m, q, n)
<1> DEFINE Steps(w, k) == VisitSteps(w, m, q, k)
           B == {k \in Nat : \A w : ~Steps(w, k)}
<1>1. B = {}
  <2> SUFFICES ASSUME B # {}
               PROVE  FALSE
    OBVIOUS
  <2>1. B \subseteq Nat
    OBVIOUS
  <2>2. PICK k \in B : \A j \in B : k <= j
    BY <2>1, LeastNatural
  <2>3. CASE k = 0
    <3> DEFINE w == [i \in 0 .. 0 |-> m]
    <3>1. Steps(w, 0)
      BY DEF VisitSteps
    <3> HIDE DEF w, Steps
    <3> QED
      BY <2>2, <2>3, <3>1
  <2>4. CASE k # 0
    <3>1. k - 1 \in Nat /\ k - 1 \notin B
      BY <2>2, <2>4
    <3>2. PICK v : Steps(v, k - 1)
      BY <3>1
    <3>3. PICK z : z = Event!Visit(v[k - 1], q[k])
      OBVIOUS
    <3> DEFINE w == [i \in 0 .. k |-> IF i = k THEN z ELSE v[i]]
    <3>4. \A i \in 0 .. k : w[i] = IF i = 0 THEN m ELSE Event!Visit(w[i - 1], q[i])
      <4> SUFFICES ASSUME NEW i \in 0 .. k
                   PROVE  w[i] = IF i = 0 THEN m ELSE Event!Visit(w[i - 1], q[i])
        OBVIOUS
      <4>1. CASE i = k
        <5>1. w[i] = z /\ w[i - 1] = v[k - 1] /\ i # 0
          BY <2>4, <3>1, <4>1
        <5> HIDE DEF w
        <5> QED
          BY <3>3, <4>1, <5>1
      <4>2. CASE i # k
        <5>1. i \in 0 .. k - 1 /\ w[i] = v[i] /\ (i # 0 => i - 1 \in 0 .. k - 1 /\ w[i - 1] = v[i - 1])
          BY <3>1, <4>2
        <5>2. v[i] = IF i = 0 THEN m ELSE Event!Visit(v[i - 1], q[i])
          BY <3>2, <5>1 DEF VisitSteps
        <5> HIDE DEF w, Steps
        <5> QED
          BY <5>1, <5>2
      <4> QED
        BY <4>1, <4>2
    <3>5. w = [i \in 0 .. k |-> w[i]]
      OBVIOUS
    <3> HIDE DEF w
    <3>6. Steps(w, k)
      BY <3>4, <3>5 DEF VisitSteps
    <3> HIDE DEF Steps
    <3> QED
      BY <2>2, <3>6
  <2> QED
    BY <2>3, <2>4
<1>2. n \notin B
  BY <1>1
<1> QED
  BY <1>2

\* The whole loop.
LEMMA VisitAllShape ==
  ASSUME NEW r, Calm(r), PrioFlag => Sorted(r), NEW c \in [Threads -> AskRecords],
         NEW s \in SUBSET Bits, NEW v, v = [set |-> s, call |-> c, th |-> r],
         NEW w, w = Event!VisitAll(v, Waiting(r))
  PROVE  \E G : Visited(r, c, s, Len(Waiting(r)), w, G)
<1>1. PICK q \in Seq(Threads) : q = Waiting(r)
  BY DEF Calm, ThreadRecords, Waiting, Queues
<1>2. PICK n \in Nat : n = Len(q)
  OBVIOUS
<1> DEFINE after == CHOOSE f : f = [i \in 0 .. n |->
                                      IF i = 0 THEN v ELSE Event!Visit(f[i - 1], q[i])]
<1>3. w = after[n]
  BY <1>1, <1>2 DEF Event!VisitAll
<1>4. after = [i \in 0 .. n |-> IF i = 0 THEN v ELSE Event!Visit(after[i - 1], q[i])]
  <2>1. PICK f : VisitSteps(f, v, q, n)
    BY VisitsExist
  <2>2. f = [i \in 0 .. n |-> IF i = 0 THEN v ELSE Event!Visit(f[i - 1], q[i])]
    BY <2>1 DEF VisitSteps
  <2> QED
    BY <2>2, Zenon
<1> HIDE DEF after
<1>5. \A i \in 0 .. n : after[i] = IF i = 0 THEN v ELSE Event!Visit(after[i - 1], q[i])
  <2> DEFINE f == [i \in 0 .. n |-> IF i = 0 THEN v ELSE Event!Visit(after[i - 1], q[i])]
  <2>1. \A i \in 0 .. n : f[i] = IF i = 0 THEN v ELSE Event!Visit(after[i - 1], q[i])
    OBVIOUS
  <2>2. after = f
    BY <1>4
  <2> HIDE DEF f
  <2> QED
    BY <2>1, <2>2
<1> DEFINE B == {i \in 0 .. n : \A G : ~Visited(r, c, s, i, after[i], G)}
<1>6. B = {}
  <2> SUFFICES ASSUME B # {}
               PROVE  FALSE
    OBVIOUS
  <2>1. B \subseteq Nat
    OBVIOUS
  <2>2. PICK i \in B : \A j \in B : i <= j
    BY <2>1, LeastNatural
  <2>3. CASE i = 0
    <3>1. v \in Visits /\ v.th = r /\ v.call = c /\ v.set = s
      BY DEF Visits, Calm
    <3>2. Visited(r, c, s, 0, v, {})
      BY <3>1 DEF Visited
    <3>3. after[0] = v
      BY <1>5
    <3> QED
      BY <2>2, <2>3, <3>2, <3>3
  <2>4. CASE i # 0
    <3>1. PICK j \in Nat : j = i - 1
      BY <2>2, <2>4
    <3>2. i = j + 1 /\ j \in 0 .. n /\ j \notin B /\ j + 1 \in 1 .. Len(Waiting(r))
      BY <1>1, <1>2, <2>2, <2>4, <3>1
    <3>3. PICK G : Visited(r, c, s, j, after[j], G)
      BY <3>2
    <3>4. PICK x, y : x = after[j] /\ y = after[i]
      OBVIOUS
    <3>5. y = Event!Visit(x, Waiting(r)[j + 1])
      BY <1>1, <1>5, <2>4, <3>1, <3>2, <3>4
    <3>6. Visited(r, c, s, j, x, G)
      BY <3>3, <3>4
    <3>7. PICK H : Visited(r, c, s, j + 1, y, H)
      BY <3>2, <3>5, <3>6, VisitMore
    <3> QED
      BY <2>2, <3>2, <3>4, <3>7
  <2> QED
    BY <2>3, <2>4
<1>7. n \in 0 .. n /\ n \notin B
  BY <1>6
<1> QED
  BY <1>1, <1>2, <1>3, <1>7

-----------------------------------------------------------------------------
(* Events: the steps.                                                      *)

\* The types, and the waits: who waits asks for what it was called with.
EvInv ==
  /\ Calm(th) /\ (PrioFlag => Sorted(th))
  /\ pc \in [Threads -> {"run", "wait"}]
  /\ obj \in SUBSET Bits
  /\ call \in [Threads -> AskRecords]
  /\ ghost \in [Threads -> AskRecords]
  /\ \A t \in Threads : th.stat[t] = "suspend" => pc[t] = "wait" /\ call[t] = ghost[t]

\* A step of an event in such a state, and what it does.
EvSteps == kind = "event" /\ kind' = "event" /\ EvInv
EvKept == EvInv' /\ [Flags!Next]_Flags!vars

\* The flags that the receive of t has been given.
GivenTo(t) == IF EventPhase(t) = "granted" THEN call[t].bits ELSE {}

\* The step takes the receive of t to the phase x, with the flags b, and no other.
EvMoves(t, x, b) ==
  \A u \in Threads : /\ Event!Phase(u)' = IF u = t THEN x ELSE Event!Phase(u)
                     /\ GivenTo(u)' = IF u = t THEN b ELSE GivenTo(u)

\* It takes none anywhere.
EvStays == \A u \in Threads : Event!Phase(u)' = Event!Phase(u) /\ GivenTo(u)' = GivenTo(u)

\* What the abstract event is made of.
EvFlags == IF kind = "event" THEN obj ELSE {}
EvPhases == [t \in Threads |-> EventPhase(t)]
EvAsk == IF kind = "event" THEN ghost ELSE [t \in Threads |-> NoAsk]
EvGiven == [t \in Threads |-> IF EventPhase(t) = "granted" THEN call[t].bits ELSE {}]

\* A post that answers G, as EventFlags has it, of flags o, phases p, answers g and
\* questions a, which become o2, p2, g2 and a2.
Posts(G, p, p2, g, g2, a, a2, o, o2, S) ==
  /\ p2 = [t \in Threads |-> IF t \in G THEN "granted" ELSE p[t]]
  /\ \A t \in Threads \ G : g2[t] = g[t]
  /\ \A t \in G : Flags!Answers(g2[t], a[t]) /\ g2[t] \subseteq a[t].bits \cap (o \cup S)
  /\ \A t, u \in G : t # u /\ a[t].clear /\ a[u].clear => g2[t] \cap g2[u] = {}
  /\ o2 = (o \cup S) \ UNION {g2[t] : t \in {x \in G : a[x].clear}}
  /\ \A w \in Flags!Waiting \ G : ~Flags!Answers(o2, a[w])
  /\ a2 = a

LEMMA EvMaps ==
  ASSUME EvSteps, NEW t \in Threads, NEW x, NEW b, EvMoves(t, x, b)
  PROVE  /\ [u \in Threads |-> EventPhase(u)]' = [[u \in Threads |-> EventPhase(u)] EXCEPT ![t] = x]
         /\ [u \in Threads |-> IF EventPhase(u) = "granted" THEN call[u].bits ELSE {}]' =
              [[u \in Threads |-> IF EventPhase(u) = "granted" THEN call[u].bits ELSE {}] EXCEPT ![t] = b]
<1>1. \A u \in Threads : /\ EventPhase(u)' = IF u = t THEN x ELSE EventPhase(u)
                         /\ GivenTo(u)' = IF u = t THEN b ELSE GivenTo(u)
  BY DEF EvMoves, EvSteps, EventPhase
<1>2. [u \in Threads |-> EventPhase(u)]' = [[u \in Threads |-> EventPhase(u)] EXCEPT ![t] = x]
  BY <1>1
<1>3. [u \in Threads |-> GivenTo(u)]' = [[u \in Threads |-> GivenTo(u)] EXCEPT ![t] = b]
  BY <1>1
<1> QED
  BY <1>2, <1>3 DEF GivenTo

LEMMA EvRests ==
  ASSUME EvSteps, EvStays
  PROVE  /\ [u \in Threads |-> EventPhase(u)]' = [u \in Threads |-> EventPhase(u)]
         /\ [u \in Threads |-> IF EventPhase(u) = "granted" THEN call[u].bits ELSE {}]' =
              [u \in Threads |-> IF EventPhase(u) = "granted" THEN call[u].bits ELSE {}]
<1>1. \A u \in Threads : EventPhase(u)' = EventPhase(u) /\ GivenTo(u)' = GivenTo(u)
  BY DEF EvStays, EvSteps, EventPhase
<1>2. [u \in Threads |-> EventPhase(u)]' = [u \in Threads |-> EventPhase(u)]
  BY <1>1
<1>3. [u \in Threads |-> GivenTo(u)]' = [u \in Threads |-> GivenTo(u)]
  BY <1>1
<1> QED
  BY <1>2, <1>3 DEF GivenTo

\* A step that concerns neither the flags nor a receive.
LEMMA EvQuiet ==
  ASSUME EvSteps, EvInv', EvStays, UNCHANGED <<obj, ghost>>
  PROVE  EvKept
<1>1. UNCHANGED Flags!vars
  BY EvRests DEF EvSteps, Flags!vars
<1> QED
  BY <1>1 DEF EvKept

LEMMA EvSame ==
  ASSUME EvSteps, UNCHANGED <<th, pc, obj, call, ghost>>
  PROVE  EvKept
<1>1. EvInv'
  BY DEF EvSteps, EvInv
<1>2. EvStays
  BY DEF EvSteps, EvStays, Event!Phase, GivenTo, EventPhase
<1> QED
  BY <1>1, <1>2, EvQuiet

\* A wait ends with an error: a failure of the abstract event.
LEMMA EvFails ==
  ASSUME EvSteps, NEW t \in Threads, th.stat[t] = "suspend", NEW e \in Errors \ {"ok"},
         Wakes(th, th', t, e), UNCHANGED <<pc, obj, call, ghost>>
  PROVE  EvKept
<1>1. Calm(th') /\ (PrioFlag => Sorted(th'))
  BY WakesCalm DEF EvSteps, EvInv
<1>2. \A u \in Threads : /\ th'.stat[u] = IF u = t THEN "ready" ELSE th.stat[u]
                         /\ th'.err[u] = IF u = t THEN e ELSE th.err[u]
  BY DEF Wakes, EvSteps, EvInv, Calm, ThreadRecords
<1>3. EvInv'
  BY <1>1, <1>2 DEF EvSteps, EvInv
<1>4. pc[t] = "wait" /\ EventPhase(t) = "waiting"
  BY DEF EvSteps, EvInv, EventPhase, Event!Phase
<1>5. EvMoves(t, "failed", GivenTo(t))
  <2>1. \A u \in Threads : Event!Phase(u)' = IF u = t THEN "failed" ELSE Event!Phase(u)
    BY <1>2, <1>4 DEF Event!Phase
  <2>2. GivenTo(t) = {}
    BY <1>4 DEF GivenTo
  <2>3. \A u \in Threads : GivenTo(u)' = IF u = t THEN GivenTo(t) ELSE GivenTo(u)
    BY <2>1, <2>2 DEF GivenTo, EventPhase, EvSteps
  <2> QED
    BY <2>1, <2>3 DEF EvMoves
<1>6. Flags!Fail(t)
  <2>1. UNCHANGED [u \in Threads |-> IF EventPhase(u) = "granted" THEN call[u].bits ELSE {}]
    <3>1. \A u \in Threads : GivenTo(u)' = GivenTo(u)
      BY <1>5 DEF EvMoves
    <3>2. UNCHANGED [u \in Threads |-> GivenTo(u)]
      BY <3>1
    <3> QED
      BY <3>2 DEF GivenTo
  <2> QED
    BY <1>4, <1>5, <2>1, EvMaps DEF Flags!Fail, EvSteps
<1> QED
  BY <1>3, <1>6 DEF EvKept, Flags!Next

LEMMA EvTake ==
  ASSUME EvSteps, NEW t \in Threads, NEW r \in Asks, Event!RecvNow(t, r)
  PROVE  EvKept
<1>1. /\ pc[t] = "run" /\ th.stat[t] = "ready" /\ Event!Matches(r, obj)
      /\ obj' = IF r.clear THEN obj \ r.bits ELSE obj
      /\ th' = [th EXCEPT !.err[t] = "ok"] /\ UNCHANGED <<pc, call, ghost>>
  BY DEF Event!RecvNow, Event!Calls
<1>2. Answers(th, th', t, "ok")
  BY <1>1 DEF EvSteps, EvInv, Calm, ThreadRecords, Answers, Errors
<1>3. Calm(th') /\ (PrioFlag => Sorted(th'))
  BY <1>1, <1>2, AnswersCalm DEF EvSteps, EvInv
<1>4. th'.stat = th.stat /\ \A u \in Threads : u # t => th'.err[u] = th.err[u]
  BY <1>2 DEF Answers, EvSteps, EvInv, Calm, ThreadRecords
<1>5. EvInv'
  BY <1>1, <1>3, <1>4 DEF EvSteps, EvInv
<1>6. EvStays
  <2>1. \A u \in Threads : Event!Phase(u)' = Event!Phase(u)
    BY <1>1, <1>4 DEF Event!Phase
  <2> QED
    BY <1>1, <2>1 DEF EvStays, GivenTo, EventPhase, EvSteps
<1>7. Flags!Take(r)
  BY <1>1, <1>6, EvRests DEF Flags!Take, Flags!Answers, Event!Matches, EvSteps
<1> QED
  BY <1>5, <1>7 DEF EvKept, Flags!Next

LEMMA EvRefuse ==
  ASSUME EvSteps, NEW t \in Threads, NEW r \in Asks, Event!RecvNo(t, r)
  PROVE  EvKept
<1>1. /\ pc[t] = "run" /\ th.stat[t] = "ready"
      /\ th' = [th EXCEPT !.err[t] = "timeout"] /\ UNCHANGED <<pc, obj, call, ghost>>
  BY DEF Event!RecvNo, Event!Calls
<1>2. Answers(th, th', t, "timeout")
  BY <1>1 DEF EvSteps, EvInv, Calm, ThreadRecords, Answers, Errors
<1>3. Calm(th') /\ (PrioFlag => Sorted(th'))
  BY <1>1, <1>2, AnswersCalm DEF EvSteps, EvInv
<1>4. th'.stat = th.stat /\ \A u \in Threads : u # t => th'.err[u] = th.err[u]
  BY <1>2 DEF Answers, EvSteps, EvInv, Calm, ThreadRecords
<1>5. EvInv'
  BY <1>1, <1>3, <1>4 DEF EvSteps, EvInv
<1>6. EvStays
  <2>1. \A u \in Threads : Event!Phase(u)' = Event!Phase(u)
    BY <1>1, <1>4 DEF Event!Phase
  <2> QED
    BY <1>1, <2>1 DEF EvStays, GivenTo, EventPhase, EvSteps
<1> QED
  BY <1>1, <1>5, <1>6, EvQuiet

LEMMA EvWait ==
  ASSUME EvSteps, NEW t \in Threads, NEW a \in Asks, NEW patience, Event!RecvWait(t, a, patience)
  PROVE  EvKept
<1> DEFINE r == [th EXCEPT !.err[t] = "ok"]
<1>1. /\ pc[t] = "run" /\ th.stat[t] = "ready" /\ ~Event!Matches(a, obj)
      /\ th' = Event!Suspend(r, "receivers", t, patience)
      /\ pc' = [pc EXCEPT ![t] = "wait"] /\ obj' = obj
      /\ call' = [call EXCEPT ![t] = a] /\ ghost' = [ghost EXCEPT ![t] = a]
  BY DEF Event!RecvWait, Event!Calls, Event!Goto
<1>2. Answers(th, r, t, "ok")
  BY DEF EvSteps, EvInv, Calm, ThreadRecords, Answers, Errors
<1> HIDE DEF r
<1>3. /\ Calm(r) /\ (PrioFlag => Sorted(r))
      /\ r.stat = th.stat /\ r.err = [th.err EXCEPT ![t] = "ok"]
  BY <1>1, <1>2, AnswersCalm DEF EvSteps, EvInv, Answers
<1>4. r \in ThreadRecords /\ r.err[t] = "ok"
  BY <1>3 DEF Calm, EvSteps, EvInv, ThreadRecords
<1>5. PICK w : w = IF PrioFlag THEN InsertSorted(Waiting(r), t, r.prio) ELSE Append(Waiting(r), t)
  OBVIOUS
<1>6. w = InsertSorted(Waiting(r), t, r.prio) \/ w = Append(Waiting(r), t)
  BY <1>5
<1>7. Event!_ipc_list_suspend(r, "receivers", t) = Listed(r, t, w)
  BY <1>4, <1>5, EventCalls DEF Event!_ipc_list_suspend, Waiting, ThreadRecords, Queues, Listed
<1>8. th' = Listed(r, t, w) \/ th' = Timed(Listed(r, t, w), t)
  BY <1>1, <1>7 DEF Event!Suspend, Timed
<1>9. PICK s : s = th'
  OBVIOUS
<1>10. s = Listed(r, t, w) \/ s = Timed(Listed(r, t, w), t)
  BY <1>8, <1>9
<1>11. Blocks(r, s, t) /\ Waiting(s) = w
  BY <1>4, <1>6, <1>10, SuspendBlocks
<1>12. Calm(s) /\ (PrioFlag => Sorted(s))
  BY <1>1, <1>3, <1>5, <1>11, BlocksCalm
<1>13. a \in AskRecords
  BY ObjectsAssumption DEF AskRecords
<1>14. \A u \in Threads : /\ s.stat[u] = IF u = t THEN "suspend" ELSE th.stat[u]
                          /\ u # t => s.err[u] = th.err[u]
                          /\ pc'[u] = IF u = t THEN "wait" ELSE pc[u]
                          /\ call'[u] = IF u = t THEN a ELSE call[u]
                          /\ ghost'[u] = IF u = t THEN a ELSE ghost[u]
  <2>1. s.stat = [r.stat EXCEPT ![t] = "suspend"] /\ s.err = [r.err EXCEPT ![t] = "ok"]
    BY <1>11 DEF Blocks
  <2> QED
    BY <1>1, <1>3, <2>1 DEF EvSteps, EvInv, Calm, ThreadRecords
<1>15. EvInv'
  BY <1>1, <1>9, <1>12, <1>13, <1>14 DEF EvSteps, EvInv
<1>16. EventPhase(t) = "out" /\ GivenTo(t) = {}
  BY <1>1 DEF EventPhase, Event!Phase, EvSteps, GivenTo
<1>17. \A u \in Threads : /\ Event!Phase(u)' = IF u = t THEN "waiting" ELSE Event!Phase(u)
                          /\ GivenTo(u)' = GivenTo(u)
  <2>1. \A u \in Threads : Event!Phase(u)' = IF u = t THEN "waiting" ELSE Event!Phase(u)
    BY <1>9, <1>14 DEF Event!Phase
  <2> QED
    BY <1>14, <1>16, <2>1 DEF GivenTo, EventPhase, EvSteps
<1>18. EvMoves(t, "waiting", GivenTo(t))
  BY <1>17 DEF EvMoves
<1>19. UNCHANGED [u \in Threads |-> IF EventPhase(u) = "granted" THEN call[u].bits ELSE {}]
  <2>1. UNCHANGED [u \in Threads |-> GivenTo(u)]
    BY <1>17
  <2> QED
    BY <2>1 DEF GivenTo
<1>20. Flags!Wait(t, a)
  BY <1>1, <1>16, <1>18, <1>19, EvMaps DEF Flags!Wait, Flags!Answers, Event!Matches, EvSteps
<1> QED
  BY <1>15, <1>20 DEF EvKept, Flags!Next

LEMMA EvReturn ==
  ASSUME EvSteps, NEW t \in Threads, Event!RecvReturn(t)
  PROVE  EvKept
<1>1. /\ pc[t] = "wait" /\ th.stat[t] = "ready" /\ pc' = [pc EXCEPT ![t] = "run"]
      /\ call' = [call EXCEPT ![t] = NoAsk] /\ ghost' = [ghost EXCEPT ![t] = NoAsk]
      /\ UNCHANGED <<th, obj>>
  BY DEF Event!RecvReturn, Event!Woken, Event!Resumed, Event!Goto
<1>2. \A u \in Threads : /\ pc'[u] = IF u = t THEN "run" ELSE pc[u]
                         /\ call'[u] = IF u = t THEN NoAsk ELSE call[u]
                         /\ ghost'[u] = IF u = t THEN NoAsk ELSE ghost[u]
  BY <1>1 DEF EvSteps, EvInv
<1>3. NoAsk \in AskRecords
  BY DEF NoAsk, AskRecords
<1>4. EvInv'
  BY <1>1, <1>2, <1>3 DEF EvSteps, EvInv
<1>5. EvMoves(t, "out", {})
  <2>1. \A u \in Threads : Event!Phase(u)' = IF u = t THEN "out" ELSE Event!Phase(u)
    BY <1>1, <1>2 DEF Event!Phase
  <2>2. \A u \in Threads : GivenTo(u)' = IF u = t THEN {} ELSE GivenTo(u)
    BY <1>2, <2>1 DEF GivenTo, EventPhase, EvSteps
  <2> QED
    BY <2>1, <2>2 DEF EvMoves
<1>6. EventPhase(t) \in {"granted", "failed"}
  BY <1>1 DEF EventPhase, Event!Phase, EvSteps
<1>7. Flags!Return(t)
  BY <1>1, <1>5, <1>6, EvMaps DEF Flags!Return, EvSteps
<1> QED
  BY <1>4, <1>7 DEF EvKept, Flags!Next

\* rt_event_init, rt_event_create and the reset of rt_event_control.
LEMMA EvSets ==
  ASSUME EvSteps, Event!rt_event_init \/ Event!rt_event_create \/ Event!rt_event_control
  PROVE  EvKept
<1>1. th \in ThreadRecords /\ Calm(th)
  BY DEF EvSteps, EvInv, Calm
<1>2. /\ UNCHANGED <<pc, call, ghost>> /\ obj' = {}
      /\ \/ UNCHANGED th /\ \A t \in Threads : pc[t] = "run"
         \/ WakesAll(th, th')
  <2>1. CASE Event!rt_event_init \/ Event!rt_event_create
    BY <2>1 DEF Event!rt_event_init, Event!rt_event_create, Event!SetUp
  <2>2. CASE Event!rt_event_control
    BY <1>1, <2>2, EventCalls, ResumeAllWakes DEF Event!rt_event_control
  <2> QED
    BY <2>1, <2>2
<1>3. \A t \in Threads :
        /\ th'.stat[t] = "ready"
        /\ Event!Phase(t)' = IF th.stat[t] = "suspend" THEN "failed" ELSE Event!Phase(t)
  <2>1. CASE UNCHANGED th /\ \A t \in Threads : pc[t] = "run"
    <3>1. \A t \in Threads : th.stat[t] = "ready"
      BY <1>1, <2>1 DEF EvSteps, EvInv, ThreadRecords
    <3> QED
      BY <1>2, <2>1, <3>1 DEF Event!Phase
  <2>2. CASE WakesAll(th, th')
    <3>1. \A t \in Threads :
            /\ th'.stat[t] = "ready"
            /\ th'.err[t] = IF th.stat[t] = "suspend" THEN "error" ELSE th.err[t]
      BY <1>1, <2>2 DEF WakesAll, Calm, ThreadRecords
    <3>2. \A t \in Threads : th.stat[t] = "suspend" => pc[t] = "wait"
      BY DEF EvSteps, EvInv
    <3> QED
      BY <1>2, <3>1, <3>2 DEF Event!Phase
  <2> QED
    BY <1>2, <2>1, <2>2
<1>4. EvInv'
  <2>1. Calm(th') /\ (PrioFlag => Sorted(th'))
    BY <1>1, <1>2, WakesAllCalm DEF EvSteps, EvInv
  <2> QED
    BY <1>2, <1>3, <2>1 DEF EvSteps, EvInv
<1>5. \A t \in Threads :
        /\ EventPhase(t)' = IF EventPhase(t) = "waiting" THEN "failed" ELSE EventPhase(t)
        /\ GivenTo(t)' = GivenTo(t)
  <2>1. \A t \in Threads : (th.stat[t] = "suspend") <=> (EventPhase(t) = "waiting")
    BY DEF EvSteps, EvInv, EventPhase, Event!Phase
  <2>2. \A t \in Threads :
          EventPhase(t)' = IF EventPhase(t) = "waiting" THEN "failed" ELSE EventPhase(t)
    BY <1>3, <2>1 DEF EvSteps, EventPhase
  <2> QED
    BY <1>2, <2>2 DEF GivenTo
<1>6. Flags!Reset
  <2>1. [t \in Threads |-> EventPhase(t)]' =
          [t \in Threads |-> IF [u \in Threads |-> EventPhase(u)][t] = "waiting" THEN "failed"
                             ELSE [u \in Threads |-> EventPhase(u)][t]]
    BY <1>5
  <2>2. UNCHANGED [t \in Threads |-> GivenTo(t)]
    BY <1>5
  <2> QED
    BY <1>2, <2>1, <2>2 DEF Flags!Reset, EvSteps, GivenTo
<1> QED
  BY <1>4, <1>6 DEF EvKept, Flags!Next

\* rt_event_send answers some of those who wait, as the abstract event may.
LEMMA EvPost ==
  ASSUME EvSteps, NEW S \in SUBSET Bits, Event!rt_event_send(S)
  PROVE  EvKept
<1>1. /\ Calm(th) /\ (PrioFlag => Sorted(th)) /\ th \in ThreadRecords
      /\ call \in [Threads -> AskRecords] /\ obj \in SUBSET Bits
  BY DEF EvSteps, EvInv, Calm
<1>2. PICK r, c, s : r = th /\ c = call /\ s = obj \cup S
  OBVIOUS
<1>3. PICK w : /\ w = Event!VisitAll([set |-> s, call |-> c, th |-> r], Waiting(r))
               /\ obj' = w.set /\ call' = w.call /\ th' = w.th /\ UNCHANGED <<pc, ghost>>
  BY <1>2 DEF Event!rt_event_send, Waiting
<1>4. PICK q : q = Waiting(r) /\ q \in Seq(Threads)
  BY <1>1, <1>2 DEF ThreadRecords, Waiting, Queues
<1>5. PICK G : Visited(r, c, s, Len(q), w, G)
  BY <1>1, <1>2, <1>3, <1>4, VisitAllShape
<1>6. \A t \in Threads : r.stat[t] = "suspend" => \E j \in 1 .. Len(q) : q[j] = t
  BY <1>1, <1>2, <1>4 DEF Calm, Contains
<1>7. \A t \in G : t \in Threads /\ r.stat[t] = "suspend"
  <2>1. \A j \in 1 .. Len(q) : q[j] \in Threads /\ Contains(q, q[j])
    BY <1>4 DEF Contains
  <2>2. \A j \in 1 .. Len(q) : r.stat[q[j]] = "suspend"
    BY <1>1, <1>2, <1>4, <2>1 DEF Calm
  <2> QED
    BY <1>4, <1>5, <2>1, <2>2 DEF Visited
<1>8. \A t \in Threads : /\ th'.stat[t] = IF t \in G THEN "ready" ELSE th.stat[t]
                         /\ th'.err[t] = th.err[t]
                         /\ t \notin G => call'[t] = call[t]
  BY <1>2, <1>3, <1>5 DEF Visited
<1>9. EvInv'
  <2>1. Calm(th') /\ (PrioFlag => Sorted(th')) /\ obj' \in SUBSET Bits
        /\ call' \in [Threads -> AskRecords]
    BY <1>3, <1>5 DEF Visited, Visits
  <2> QED
    BY <1>3, <1>8, <2>1 DEF EvSteps, EvInv
<1>10. \A t \in Threads : /\ (th.stat[t] = "suspend") <=> (EventPhase(t) = "waiting")
                          /\ EventPhase(t)' = IF t \in G THEN "granted" ELSE EventPhase(t)
                          /\ GivenTo(t)' = IF t \in G THEN call'[t].bits ELSE GivenTo(t)
  <2>1. \A t \in Threads : (th.stat[t] = "suspend") <=> (EventPhase(t) = "waiting")
    BY DEF EvSteps, EvInv, EventPhase, Event!Phase
  <2>2. \A t \in G : pc[t] = "wait" /\ th.err[t] = "ok"
    BY <1>2, <1>7 DEF EvSteps, EvInv, Calm
  <2>3. \A t \in Threads : EventPhase(t)' = IF t \in G THEN "granted" ELSE EventPhase(t)
    BY <1>3, <1>8, <2>2 DEF EvSteps, EventPhase, Event!Phase
  <2> QED
    BY <1>8, <2>1, <2>3 DEF GivenTo
<1>11. PICK f, g, a : /\ f = [t \in Threads |-> EventPhase(t)]
                      /\ g = [t \in Threads |-> IF EventPhase(t) = "granted" THEN call[t].bits ELSE {}]'
                      /\ a = ghost
  OBVIOUS
<1>12. /\ \A t \in Threads : g[t] = IF t \in G THEN w.call[t].bits ELSE GivenTo(t)
       /\ \A t \in G : a[t] = c[t]
  <2>1. g = [t \in Threads |-> GivenTo(t)']
    BY <1>11 DEF GivenTo
  <2> QED
    BY <1>2, <1>3, <1>7, <1>10, <1>11, <2>1 DEF EvSteps, EvInv
<1>13. Flags!Waiting = {t \in Threads : r.stat[t] = "suspend"}
  BY <1>2, <1>10 DEF Flags!Waiting
<1>14. G \in SUBSET Flags!Waiting
  BY <1>7, <1>13
<1>15. [t \in Threads |-> EventPhase(t)]' =
         [t \in Threads |-> IF t \in G THEN "granted" ELSE f[t]]
  BY <1>10, <1>11
<1>16. \A t \in Threads \ G :
         g[t] = [u \in Threads |-> IF EventPhase(u) = "granted" THEN call[u].bits ELSE {}][t]
  BY <1>12 DEF GivenTo
<1>17. \A t \in G : Flags!Answers(g[t], a[t]) /\ g[t] \subseteq a[t].bits \cap s
  BY <1>5, <1>7, <1>12 DEF Visited, Flags!Answers, Event!Matches
<1>18. \A t, u \in G : t # u /\ a[t].clear /\ a[u].clear => g[t] \cap g[u] = {}
  BY <1>5, <1>7, <1>12 DEF Visited
<1>19. obj' = s \ UNION {g[t] : t \in {x \in G : a[x].clear}}
  <2>1. \A x : x \in w.set <=> x \in s /\ \A t \in G : ~(a[t].clear /\ x \in g[t])
    BY <1>5, <1>7, <1>12 DEF Visited
  <2>2. \A x : x \in UNION {g[t] : t \in {y \in G : a[y].clear}} <=> \E t \in G : a[t].clear /\ x \in g[t]
    OBVIOUS
  <2> QED
    BY <1>3, <2>1, <2>2
<1>20. \A t \in Flags!Waiting \ G : ~Flags!Answers(obj', a[t])
  <2> SUFFICES ASSUME NEW t \in Threads, r.stat[t] = "suspend", t \notin G
               PROVE  ~Flags!Answers(obj', a[t])
    BY <1>13
  <2>1. PICK j \in 1 .. Len(q) : q[j] = t
    BY <1>6
  <2>2. a[t] = c[t]
    BY <1>2, <1>11 DEF EvSteps, EvInv
  <2>3. ~Event!Matches(c[t], w.set)
    BY <1>4, <1>5, <2>1 DEF Visited
  <2> QED
    BY <1>3, <2>2, <2>3 DEF Flags!Answers, Event!Matches
<1>21. Flags!Post(S)
  <2>1. Flags!Post(S) <=> \E H \in SUBSET Flags!Waiting : Posts(H, EvPhases, EvPhases', EvGiven,
                                  EvGiven', EvAsk, EvAsk', EvFlags, EvFlags', S)
    BY DEF Flags!Post, Posts, EvPhases, EvGiven, EvAsk, EvFlags
  <2>2. /\ EvPhases = f /\ EvPhases' = [t \in Threads |-> IF t \in G THEN "granted" ELSE f[t]]
        /\ EvGiven' = g /\ \A t \in Threads \ G : EvGiven[t] = g[t]
        /\ EvAsk = a /\ EvAsk' = a /\ EvFlags = obj /\ EvFlags' = obj'
    BY <1>3, <1>11, <1>15, <1>16 DEF EvSteps, EvPhases, EvGiven, EvAsk, EvFlags
  <2>3. Posts(G, EvPhases, EvPhases', EvGiven, EvGiven', EvAsk, EvAsk', EvFlags, EvFlags', S)
    <3>1. PICK g0, o, o2 : g0 = EvGiven /\ o = obj /\ o2 = obj'
      OBVIOUS
    <3>2. PICK p2 : p2 = [t \in Threads |-> IF t \in G THEN "granted" ELSE f[t]]
      OBVIOUS
    <3>3. o2 = (o \cup S) \ UNION {g[t] : t \in {x \in G : a[x].clear}}
      BY <1>2, <1>19, <3>1
    <3>4. \A t \in G : Flags!Answers(g[t], a[t]) /\ g[t] \subseteq a[t].bits \cap (o \cup S)
      BY <1>2, <1>17, <3>1
    <3>5. \A w1 \in Flags!Waiting \ G : ~Flags!Answers(o2, a[w1])
      BY <1>20, <3>1
    <3>6. \A t \in Threads \ G : g[t] = g0[t]
      BY <2>2, <3>1
    <3>7. Posts(G, f, p2, g0, g, a, a, o, o2, S)
      BY <1>18, <3>2, <3>3, <3>4, <3>5, <3>6 DEF Posts
    <3> QED
      BY <2>2, <3>1, <3>2, <3>7
  <2> QED
    BY <1>14, <2>1, <2>3
<1> QED
  BY <1>9, <1>21 DEF EvKept, Flags!Next

LEMMA EvNext ==
  ASSUME EvSteps, Event!Next
  PROVE  EvKept
<1>1. Waiting(th) \in Seq(Threads) /\ th.wait["senders"] = <<>> /\ th \in ThreadRecords
  BY DEF EvSteps, EvInv, Calm, ThreadRecords, Waiting, Queues
<1>2. CASE Event!rt_event_detach \/ Event!rt_event_delete
  BY <1>2, EvSame DEF Event!rt_event_detach, Event!rt_event_delete, Event!BeginClose
<1>3. CASE (Event!CloseStep \/ Event!CloseEnd) /\ UNCHANGED <<obj, call, ghost>>
  <2>1. /\ UNCHANGED <<pc, obj, call, ghost>>
        /\ \/ UNCHANGED th
           \/ Waiting(th) # <<>> /\ th' = FailFirst(th, Head(Waiting(th)))
    BY <1>1, <1>3, EventCalls DEF Event!CloseStep, Event!CloseTest, Event!CloseTurn, Event!CloseEnd, Waiting
  <2>2. CASE UNCHANGED th
    BY <2>1, <2>2, EvSame
  <2>3. CASE Waiting(th) # <<>> /\ th' = FailFirst(th, Head(Waiting(th)))
    <3>1. PICK t \in Threads : t = Head(Waiting(th)) /\ th.stat[t] = "suspend"
      BY <1>1, <2>3, TailElements DEF EvSteps, EvInv, Calm
    <3>2. Wakes(th, th', t, "error")
      BY <1>1, <2>3, <3>1, FailFirstWakes
    <3> QED
      BY <2>1, <3>1, <3>2, EvFails DEF Errors
  <2> QED
    BY <2>1, <2>2, <2>3
<1>4. ASSUME NEW t \in Threads, Event!_thread_timeout(t), UNCHANGED <<obj, call, ghost>>
      PROVE  EvKept
  <2>1. /\ t \in th.armed /\ th' = [rt_thread_resume(th, t) EXCEPT !.err[t] = "timeout"]
        /\ UNCHANGED <<pc, obj, call, ghost>>
    BY <1>4, EventCalls DEF Event!_thread_timeout
  <2>2. Wakes(th, th', t, "timeout") /\ th.stat[t] = "suspend"
    BY <1>1, <2>1, TimeoutWakes DEF EvSteps, EvInv, Calm
  <2> QED
    BY <2>1, <2>2, EvFails DEF Errors
<1>5. ASSUME NEW t \in Threads, NEW r \in Asks,
             Event!RecvNow(t, r) \/ Event!RecvNo(t, r) \/ \E p \in Waits : Event!RecvWait(t, r, p)
      PROVE  EvKept
  BY <1>5, EvTake, EvRefuse, EvWait
<1> QED
  BY <1>2, <1>3, <1>4, <1>5, EvSets, EvPost, EvReturn DEF Event!Next

LEMMA EvInit == Event!Init => EvInv
<1> SUFFICES ASSUME Event!Init
             PROVE  EvInv
  OBVIOUS
<1>1. /\ th.stat = [t \in Threads |-> "ready"] /\ th.err = [t \in Threads |-> "ok"]
      /\ th.armed = {} /\ th.wait = [q \in Queues |-> <<>>]
      /\ th \in ThreadRecords /\ pc = [t \in Threads |-> "run"] /\ obj = {}
      /\ call = [t \in Threads |-> NoAsk] /\ ghost = [t \in Threads |-> NoAsk]
  BY IpcAssumption DEF Event!Init, Event!IpcInit, Queues, Event!Queues, ThreadRecords, Errors
<1>2. Waiting(th) = <<>> /\ th.wait["senders"] = <<>> /\ \A t : ~Contains(<<>>, t)
  BY <1>1 DEF Waiting, Queues, Contains
<1>3. Calm(th)
  BY <1>1, <1>2 DEF Calm, IsInjective
<1>4. NoAsk \in AskRecords
  BY DEF NoAsk, AskRecords
<1> QED
  BY <1>1, <1>2, <1>3, <1>4 DEF EvInv, Sorted, InOrder

\* The abstract event stands still while the object is of another kind.
LEMMA OtherFlags ==
  ASSUME kind # "event", kind' = kind
  PROVE  UNCHANGED Flags!vars
<1>1. \A t \in Threads : EventPhase(t) = "out" /\ EventPhase(t)' = "out"
  BY DEF EventPhase
<1> QED
  BY <1>1 DEF Flags!vars

\* The strengthened invariant of an event, for any flags and any number of threads.
THEOREM EvInvariance == Spec => [](kind = "event" => EvInv)
<1>1. Init => (kind = "event" => EvInv)
  BY EvInit DEF Init
<1>2. (kind = "event" => EvInv) /\ [Next]_vars => (kind = "event" => EvInv)'
  <2> SUFFICES ASSUME kind = "event" => EvInv, [Next]_vars, kind' = "event"
               PROVE  EvInv'
    OBVIOUS
  <2>1. EvSteps
    BY DEF Next, vars, EvSteps
  <2>2. CASE Next
    BY <2>1, <2>2, EvNext DEF Next, EvKept, EvSteps
  <2>3. CASE UNCHANGED vars
    BY <2>1, <2>3, EvSame DEF vars, ipcVars, EvKept
  <2> QED
    BY <2>2, <2>3
<1> QED
  BY <1>1, <1>2, PTL DEF Spec

\* rt_event_send and rt_event_recv implement the abstract event, whatever the flags, the
\* options, the timeouts and the resets, and turn by turn in a destruction, unless that
\* takes the event for a thread, where the behaviour ends.
THEOREM EventImplementedCorrect == Spec => EventImplemented
<1>1. (kind = "event" => EvInv) /\ [Next]_vars => [Flags!Next]_Flags!vars
  <2> SUFFICES ASSUME kind = "event" => EvInv, [Next]_vars
               PROVE  [Flags!Next]_Flags!vars
    OBVIOUS
  <2>1. kind' = kind
    BY DEF Next, vars
  <2>2. CASE kind # "event"
    BY <2>1, <2>2, OtherFlags
  <2>3. CASE kind = "event" /\ Next
    BY <2>1, <2>3, EvNext DEF Next, EvKept, EvSteps
  <2>4. CASE kind = "event" /\ UNCHANGED vars
    BY <2>1, <2>4, EvSame DEF vars, ipcVars, EvKept, EvSteps
  <2> QED
    BY <2>2, <2>3, <2>4
<1>2. Init => Flags!Init
  <2> SUFFICES ASSUME Init
               PROVE  Flags!Init
    OBVIOUS
  <2>1. /\ \A t \in Threads : EventPhase(t) = "out"
        /\ kind = "event" => obj = {} /\ ghost = [t \in Threads |-> NoAsk]
    BY DEF Init, EventPhase, Event!Phase, Event!Init, Event!IpcInit
  <2> QED
    BY <2>1 DEF Flags!Init
<1> QED
  BY <1>1, <1>2, EvInvariance, PTL DEF Spec, EventImplemented, Flags!Spec
=============================================================================
