----------------------------- MODULE MailProofs -----------------------------
(***************************************************************************)
(* Proofs about the mailboxes of MCIpc, for any number of threads, any     *)
(* capacity and any messages: how a step changes the waits of two lists at *)
(* once, what the abstract channel sees of a step, and the invariant of a  *)
(* mailbox, kept by every step of it.  QueueProofs draws the conclusions.  *)
(***************************************************************************)
EXTENDS IpcProofs

-----------------------------------------------------------------------------
(* The waits, of an object with two wait lists.                            *)

PeerRecords ==
  [stat : [Peers -> {"ready", "suspend"}], err : [Peers -> Errors],
   prio : [Peers -> 0 .. PrioMax - 1], armed : SUBSET Peers,
   wait : [Queues -> Seq(Peers)]]

\* Who is on a wait list is on one, once, and has met no error; who is on none has
\* no timer; and nobody is in front of a more urgent thread.
Settled(r) ==
  /\ r \in PeerRecords
  /\ \A q \in Queues : IsInjective(r.wait[q])
  /\ \A t \in Peers : (r.stat[t] = "suspend") <=> (\E q \in Queues : Contains(r.wait[q], t))
  /\ \A t \in Peers : ~(Contains(r.wait["receivers"], t) /\ Contains(r.wait["senders"], t))
  /\ \A t \in Peers : r.stat[t] = "suspend" => r.err[t] = "ok"
  /\ \A t \in r.armed : r.stat[t] = "suspend"
  /\ PrioFlag => \A q \in Queues : InOrder(r.wait[q], r.prio)

\* s is r once t has been woken, with the error e.
Woke(r, s, t, e) ==
  /\ s \in PeerRecords
  /\ s.stat = [r.stat EXCEPT ![t] = "ready"]
  /\ s.err = [r.err EXCEPT ![t] = e]
  /\ s.prio = r.prio
  /\ s.armed = r.armed \ {t}
  /\ \A q \in Queues : s.wait[q] = Unlink(r.wait[q], t)

\* s is r once t waits on the list q.
Slept(r, s, t, q) ==
  /\ s \in PeerRecords
  /\ s.stat = [r.stat EXCEPT ![t] = "suspend"]
  /\ s.err = [r.err EXCEPT ![t] = "ok"]
  /\ s.prio = r.prio
  /\ s.armed \in {r.armed, r.armed \cup {t}}
  /\ \A p \in Queues \ {q} : s.wait[p] = r.wait[p]
  /\ s.wait[q] = IF PrioFlag THEN InsertSorted(r.wait[q], t, r.prio) ELSE Append(r.wait[q], t)

\* s is r once everybody has been woken with an error.
Emptied(r, s) ==
  /\ s \in PeerRecords
  /\ \A t \in Peers : s.stat[t] = "ready"
  /\ \A t \in Peers : s.err[t] = IF r.stat[t] = "suspend" THEN "error" ELSE r.err[t]
  /\ s.armed = {}
  /\ \A q \in Queues : s.wait[q] = <<>>

LEMMA ResumeWoke ==
  ASSUME NEW r \in PeerRecords, NEW t \in Peers
  PROVE  Woke(r, rt_thread_resume(r, t), t, r.err[t])
<1>1. \A q \in Queues : Unlink(r.wait[q], t) \in Seq(Peers)
  BY UnlinkElements DEF PeerRecords
<1> QED
  BY <1>1 DEF PeerRecords, Woke, rt_thread_resume

LEMMA FailFirstWoke ==
  ASSUME NEW r \in PeerRecords, NEW t \in Peers
  PROVE  Woke(r, FailFirst(r, t), t, "error")
<1> DEFINE u == [r EXCEPT !.err[t] = "error"]
<1>1. /\ u \in PeerRecords /\ u.stat = r.stat /\ u.err = [r.err EXCEPT ![t] = "error"]
      /\ u.prio = r.prio /\ u.armed = r.armed /\ u.wait = r.wait
  BY DEF PeerRecords, Errors
<1>2. FailFirst(r, t) = rt_thread_resume(u, t)
  BY DEF FailFirst
<1> HIDE DEF u
<1>3. Woke(u, rt_thread_resume(u, t), t, u.err[t])
  BY <1>1, ResumeWoke
<1>4. [u.err EXCEPT ![t] = u.err[t]] = u.err
  BY <1>1 DEF PeerRecords
<1> QED
  BY <1>1, <1>2, <1>3, <1>4 DEF Woke

LEMMA TimeoutWoke ==
  ASSUME NEW r \in PeerRecords, NEW t \in Peers
  PROVE  Woke(r, [rt_thread_resume(r, t) EXCEPT !.err[t] = "timeout"], t, "timeout")
<1> DEFINE u == rt_thread_resume(r, t)
           s == [u EXCEPT !.err[t] = "timeout"]
<1>1. Woke(r, u, t, r.err[t])
  BY ResumeWoke
<1> HIDE DEF u
<1>2. /\ s \in PeerRecords /\ s.stat = u.stat /\ s.err = [u.err EXCEPT ![t] = "timeout"]
      /\ s.prio = u.prio /\ s.armed = u.armed /\ s.wait = u.wait
  BY <1>1 DEF PeerRecords, Errors, Woke
<1> HIDE DEF s
<1>3. [[r.err EXCEPT ![t] = r.err[t]] EXCEPT ![t] = "timeout"] = [r.err EXCEPT ![t] = "timeout"]
  BY DEF PeerRecords
<1>4. Woke(r, s, t, "timeout")
  BY <1>1, <1>2, <1>3 DEF Woke
<1> QED
  BY <1>4 DEF s, u

\* The record r once t is on the list w, which was q.
Joined(r, t, q, w) == [r EXCEPT !.stat[t] = "suspend", !.wait[q] = w]

LEMMA JoinedRecord ==
  ASSUME NEW r \in PeerRecords, NEW t \in Peers, NEW q \in Queues, NEW w \in Seq(Peers)
  PROVE  /\ Joined(r, t, q, w) \in PeerRecords
         /\ Joined(r, t, q, w).stat = [r.stat EXCEPT ![t] = "suspend"]
         /\ Joined(r, t, q, w).err = r.err /\ Joined(r, t, q, w).prio = r.prio
         /\ Joined(r, t, q, w).armed = r.armed
         /\ \A p \in Queues \ {q} : Joined(r, t, q, w).wait[p] = r.wait[p]
         /\ Joined(r, t, q, w).wait[q] = w
<1>1. PICK st, wt : st = [r.stat EXCEPT ![t] = "suspend"] /\ wt = [r.wait EXCEPT ![q] = w]
  OBVIOUS
<1>2. /\ st \in [Peers -> {"ready", "suspend"}] /\ wt \in [Queues -> Seq(Peers)]
      /\ wt[q] = w /\ \A p \in Queues \ {q} : wt[p] = r.wait[p]
  BY <1>1 DEF PeerRecords
<1>3. Joined(r, t, q, w) = [r EXCEPT !.stat = st, !.wait = wt]
  BY <1>1 DEF PeerRecords, Joined
<1>4. PICK s : s = Joined(r, t, q, w)
  OBVIOUS
<1>5. /\ s \in PeerRecords /\ s.stat = st /\ s.wait = wt
      /\ s.err = r.err /\ s.prio = r.prio /\ s.armed = r.armed
  BY <1>2, <1>3, <1>4 DEF PeerRecords
<1> QED
  BY <1>1, <1>2, <1>4, <1>5

LEMMA TimedRecord ==
  ASSUME NEW r \in PeerRecords, NEW t \in Peers
  PROVE  /\ Timed(r, t) \in PeerRecords
         /\ Timed(r, t).stat = r.stat /\ Timed(r, t).err = r.err /\ Timed(r, t).prio = r.prio
         /\ Timed(r, t).armed = r.armed \cup {t} /\ Timed(r, t).wait = r.wait
<1>1. r.armed \cup {t} \in SUBSET Peers
  BY DEF PeerRecords
<1> QED
  BY <1>1 DEF PeerRecords, Timed

LEMMA SuspendSlept ==
  ASSUME NEW r \in PeerRecords, NEW t \in Peers, r.err[t] = "ok", NEW q \in Queues, NEW patience
  PROVE  Slept(r, Suspend(r, q, t, patience), t, q)
<1>1. PICK w : w = IF PrioFlag THEN InsertSorted(r.wait[q], t, r.prio) ELSE Append(r.wait[q], t)
  OBVIOUS
<1>2. r.wait[q] \in Seq(Peers)
  BY DEF PeerRecords
<1>3. w \in Seq(Peers)
  BY <1>1, <1>2, InsertSortedElements
<1>4. PICK v : v = Joined(r, t, q, w)
  OBVIOUS
<1>5. _ipc_list_suspend(r, q, t) = v
  BY <1>1, <1>4 DEF _ipc_list_suspend, Joined, PeerRecords
<1>6. Suspend(r, q, t, patience) = v \/ Suspend(r, q, t, patience) = Timed(v, t)
  BY <1>5 DEF Suspend, Timed
<1>7. /\ v \in PeerRecords /\ v.stat = [r.stat EXCEPT ![t] = "suspend"] /\ v.err = r.err
      /\ v.prio = r.prio /\ v.armed = r.armed
      /\ \A p \in Queues \ {q} : v.wait[p] = r.wait[p]
      /\ v.wait[q] = w
  <2>1. t \in Peers /\ q \in Queues /\ w \in Seq(Peers)
    BY <1>3
  <2>2. /\ Joined(r, t, q, w) \in PeerRecords
        /\ Joined(r, t, q, w).stat = [r.stat EXCEPT ![t] = "suspend"]
        /\ Joined(r, t, q, w).err = r.err /\ Joined(r, t, q, w).prio = r.prio
        /\ Joined(r, t, q, w).armed = r.armed
        /\ \A p \in Queues \ {q} : Joined(r, t, q, w).wait[p] = r.wait[p]
        /\ Joined(r, t, q, w).wait[q] = w
    BY <2>1, JoinedRecord
  <2> QED
    BY <1>4, <2>2
<1>8. PICK s : s = Suspend(r, q, t, patience)
  OBVIOUS
<1>9. /\ s \in PeerRecords /\ s.stat = v.stat /\ s.err = v.err /\ s.prio = v.prio
      /\ s.armed \in {v.armed, v.armed \cup {t}} /\ s.wait = v.wait
  BY <1>6, <1>7, <1>8, TimedRecord
<1>10. [r.err EXCEPT ![t] = "ok"] = r.err
  BY DEF PeerRecords
<1>11. Slept(r, s, t, q)
  BY <1>1, <1>7, <1>9, <1>10 DEF Slept
<1> QED
  BY <1>8, <1>11

\* The waits stay settled when a waiting thread is woken, ...
LEMMA WokeSettled ==
  ASSUME NEW r, Settled(r), NEW t \in Peers, NEW e \in Errors, NEW s, Woke(r, s, t, e)
  PROVE  /\ Settled(s)
         /\ \A u \in Peers : /\ s.stat[u] = IF u = t THEN "ready" ELSE r.stat[u]
                             /\ s.err[u] = IF u = t THEN e ELSE r.err[u]
         /\ \A q \in Queues, u \in Peers :
              Contains(s.wait[q], u) <=> Contains(r.wait[q], u) /\ u # t
         /\ \A q \in Queues : r.wait[q] = <<>> => s.wait[q] = <<>>
<1>1. \A u \in Peers : /\ s.stat[u] = IF u = t THEN "ready" ELSE r.stat[u]
                       /\ s.err[u] = IF u = t THEN e ELSE r.err[u]
  BY DEF Woke, Settled, PeerRecords
<1>2. ASSUME NEW q \in Queues
      PROVE  /\ IsInjective(s.wait[q])
             /\ \A u : Contains(s.wait[q], u) <=> Contains(r.wait[q], u) /\ u # t
             /\ PrioFlag => InOrder(s.wait[q], s.prio)
  <2>1. r.wait[q] \in Seq(Peers) /\ IsInjective(r.wait[q]) /\ s.wait[q] = Unlink(r.wait[q], t)
        /\ s.prio = r.prio /\ (PrioFlag => InOrder(r.wait[q], r.prio))
    BY DEF Woke, Settled, PeerRecords
  <2> QED
    BY <2>1, UnlinkElements, UnlinkInOrder
<1>3. \A q \in Queues : r.wait[q] = <<>> => s.wait[q] = <<>>
  BY DEF Woke, Unlink, Contains
<1>4. "receivers" \in Queues /\ "senders" \in Queues
  BY DEF Queues
<1>5. \A u \in Peers : (s.stat[u] = "suspend") <=> (\E q \in Queues : Contains(s.wait[q], u))
  BY <1>1, <1>2 DEF Settled
<1>6. \A u \in Peers : ~(Contains(s.wait["receivers"], u) /\ Contains(s.wait["senders"], u))
  BY <1>2, <1>4 DEF Settled
<1>7. \A u \in s.armed : s.stat[u] = "suspend"
  BY <1>1 DEF Settled, Woke, PeerRecords
<1>8. \A u \in Peers : s.stat[u] = "suspend" => s.err[u] = "ok"
  BY <1>1 DEF Settled
<1>9. Settled(s)
  BY <1>2, <1>5, <1>6, <1>7, <1>8 DEF Settled, Woke
<1> QED
  BY <1>1, <1>2, <1>3, <1>9

\* ... when a thread that did not wait does, ...
LEMMA SleptSettled ==
  ASSUME NEW r, Settled(r), NEW t \in Peers, r.stat[t] = "ready", NEW q \in Queues,
         NEW s, Slept(r, s, t, q)
  PROVE  /\ Settled(s)
         /\ \A u \in Peers : /\ s.stat[u] = IF u = t THEN "suspend" ELSE r.stat[u]
                             /\ s.err[u] = IF u = t THEN "ok" ELSE r.err[u]
         /\ \A p \in Queues, u \in Peers :
              Contains(s.wait[p], u) <=> Contains(r.wait[p], u) \/ (u = t /\ p = q)
         /\ \A p \in Queues \ {q} : s.wait[p] = r.wait[p]
<1>1. \A u \in Peers : /\ s.stat[u] = IF u = t THEN "suspend" ELSE r.stat[u]
                       /\ s.err[u] = IF u = t THEN "ok" ELSE r.err[u]
  BY DEF Slept, Settled, PeerRecords
<1>2. \A p \in Queues : ~Contains(r.wait[p], t)
  BY DEF Settled
<1>3. /\ r.wait[q] \in Seq(Peers) /\ IsInjective(r.wait[q])
      /\ \A x \in Peers : r.prio[x] \in Int
  BY IpcAssumption DEF Settled, PeerRecords
<1>4. /\ IsInjective(s.wait[q])
      /\ \A u : Contains(s.wait[q], u) <=> Contains(r.wait[q], u) \/ u = t
      /\ PrioFlag => InOrder(s.wait[q], s.prio)
  <2>1. CASE PrioFlag
    <3>1. s.wait[q] = InsertSorted(r.wait[q], t, r.prio) /\ InOrder(r.wait[q], r.prio)
          /\ s.prio = r.prio
      BY <2>1 DEF Slept, Settled
    <3> QED
      BY <1>2, <1>3, <3>1, InsertSortedElements, InsertSortedInOrder
  <2>2. CASE ~PrioFlag
    <3>1. s.wait[q] = Append(r.wait[q], t)
      BY <2>2 DEF Slept
    <3>2. PICK x, y : x = r.wait[q] /\ y = s.wait[q]
      OBVIOUS
    <3>3. /\ x \in Seq(Peers) /\ IsInjective(x) /\ ~Contains(x, t)
          /\ y = Append(x, t) \/ y = <<t>> \o x
      BY <1>2, <1>3, <3>1, <3>2
    <3>4. IsInjective(y) /\ \A u : Contains(y, u) <=> Contains(x, u) \/ u = t
      BY <3>3, AddElements
    <3> QED
      BY <2>2, <3>2, <3>4
  <2> QED
    BY <2>1, <2>2
<1>5. \A p \in Queues \ {q} : s.wait[p] = r.wait[p]
  BY DEF Slept
<1>6. \A p \in Queues, u \in Peers :
        Contains(s.wait[p], u) <=> Contains(r.wait[p], u) \/ (u = t /\ p = q)
  BY <1>4, <1>5
<1>7. Settled(s)
  <2>1. "receivers" \in Queues /\ "senders" \in Queues /\ "receivers" # "senders"
    BY DEF Queues
  <2>2. \A u \in Peers : (s.stat[u] = "suspend") <=> (\E p \in Queues : Contains(s.wait[p], u))
    BY <1>1, <1>6 DEF Settled
  <2>3. \A u \in Peers : ~(Contains(s.wait["receivers"], u) /\ Contains(s.wait["senders"], u))
    BY <1>2, <1>6, <2>1 DEF Settled
  <2>4. \A u \in s.armed : s.stat[u] = "suspend"
    BY <1>1 DEF Settled, Slept, PeerRecords
  <2>5. \A u \in Peers : s.stat[u] = "suspend" => s.err[u] = "ok"
    BY <1>1 DEF Settled
  <2>6. \A p \in Queues : IsInjective(s.wait[p])
    BY <1>4, <1>5 DEF Settled
  <2>7. PrioFlag => \A p \in Queues : InOrder(s.wait[p], s.prio)
    BY <1>4, <1>5 DEF Settled, Slept
  <2> QED
    BY <2>2, <2>3, <2>4, <2>5, <2>6, <2>7 DEF Settled, Slept
<1> QED
  BY <1>1, <1>5, <1>6, <1>7

\* ... and when everybody is woken.
LEMMA EmptiedSettled ==
  ASSUME NEW r, Settled(r), NEW s, Emptied(r, s)
  PROVE  Settled(s)
<1>1. \A q \in Queues : IsInjective(s.wait[q]) /\ InOrder(s.wait[q], s.prio)
                        /\ \A u : ~Contains(s.wait[q], u)
  BY DEF Emptied, IsInjective, InOrder, Contains
<1>2. "receivers" \in Queues /\ "senders" \in Queues
  BY DEF Queues
<1> QED
  BY <1>1, <1>2 DEF Settled, Emptied

-----------------------------------------------------------------------------
(* The places where threads stand, and who has been woken for what.        *)

\* Where a thread stands that waits on the list q.
PlaceOf(q) == IF q = "receivers" THEN "recv" ELSE "send"

MailWaits(r, p) ==
  /\ Settled(r)
  /\ \A q \in Queues, t \in Peers : Contains(r.wait[q], t) => p[t] = PlaceOf(q)

\* The threads that were woken at place and have not looked yet.
AwakeAt(r, p, place) ==
  {t \in Peers : r.stat[t] = "ready" /\ p[t] = place /\ r.err[t] = "ok"}

\* n messages have a receiver each, and k free places a sender, unless nobody waits.
Served(r, p, n, k) ==
  /\ r.wait["receivers"] # <<>> => n <= Cardinality(AwakeAt(r, p, "recv"))
  /\ r.wait["senders"] # <<>> => k <= Cardinality(AwakeAt(r, p, "send"))

LEMMA AwakeFinite ==
  ASSUME NEW r, NEW p, NEW place
  PROVE  /\ IsFiniteSet(AwakeAt(r, p, place))
         /\ Cardinality(AwakeAt(r, p, place)) \in Nat
<1>1. IsFiniteSet(Peers)
  BY ObjectsAssumption, FS_Subset
<1>2. AwakeAt(r, p, place) \subseteq Peers
  BY DEF AwakeAt
<1> QED
  BY <1>1, <1>2, FS_Subset, FS_CardinalityType

\* One thread more, or one less, is awake.
LEMMA AwakeMore ==
  ASSUME NEW r, NEW p, NEW s, NEW p2, NEW place, NEW t,
         AwakeAt(s, p2, place) = AwakeAt(r, p, place) \cup {t}, t \notin AwakeAt(r, p, place)
  PROVE  Cardinality(AwakeAt(s, p2, place)) = Cardinality(AwakeAt(r, p, place)) + 1
BY AwakeFinite, FS_AddElement

LEMMA AwakeLess ==
  ASSUME NEW r, NEW p, NEW s, NEW p2, NEW place, NEW t,
         AwakeAt(s, p2, place) = AwakeAt(r, p, place) \ {t}
  PROVE  Cardinality(AwakeAt(s, p2, place)) >= Cardinality(AwakeAt(r, p, place)) - 1
<1>1. CASE t \in AwakeAt(r, p, place)
  <2>1. Cardinality(AwakeAt(r, p, place) \ {t}) = Cardinality(AwakeAt(r, p, place)) - 1
    BY <1>1, AwakeFinite, FS_RemoveElement
  <2> QED
    BY <2>1, AwakeFinite
<1>2. CASE t \notin AwakeAt(r, p, place)
  <2>1. AwakeAt(s, p2, place) = AwakeAt(r, p, place)
    BY <1>2
  <2> QED
    BY <2>1, AwakeFinite
<1> QED
  BY <1>1, <1>2

\* The first waiter of a list is woken for what has been put there for it.
LEMMA WakeFirstServes ==
  ASSUME NEW r, NEW p, MailWaits(r, p), NEW q \in Queues, NEW n \in Nat, NEW k \in Nat,
         Served(r, p, n, k), NEW s, s = WakeFirst(r, q)
  PROVE  /\ MailWaits(s, p)
         /\ q = "receivers" => Served(s, p, n + 1, k)
         /\ q = "senders" => Served(s, p, n, k + 1)
         /\ \A t \in Peers : p[t] \notin {"recv", "send"} => s.stat[t] = r.stat[t]
<1>0. "receivers" \in Queues /\ "senders" \in Queues /\ PlaceOf("receivers") = "recv"
      /\ PlaceOf("senders") = "send" /\ (q = "receivers" \/ q = "senders")
  BY DEF Queues, PlaceOf
<1>1. CASE r.wait[q] = <<>>
  <2>1. s = r
    BY <1>1 DEF WakeFirst
  <2> QED
    BY <1>1, <2>1 DEF Served
<1>2. CASE r.wait[q] # <<>>
  <2>1. PICK t : t = Head(r.wait[q])
    OBVIOUS
  <2>2. /\ r.wait[q] \in Seq(Peers) /\ IsInjective(r.wait[q]) /\ r \in PeerRecords
    BY DEF MailWaits, Settled, PeerRecords
  <2>3. t \in Peers /\ Contains(r.wait[q], t)
    BY <1>2, <2>1, <2>2, TailElements
  <2>4. r.stat[t] = "suspend" /\ r.err[t] = "ok" /\ p[t] = PlaceOf(q)
    BY <2>3 DEF MailWaits, Settled
  <2>5. s = rt_thread_resume(r, t)
    BY <1>2, <2>1 DEF WakeFirst, _ipc_list_resume
  <2>6. Woke(r, s, t, "ok")
    BY <2>2, <2>3, <2>4, <2>5, ResumeWoke
  <2>7. /\ Settled(s)
        /\ \A u \in Peers : /\ s.stat[u] = IF u = t THEN "ready" ELSE r.stat[u]
                            /\ s.err[u] = IF u = t THEN "ok" ELSE r.err[u]
        /\ \A l \in Queues, u \in Peers :
             Contains(s.wait[l], u) <=> Contains(r.wait[l], u) /\ u # t
        /\ \A l \in Queues : r.wait[l] = <<>> => s.wait[l] = <<>>
    BY <2>3, <2>6, WokeSettled DEF MailWaits, Errors
  <2>8. MailWaits(s, p)
    BY <2>7 DEF MailWaits
  <2>9. /\ AwakeAt(s, p, PlaceOf(q)) = AwakeAt(r, p, PlaceOf(q)) \cup {t}
        /\ t \notin AwakeAt(r, p, PlaceOf(q))
        /\ \A place : place # PlaceOf(q) => AwakeAt(s, p, place) = AwakeAt(r, p, place)
    BY <2>3, <2>4, <2>7 DEF AwakeAt
  <2>10. Cardinality(AwakeAt(s, p, PlaceOf(q))) = Cardinality(AwakeAt(r, p, PlaceOf(q))) + 1
    BY <2>9, AwakeMore
  <2>11. /\ Cardinality(AwakeAt(r, p, "recv")) \in Nat
         /\ Cardinality(AwakeAt(r, p, "send")) \in Nat
    BY AwakeFinite
  <2>12. q = "receivers" => Served(s, p, n + 1, k)
    <3> SUFFICES ASSUME q = "receivers"
                 PROVE  Served(s, p, n + 1, k)
      OBVIOUS
    <3>1. AwakeAt(s, p, "send") = AwakeAt(r, p, "send")
      BY <1>0, <2>9
    <3> QED
      BY <1>0, <1>2, <2>7, <2>10, <2>11, <3>1 DEF Served
  <2>13. q = "senders" => Served(s, p, n, k + 1)
    <3> SUFFICES ASSUME q = "senders"
                 PROVE  Served(s, p, n, k + 1)
      OBVIOUS
    <3>1. AwakeAt(s, p, "recv") = AwakeAt(r, p, "recv")
      BY <1>0, <2>9
    <3> QED
      BY <1>0, <1>2, <2>7, <2>10, <2>11, <3>1 DEF Served
  <2>14. \A u \in Peers : p[u] \notin {"recv", "send"} => s.stat[u] = r.stat[u]
    BY <1>0, <2>4, <2>7
  <2> QED
    BY <2>8, <2>12, <2>13, <2>14
<1> QED
  BY <1>1, <1>2

\* p2 is p but that t stands at x.
Moved(p, p2, t, x) == \A u \in Peers : p2[u] = IF u = t THEN x ELSE p[u]

\* The record r but for the error of t.
Told1(r, t, e) == [r EXCEPT !.err[t] = e]

LEMMA Told1Record ==
  ASSUME NEW r, Settled(r), NEW t \in Peers, r.stat[t] = "ready", NEW e \in Errors
  PROVE  /\ Settled(Told1(r, t, e)) /\ Told1(r, t, e).stat = r.stat
         /\ Told1(r, t, e).wait = r.wait /\ Told1(r, t, e).prio = r.prio
         /\ Told1(r, t, e).armed = r.armed
         /\ \A u \in Peers : Told1(r, t, e).err[u] = IF u = t THEN e ELSE r.err[u]
<1>1. /\ Told1(r, t, e) \in PeerRecords /\ Told1(r, t, e).stat = r.stat
      /\ Told1(r, t, e).wait = r.wait /\ Told1(r, t, e).prio = r.prio
      /\ Told1(r, t, e).armed = r.armed
      /\ \A u \in Peers : Told1(r, t, e).err[u] = IF u = t THEN e ELSE r.err[u]
  BY DEF Settled, PeerRecords, Told1
<1>2. Settled(Told1(r, t, e))
  BY <1>1 DEF Settled
<1> QED
  BY <1>1, <1>2

\* A thread that found nothing waits, whether it has waited before or not.
LEMMA SleepServes ==
  ASSUME NEW r, NEW p, MailWaits(r, p), NEW t \in Peers, r.stat[t] = "ready",
         NEW q \in Queues, p[t] \in {"run", PlaceOf(q)}, NEW n \in Nat, NEW k \in Nat,
         Served(r, p, n, k), q = "receivers" => n = 0, q = "senders" => k = 0,
         NEW patience, NEW s, s = Suspend(Told1(r, t, "ok"), q, t, patience),
         NEW p2, Moved(p, p2, t, PlaceOf(q))
  PROVE  /\ MailWaits(s, p2) /\ Served(s, p2, n, k)
         /\ \A u \in Peers : s.stat[u] = IF u = t THEN "suspend" ELSE r.stat[u]
<1>0. "receivers" \in Queues /\ "senders" \in Queues /\ PlaceOf("receivers") = "recv"
      /\ PlaceOf("senders") = "send" /\ (q = "receivers" \/ q = "senders")
  BY DEF Queues, PlaceOf
<1>1. PICK v : v = Told1(r, t, "ok")
  OBVIOUS
<1>2. /\ Settled(v) /\ v.stat = r.stat /\ v.wait = r.wait
      /\ \A u \in Peers : v.err[u] = IF u = t THEN "ok" ELSE r.err[u]
  <2>1. "ok" \in Errors /\ Settled(r)
    BY DEF Errors, MailWaits
  <2> QED
    BY <1>1, <2>1, Told1Record
<1>3. v \in PeerRecords /\ v.err[t] = "ok" /\ v.stat[t] = "ready"
  BY <1>2 DEF Settled
<1>4. Slept(v, s, t, q)
  BY <1>1, <1>3, SuspendSlept
<1>5. /\ Settled(s)
      /\ \A u \in Peers : /\ s.stat[u] = IF u = t THEN "suspend" ELSE v.stat[u]
                          /\ s.err[u] = IF u = t THEN "ok" ELSE v.err[u]
      /\ \A l \in Queues, u \in Peers :
           Contains(s.wait[l], u) <=> Contains(v.wait[l], u) \/ (u = t /\ l = q)
      /\ \A l \in Queues \ {q} : s.wait[l] = v.wait[l]
  BY <1>2, <1>3, <1>4, SleptSettled
<1>6. \A l \in Queues : ~Contains(r.wait[l], t)
  BY DEF MailWaits, Settled
<1>7. MailWaits(s, p2)
  BY <1>2, <1>5, <1>6 DEF MailWaits, Moved
<1>8. \A u \in Peers : s.stat[u] = IF u = t THEN "suspend" ELSE r.stat[u]
  BY <1>2, <1>5
<1>9. /\ Cardinality(AwakeAt(s, p2, "recv")) \in Nat
      /\ Cardinality(AwakeAt(s, p2, "send")) \in Nat
  BY AwakeFinite
<1>10. CASE q = "receivers"
  <2>1. AwakeAt(s, p2, "send") = AwakeAt(r, p, "send")
    BY <1>0, <1>2, <1>5, <1>10 DEF AwakeAt, Moved
  <2>2. s.wait["senders"] = r.wait["senders"]
    BY <1>0, <1>2, <1>5, <1>10
  <2> QED
    BY <1>7, <1>8, <1>9, <1>10, <2>1, <2>2 DEF Served
<1>11. CASE q = "senders"
  <2>1. AwakeAt(s, p2, "recv") = AwakeAt(r, p, "recv")
    BY <1>0, <1>2, <1>5, <1>11 DEF AwakeAt, Moved
  <2>2. s.wait["receivers"] = r.wait["receivers"]
    BY <1>0, <1>2, <1>5, <1>11
  <2> QED
    BY <1>7, <1>8, <1>9, <1>11, <2>1, <2>2 DEF Served
<1> QED
  BY <1>0, <1>10, <1>11

\* A wait ends with an error: whoever was awake still is.
LEMMA FailServes ==
  ASSUME NEW r, NEW p, MailWaits(r, p), NEW t \in Peers, r.stat[t] = "suspend",
         NEW e \in Errors \ {"ok"}, NEW s, Woke(r, s, t, e), NEW n, NEW k, Served(r, p, n, k)
  PROVE  /\ MailWaits(s, p) /\ Served(s, p, n, k) /\ p[t] \in {"recv", "send"}
         /\ \A u \in Peers : s.stat[u] = IF u = t THEN "ready" ELSE r.stat[u]
<1>1. /\ Settled(s)
      /\ \A u \in Peers : /\ s.stat[u] = IF u = t THEN "ready" ELSE r.stat[u]
                          /\ s.err[u] = IF u = t THEN e ELSE r.err[u]
      /\ \A q \in Queues, u \in Peers :
           Contains(s.wait[q], u) <=> Contains(r.wait[q], u) /\ u # t
      /\ \A q \in Queues : r.wait[q] = <<>> => s.wait[q] = <<>>
  BY WokeSettled DEF MailWaits
<1>2. MailWaits(s, p)
  BY <1>1 DEF MailWaits
<1>3. \A place : AwakeAt(s, p, place) = AwakeAt(r, p, place)
  BY <1>1 DEF AwakeAt
<1>4. "receivers" \in Queues /\ "senders" \in Queues
  BY DEF Queues
<1>5. AwakeAt(s, p, "recv") = AwakeAt(r, p, "recv") /\ AwakeAt(s, p, "send") = AwakeAt(r, p, "send")
  BY <1>3
<1>6. Served(s, p, n, k)
  BY <1>1, <1>4, <1>5 DEF Served
<1>7. p[t] \in {"recv", "send"}
  BY DEF MailWaits, Settled, PlaceOf
<1> QED
  BY <1>1, <1>2, <1>6, <1>7

\* A thread that does not wait goes on: if it was awake, it takes what it was woken for.
LEMMA LeaveServes ==
  ASSUME NEW r, NEW p, MailWaits(r, p), NEW t \in Peers, r.stat[t] = "ready",
         NEW x, x # "recv", x # "send", NEW p2, Moved(p, p2, t, x),
         NEW n \in Nat, NEW k \in Nat, Served(r, p, n, k)
  PROVE  /\ MailWaits(r, p2)
         /\ p[t] \notin {"recv", "send"} \/ r.err[t] # "ok" => Served(r, p2, n, k)
         /\ p[t] = "recv" /\ n >= 1 => Served(r, p2, n - 1, k)
         /\ p[t] = "send" /\ k >= 1 => Served(r, p2, n, k - 1)
         /\ p[t] = "recv" /\ n = 0 => Served(r, p2, n, k)
         /\ p[t] = "send" /\ k = 0 => Served(r, p2, n, k)
<1>1. \A q \in Queues : ~Contains(r.wait[q], t)
  BY DEF MailWaits, Settled
<1>2. MailWaits(r, p2)
  BY <1>1 DEF MailWaits, Moved
<1>3. /\ Cardinality(AwakeAt(r, p2, "recv")) \in Nat /\ Cardinality(AwakeAt(r, p, "recv")) \in Nat
      /\ Cardinality(AwakeAt(r, p2, "send")) \in Nat /\ Cardinality(AwakeAt(r, p, "send")) \in Nat
  BY AwakeFinite
<1>4. \A place \in {"recv", "send"} :
        p[t] # place \/ r.err[t] # "ok" => AwakeAt(r, p2, place) = AwakeAt(r, p, place)
  BY DEF AwakeAt, Moved
<1>5. AwakeAt(r, p2, "recv") = AwakeAt(r, p, "recv") \ {t}
  BY DEF AwakeAt, Moved
<1>6. AwakeAt(r, p2, "send") = AwakeAt(r, p, "send") \ {t}
  BY DEF AwakeAt, Moved
<1>7. /\ Cardinality(AwakeAt(r, p2, "recv")) >= Cardinality(AwakeAt(r, p, "recv")) - 1
      /\ Cardinality(AwakeAt(r, p2, "send")) >= Cardinality(AwakeAt(r, p, "send")) - 1
  BY <1>5, <1>6, AwakeLess
<1>8. /\ p[t] # "recv" \/ r.err[t] # "ok" => AwakeAt(r, p2, "recv") = AwakeAt(r, p, "recv")
      /\ p[t] # "send" \/ r.err[t] # "ok" => AwakeAt(r, p2, "send") = AwakeAt(r, p, "send")
  BY <1>4
<1>9. p[t] \notin {"recv", "send"} \/ r.err[t] # "ok" => Served(r, p2, n, k)
  BY <1>8 DEF Served
<1>10. p[t] = "recv" => /\ n >= 1 => Served(r, p2, n - 1, k)
                        /\ n = 0 => Served(r, p2, n, k)
  BY <1>3, <1>7, <1>8 DEF Served
<1>11. p[t] = "send" => /\ k >= 1 => Served(r, p2, n, k - 1)
                        /\ k = 0 => Served(r, p2, n, k)
  BY <1>3, <1>7, <1>8 DEF Served
<1> QED
  BY <1>2, <1>9, <1>10, <1>11

\* A call that gives up learns why.
LEMMA TellServes ==
  ASSUME NEW r, NEW p, MailWaits(r, p), NEW t \in Peers, r.stat[t] = "ready",
         p[t] \notin {"recv", "send"}, NEW e \in Errors, NEW n, NEW k, Served(r, p, n, k)
  PROVE  MailWaits(Told1(r, t, e), p) /\ Served(Told1(r, t, e), p, n, k)
<1>1. PICK v : v = Told1(r, t, e)
  OBVIOUS
<1>2. /\ Settled(v) /\ v.stat = r.stat /\ v.wait = r.wait
      /\ \A u \in Peers : v.err[u] = IF u = t THEN e ELSE r.err[u]
  BY <1>1, Told1Record DEF MailWaits
<1>3. AwakeAt(v, p, "recv") = AwakeAt(r, p, "recv") /\ AwakeAt(v, p, "send") = AwakeAt(r, p, "send")
  BY <1>2 DEF AwakeAt
<1> QED
  BY <1>1, <1>2, <1>3 DEF MailWaits, Served

\* Nobody waits any more.
LEMMA EmptyServes ==
  ASSUME NEW r, NEW p, MailWaits(r, p), NEW s, Emptied(r, s), NEW n, NEW k
  PROVE  MailWaits(s, p) /\ Served(s, p, n, k)
<1>1. Settled(s) /\ \A q \in Queues : s.wait[q] = <<>>
  BY EmptiedSettled DEF MailWaits, Emptied
<1>2. "receivers" \in Queues /\ "senders" \in Queues /\ \A u : ~Contains(<<>>, u)
  BY DEF Queues, Contains
<1> QED
  BY <1>1, <1>2 DEF MailWaits, Served

LEMMA ServedLess ==
  ASSUME NEW r, NEW p, NEW n \in Int, NEW k \in Int, Served(r, p, n, k),
         NEW n2 \in Int, NEW k2 \in Int, n2 <= n, k2 <= k
  PROVE  Served(r, p, n2, k2)
BY AwakeFinite DEF Served

\* _ipc_list_resume_all, of the threads that use a mailbox or a message queue.
ClearList(r, q) ==
  LET all == Range(r.wait[q])
  IN  [r EXCEPT !.stat    = [t \in Peers |-> IF t \in all THEN "ready" ELSE @[t]],
                !.err     = [t \in Peers |-> IF t \in all THEN "error" ELSE @[t]],
                !.wait[q] = <<>>,
                !.armed   = @ \ all]

LEMMA ClearListRecord ==
  ASSUME NEW r \in PeerRecords, NEW q \in Queues, NEW s, s = ClearList(r, q)
  PROVE  /\ s \in PeerRecords
         /\ \A t \in Peers :
              /\ s.stat[t] = IF Contains(r.wait[q], t) THEN "ready" ELSE r.stat[t]
              /\ s.err[t] = IF Contains(r.wait[q], t) THEN "error" ELSE r.err[t]
              /\ t \in s.armed <=> t \in r.armed /\ ~Contains(r.wait[q], t)
         /\ s.wait[q] = <<>>
         /\ \A p \in Queues \ {q} : s.wait[p] = r.wait[p]
<1> DEFINE all == Range(r.wait[q])
<1>1. r.wait[q] \in Seq(Peers)
  BY DEF PeerRecords
<1>2. \A t : t \in all <=> Contains(r.wait[q], t)
  BY <1>1, RangeContains DEF Contains
<1> DEFINE stat == [t \in Peers |-> IF t \in all THEN "ready" ELSE r.stat[t]]
           err == [t \in Peers |-> IF t \in all THEN "error" ELSE r.err[t]]
           v == [r EXCEPT !.stat = stat, !.err = err, !.wait[q] = <<>>, !.armed = r.armed \ all]
<1>3. s = v
  BY DEF ClearList, PeerRecords
<1>4. /\ stat \in [Peers -> {"ready", "suspend"}] /\ err \in [Peers -> Errors]
      /\ \A t \in Peers : /\ stat[t] = IF Contains(r.wait[q], t) THEN "ready" ELSE r.stat[t]
                          /\ err[t] = IF Contains(r.wait[q], t) THEN "error" ELSE r.err[t]
  BY <1>2 DEF PeerRecords, Errors
<1> HIDE DEF all, stat, err
<1>5. /\ [r.wait EXCEPT ![q] = <<>>] \in [Queues -> Seq(Peers)]
      /\ [r.wait EXCEPT ![q] = <<>>][q] = <<>>
      /\ \A p \in Queues \ {q} : [r.wait EXCEPT ![q] = <<>>][p] = r.wait[p]
      /\ r.armed \ all \in SUBSET Peers
  BY DEF PeerRecords
<1>6. /\ v \in PeerRecords /\ v.stat = stat /\ v.err = err /\ v.armed = r.armed \ all
      /\ v.wait = [r.wait EXCEPT ![q] = <<>>]
  BY <1>4, <1>5 DEF PeerRecords
<1> HIDE DEF v
<1> QED
  BY <1>2, <1>3, <1>4, <1>5, <1>6

\* A reset wakes everybody, the receivers first.
LEMMA ResetEmptied ==
  ASSUME NEW r, Settled(r), NEW s, s = ClearList(ClearList(r, "receivers"), "senders")
  PROVE  Emptied(r, s)
<1>1. "receivers" \in Queues /\ "senders" \in Queues /\ "receivers" # "senders"
      /\ \A q \in Queues : q = "receivers" \/ q = "senders"
  BY DEF Queues
<1>2. PICK v : v = ClearList(r, "receivers")
  OBVIOUS
<1>3. /\ v \in PeerRecords
      /\ \A t \in Peers :
           /\ v.stat[t] = IF Contains(r.wait["receivers"], t) THEN "ready" ELSE r.stat[t]
           /\ v.err[t] = IF Contains(r.wait["receivers"], t) THEN "error" ELSE r.err[t]
           /\ t \in v.armed <=> t \in r.armed /\ ~Contains(r.wait["receivers"], t)
      /\ v.wait["receivers"] = <<>>
      /\ v.wait["senders"] = r.wait["senders"]
  BY <1>1, <1>2, ClearListRecord DEF Settled
<1>4. /\ s \in PeerRecords
      /\ \A t \in Peers :
           /\ s.stat[t] = IF Contains(v.wait["senders"], t) THEN "ready" ELSE v.stat[t]
           /\ s.err[t] = IF Contains(v.wait["senders"], t) THEN "error" ELSE v.err[t]
           /\ t \in s.armed <=> t \in v.armed /\ ~Contains(v.wait["senders"], t)
      /\ s.wait["senders"] = <<>>
      /\ s.wait["receivers"] = v.wait["receivers"]
  BY <1>1, <1>2, <1>3, ClearListRecord
<1>5. \A t \in Peers : r.stat[t] = "suspend" <=>
        Contains(r.wait["receivers"], t) \/ Contains(r.wait["senders"], t)
  BY <1>1 DEF Settled
<1>6. \A t \in Peers : r.stat[t] \in {"ready", "suspend"}
  BY DEF Settled, PeerRecords
<1>7. \A t \in Peers : s.stat[t] = "ready"
                       /\ s.err[t] = IF r.stat[t] = "suspend" THEN "error" ELSE r.err[t]
  BY <1>3, <1>4, <1>5, <1>6
<1>8. s.armed = {}
  <2>1. s.armed \subseteq Peers /\ r.armed \subseteq Peers
    BY <1>4 DEF Settled, PeerRecords
  <2> QED
    BY <1>3, <1>4, <1>5, <2>1 DEF Settled
<1>9. \A q \in Queues : s.wait[q] = <<>>
  BY <1>1, <1>3, <1>4
<1> QED
  BY <1>4, <1>7, <1>8, <1>9 DEF Emptied

-----------------------------------------------------------------------------
(* The routines of mailboxes and message queues are those of IpcOps.       *)

LEMMA BoxSame ==
  /\ \A r, t : Box!rt_thread_resume(r, t) = rt_thread_resume(r, t)
  /\ \A r, t : Box!FailFirst(r, t) = FailFirst(r, t)
  /\ \A r, q : Box!WakeFirst(r, q) = WakeFirst(r, q)
  /\ \A r, q, t, n : Box!Suspend(r, q, t, n) = Suspend(r, q, t, n)
  /\ \A r, q : Box!_ipc_list_resume_all(r, q) = ClearList(r, q)
  /\ \A q : Box!IsInjective(q) = IsInjective(q)
  /\ \A q, t : Box!Contains(q, t) = Contains(q, t)
  /\ \A q : Box!Range(q) = Range(q)
<1>1. \A q, t : Box!Unlink(q, t) = Unlink(q, t)
  BY DEF Box!Unlink, Unlink, Box!Contains, Contains, Box!RemoveAt, RemoveAt
<1>2. \A r, t : Box!rt_thread_resume(r, t) = rt_thread_resume(r, t)
  BY <1>1 DEF Box!rt_thread_resume, rt_thread_resume, Box!Queues, Queues
<1>3. \A r, t : Box!FailFirst(r, t) = FailFirst(r, t)
  BY <1>2 DEF Box!FailFirst, FailFirst
<1>4. \A q, t, key : Box!InsertSorted(q, t, key) = InsertSorted(q, t, key)
  BY DEF Box!InsertSorted, Box!FirstLater, Box!InsertAt, InsertSorted, FirstLater, InsertAt
<1>5. \A r, q : Box!WakeFirst(r, q) = WakeFirst(r, q)
  BY <1>2 DEF Box!WakeFirst, Box!_ipc_list_resume, WakeFirst, _ipc_list_resume
<1>6. \A r, q, t : Box!_ipc_list_suspend(r, q, t) = _ipc_list_suspend(r, q, t)
  BY <1>4 DEF Box!_ipc_list_suspend, _ipc_list_suspend
<1>7. \A r, q, t, n : Box!Suspend(r, q, t, n) = Suspend(r, q, t, n)
  BY <1>6 DEF Box!Suspend, Suspend
<1>8. /\ \A q : Box!IsInjective(q) = IsInjective(q)
      /\ \A q, t : Box!Contains(q, t) = Contains(q, t)
      /\ \A q : Box!Range(q) = Range(q)
  BY DEF Box!IsInjective, IsInjective, Box!Contains, Contains, Box!Range, Range
<1>9. \A r, q : Box!_ipc_list_resume_all(r, q) = ClearList(r, q)
  BY <1>8 DEF Box!_ipc_list_resume_all, ClearList
<1> QED
  BY <1>2, <1>3, <1>5, <1>7, <1>8, <1>9

LEMMA QueueSame ==
  /\ \A r, t : Queue!rt_thread_resume(r, t) = rt_thread_resume(r, t)
  /\ \A r, t : Queue!FailFirst(r, t) = FailFirst(r, t)
  /\ \A r, q : Queue!WakeFirst(r, q) = WakeFirst(r, q)
  /\ \A r, q, t, n : Queue!Suspend(r, q, t, n) = Suspend(r, q, t, n)
  /\ \A r, q : Queue!_ipc_list_resume_all(r, q) = ClearList(r, q)
<1>1. \A q, t : Queue!Unlink(q, t) = Unlink(q, t)
  BY DEF Queue!Unlink, Unlink, Queue!Contains, Contains, Queue!RemoveAt, RemoveAt
<1>2. \A r, t : Queue!rt_thread_resume(r, t) = rt_thread_resume(r, t)
  BY <1>1 DEF Queue!rt_thread_resume, rt_thread_resume, Queue!Queues, Queues
<1>3. \A r, t : Queue!FailFirst(r, t) = FailFirst(r, t)
  BY <1>2 DEF Queue!FailFirst, FailFirst
<1>4. \A q, t, key : Queue!InsertSorted(q, t, key) = InsertSorted(q, t, key)
  BY DEF Queue!InsertSorted, Queue!FirstLater, Queue!InsertAt, InsertSorted, FirstLater, InsertAt
<1>5. \A r, q : Queue!WakeFirst(r, q) = WakeFirst(r, q)
  BY <1>2 DEF Queue!WakeFirst, Queue!_ipc_list_resume, WakeFirst, _ipc_list_resume
<1>6. \A r, q, t : Queue!_ipc_list_suspend(r, q, t) = _ipc_list_suspend(r, q, t)
  BY <1>4 DEF Queue!_ipc_list_suspend, _ipc_list_suspend
<1>7. \A r, q, t, n : Queue!Suspend(r, q, t, n) = Suspend(r, q, t, n)
  BY <1>6 DEF Queue!Suspend, Suspend
<1>8. \A q : Queue!Range(q) = Range(q)
  BY DEF Queue!Range, Range
<1>9. \A r, q : Queue!_ipc_list_resume_all(r, q) = ClearList(r, q)
  BY <1>8 DEF Queue!_ipc_list_resume_all, ClearList
<1> QED
  BY <1>2, <1>3, <1>5, <1>7, <1>9

-----------------------------------------------------------------------------
(* A sequence that is another one with an element more or less.            *)

\* The elements of q are in r, d places further on.
Shifted(q, r, d) == \A i \in 1 .. Len(q) : r[i + d] = q[i]

LEMMA IsAppend ==
  ASSUME NEW S, NEW q \in Seq(S), NEW v \in S, NEW r \in Seq(S), Len(r) = Len(q) + 1,
         Shifted(q, r, 0), r[Len(q) + 1] = v
  PROVE  r = Append(q, v)
<1>1. PICK x : x = Append(q, v)
  OBVIOUS
<1>2. /\ x \in Seq(S) /\ Len(x) = Len(q) + 1 /\ x[Len(q) + 1] = v
      /\ \A i \in 1 .. Len(q) : x[i] = q[i]
  BY <1>1, AppendProperties
<1>3. \A i \in 1 .. Len(r) : r[i] = x[i]
  <2>1. \A i \in 1 .. Len(q) : i + 0 = i /\ r[i + 0] = q[i]
    BY DEF Shifted
  <2>2. \A i \in 1 .. Len(r) : i \in 1 .. Len(q) \/ i = Len(q) + 1
    OBVIOUS
  <2> QED
    BY <1>2, <2>1, <2>2
<1>4. r = x
  BY <1>2, <1>3, SeqEqual
<1> QED
  BY <1>1, <1>4

LEMMA IsFront ==
  ASSUME NEW S, NEW q \in Seq(S), NEW v \in S, NEW r \in Seq(S), Len(r) = Len(q) + 1,
         Shifted(q, r, 1), r[1] = v
  PROVE  r = <<v>> \o q
<1>1. PICK x : x = <<v>> \o q
  OBVIOUS
<1>2. /\ x \in Seq(S) /\ Len(x) = Len(q) + 1 /\ x[1] = v
      /\ \A i \in 2 .. Len(q) + 1 : x[i] = q[i - 1]
  <2>1. <<v>> \in Seq(S) /\ Len(<<v>>) = 1 /\ <<v>>[1] = v
    OBVIOUS
  <2>2. /\ <<v>> \o q \in Seq(S) /\ Len(<<v>> \o q) = 1 + Len(q)
        /\ \A i \in 1 .. 1 + Len(q) : (<<v>> \o q)[i] = IF i <= 1 THEN <<v>>[i] ELSE q[i - 1]
    BY <2>1, ConcatProperties
  <2> QED
    BY <1>1, <2>1, <2>2
<1>3. \A i \in 1 .. Len(r) : r[i] = x[i]
  <2>1. \A i \in 2 .. Len(q) + 1 : i - 1 \in 1 .. Len(q) /\ (i - 1) + 1 = i /\ r[(i - 1) + 1] = q[i - 1]
    BY DEF Shifted
  <2>2. \A i \in 1 .. Len(r) : i \in 2 .. Len(q) + 1 \/ i = 1
    OBVIOUS
  <2> QED
    BY <1>2, <2>1, <2>2
<1>4. r = x
  BY <1>2, <1>3, SeqEqual
<1> QED
  BY <1>1, <1>4

LEMMA IsTail ==
  ASSUME NEW S, NEW q \in Seq(S), q # <<>>, NEW r \in Seq(S), Len(r) = Len(q) - 1,
         Shifted(r, q, 1)
  PROVE  r = Tail(q)
<1>1. /\ Tail(q) \in Seq(S) /\ Len(Tail(q)) = Len(q) - 1
      /\ \A i \in 1 .. Len(Tail(q)) : Tail(q)[i] = q[i + 1]
  BY HeadTailProperties
<1>2. \A i \in 1 .. Len(r) : r[i] = Tail(q)[i]
  BY <1>1 DEF Shifted
<1> QED
  BY <1>1, <1>2, SeqEqual

-----------------------------------------------------------------------------
(* The ring of a mailbox.                                                  *)

Slots == 0 .. Capacity - 1

\* The slot that lies n slots behind the slot i.
SlotAt(i, n) == IF i + n < Capacity THEN i + n ELSE i + n - Capacity

Rings == [pool : [Slots -> Values \cup {None}], in : Slots, out : Slots, entry : 0 .. Capacity]

Ring(m) ==
  /\ m \in Rings
  /\ m.in = SlotAt(m.out, m.entry)

\* The messages in the ring.
Letters(m) == [i \in 1 .. m.entry |-> m.pool[SlotAt(m.out, i - 1)]]

LEMMA RingContent ==
  ASSUME Ring(obj)
  PROVE  Box!Content = Letters(obj)
<1>1. Capacity \in Nat \ {0} /\ obj.out \in 0 .. Capacity - 1 /\ obj.entry \in 0 .. Capacity
  BY ObjectsAssumption DEF Ring, Rings, Slots
<1>2. \A i \in 1 .. obj.entry : (obj.out + i - 1) % Capacity = SlotAt(obj.out, i - 1)
  <2> SUFFICES ASSUME NEW i \in 1 .. obj.entry
               PROVE  (obj.out + i - 1) % Capacity = SlotAt(obj.out, i - 1)
    OBVIOUS
  <2>1. PICK x \in Int : x = obj.out + i - 1
    BY <1>1
  <2>2. -Capacity <= x /\ x < 2 * Capacity /\ ~(x < 0)
    BY <1>1, <2>1
  <2>3. Rem(x, Capacity) = IF x < Capacity THEN x ELSE x - Capacity
    BY <1>1, <2>2, ModOnce
  <2> QED
    BY <1>1, <2>1, <2>3 DEF Rem, SlotAt
<1> QED
  BY <1>2 DEF Box!Content, Letters

LEMMA LettersType ==
  ASSUME NEW m, Ring(m)
  PROVE  /\ Letters(m) \in Seq(Values \cup {None}) /\ Len(Letters(m)) = m.entry
         /\ \A i \in 1 .. m.entry : Letters(m)[i] = m.pool[SlotAt(m.out, i - 1)]
<1>1. /\ Capacity \in Nat \ {0} /\ m.out \in 0 .. Capacity - 1 /\ m.entry \in 0 .. Capacity
      /\ m.pool \in [Slots -> Values \cup {None}]
  BY ObjectsAssumption DEF Ring, Rings, Slots
<1>2. \A i \in 1 .. m.entry : SlotAt(m.out, i - 1) \in Slots
  BY <1>1 DEF SlotAt, Slots
<1>3. \A i \in 1 .. m.entry : m.pool[SlotAt(m.out, i - 1)] \in Values \cup {None}
  BY <1>1, <1>2
<1> QED
  BY <1>1, <1>3 DEF Letters

\* The record m with other fields.
Refilled(m, p, i, o, n) == [m EXCEPT !.pool = p, !.in = i, !.out = o, !.entry = n]

LEMMA RefilledRecord ==
  ASSUME NEW m \in Rings, NEW p \in [Slots -> Values \cup {None}], NEW i \in Slots, NEW o \in Slots,
         NEW n \in 0 .. Capacity, NEW s, s = Refilled(m, p, i, o, n)
  PROVE  s \in Rings /\ s.pool = p /\ s.in = i /\ s.out = o /\ s.entry = n
BY DEF Refilled, Rings

LEMMA StoreRefills ==
  ASSUME NEW m \in Rings, NEW v, NEW p, p = [m.pool EXCEPT ![m.in] = v],
         NEW i, i = IF m.in + 1 >= Capacity THEN 0 ELSE m.in + 1
  PROVE  Box!Store(m, v) = Refilled(m, p, i, m.out, m.entry + 1)
<1>1. Box!Store(m, v) = [m EXCEPT !.pool = p, !.in = i, !.entry = m.entry + 1]
  BY DEF Box!Store, Rings
<1>2. [m EXCEPT !.pool = p, !.in = i, !.entry = m.entry + 1]
        = Refilled(m, p, i, m.out, m.entry + 1)
  BY DEF Refilled, Rings
<1> QED
  BY <1>1, <1>2

LEMMA StoreFirstRefills ==
  ASSUME NEW m \in Rings, NEW v, NEW o, o = IF m.out > 0 THEN m.out - 1 ELSE Capacity - 1,
         NEW p, p = [m.pool EXCEPT ![o] = v]
  PROVE  Box!StoreFirst(m, v) = Refilled(m, p, m.in, o, m.entry + 1)
<1>1. Box!StoreFirst(m, v) = [m EXCEPT !.out = o, !.pool = p, !.entry = m.entry + 1]
  BY DEF Box!StoreFirst, Rings
<1>2. [m EXCEPT !.out = o, !.pool = p, !.entry = m.entry + 1]
        = Refilled(m, p, m.in, o, m.entry + 1)
  BY DEF Refilled, Rings
<1> QED
  BY <1>1, <1>2

LEMMA DropRefills ==
  ASSUME NEW m \in Rings, NEW o, o = IF m.out + 1 >= Capacity THEN 0 ELSE m.out + 1
  PROVE  Box!Drop(m) = Refilled(m, m.pool, m.in, o, m.entry - 1)
<1>1. Box!Drop(m) = [m EXCEPT !.out = o, !.entry = m.entry - 1]
  BY DEF Box!Drop, Rings
<1>2. [m EXCEPT !.out = o, !.entry = m.entry - 1]
        = Refilled(m, m.pool, m.in, o, m.entry - 1)
  BY DEF Refilled, Rings
<1> QED
  BY <1>1, <1>2

LEMMA SlotMoves ==
  ASSUME Capacity \in Nat \ {0}, NEW a \in Int, 0 <= a, a < Capacity,
         NEW n \in Int, 0 <= n, n < Capacity, NEW j \in Int, 1 <= j, j <= n + 1
  PROVE  /\ SlotAt(a, j - 1) \in Slots
         /\ SlotAt(a, j - 1) = SlotAt(a, n) <=> j = n + 1
BY DEF SlotAt, Slots

\* A message that is stored comes last, ...
LEMMA StoreLetter ==
  ASSUME NEW m, Ring(m), m.entry < Capacity, NEW v \in Values \cup {None},
         NEW s, s = Box!Store(m, v)
  PROVE  Ring(s) /\ s.entry = m.entry + 1 /\ Letters(s) = Append(Letters(m), v)
<1>1. /\ Capacity \in Nat \ {0} /\ m.out \in 0 .. Capacity - 1 /\ m.entry \in 0 .. Capacity - 1
      /\ m.in \in 0 .. Capacity - 1 /\ m.in = SlotAt(m.out, m.entry) /\ m \in Rings
      /\ m.pool \in [Slots -> Values \cup {None}]
  BY ObjectsAssumption DEF Ring, Rings, Slots
<1>2. PICK p \in [Slots -> Values \cup {None}] : p = [m.pool EXCEPT ![m.in] = v]
  BY <1>1 DEF Slots
<1>3. PICK i \in Slots : i = IF m.in + 1 >= Capacity THEN 0 ELSE m.in + 1
  BY <1>1 DEF Slots
<1>4. PICK o \in Slots, n \in 0 .. Capacity : o = m.out /\ n = m.entry + 1
  BY <1>1 DEF Slots
<1>5. s = Refilled(m, p, i, o, n)
  BY <1>1, <1>2, <1>3, <1>4, StoreRefills
<1>6. s \in Rings /\ s.pool = p /\ s.in = i /\ s.out = m.out /\ s.entry = m.entry + 1
  <2>1. m \in Rings
    BY <1>1
  <2>2. s \in Rings /\ s.pool = p /\ s.in = i /\ s.out = o /\ s.entry = n
    BY <1>5, <2>1, RefilledRecord
  <2> QED
    BY <1>4, <2>2
<1>7. Ring(s)
  BY <1>1, <1>3, <1>6 DEF Ring, Rings, SlotAt
<1>8. \A j \in 1 .. m.entry + 1 :
        s.pool[SlotAt(m.out, j - 1)] = IF j = m.entry + 1 THEN v ELSE m.pool[SlotAt(m.out, j - 1)]
  <2> SUFFICES ASSUME NEW j \in 1 .. m.entry + 1
               PROVE  s.pool[SlotAt(m.out, j - 1)]
                        = IF j = m.entry + 1 THEN v ELSE m.pool[SlotAt(m.out, j - 1)]
    OBVIOUS
  <2>1. j \in Int /\ 1 <= j /\ j <= m.entry + 1
    BY <1>1
  <2>2. PICK x : x = SlotAt(m.out, j - 1)
    OBVIOUS
  <2>3. x \in Slots /\ (x = m.in <=> j = m.entry + 1)
    <3>1. /\ m.out \in Int /\ 0 <= m.out /\ m.out < Capacity
          /\ m.entry \in Int /\ 0 <= m.entry /\ m.entry < Capacity
      BY <1>1
    <3>2. /\ SlotAt(m.out, j - 1) \in Slots
          /\ SlotAt(m.out, j - 1) = SlotAt(m.out, m.entry) <=> j = m.entry + 1
      BY <1>1, <2>1, <3>1, SlotMoves
    <3> QED
      BY <1>1, <2>2, <3>2
  <2>4. x = m.in <=> j = m.entry + 1
    BY <2>3
  <2>5. p[x] = IF x = m.in THEN v ELSE m.pool[x]
    BY <1>1, <1>2, <2>3
  <2> QED
    BY <1>6, <2>2, <2>4, <2>5
<1>9. /\ Letters(m) \in Seq(Values \cup {None}) /\ Len(Letters(m)) = m.entry
      /\ \A j \in 1 .. m.entry : Letters(m)[j] = m.pool[SlotAt(m.out, j - 1)]
      /\ Letters(s) \in Seq(Values \cup {None}) /\ Len(Letters(s)) = s.entry
      /\ \A j \in 1 .. s.entry : Letters(s)[j] = s.pool[SlotAt(s.out, j - 1)]
  BY <1>7, LettersType
<1>10. /\ Len(Letters(s)) = m.entry + 1
       /\ \A j \in 1 .. m.entry + 1 : Letters(s)[j] = s.pool[SlotAt(m.out, j - 1)]
  BY <1>6, <1>9
<1>11. Shifted(Letters(m), Letters(s), 0)
  <2> SUFFICES ASSUME NEW j \in 1 .. m.entry
               PROVE  Letters(s)[j] = Letters(m)[j]
    BY <1>9 DEF Shifted
  <2>1. j \in 1 .. m.entry + 1 /\ j # m.entry + 1
    BY <1>1
  <2> QED
    BY <1>8, <1>9, <1>10, <2>1
<1>12. Letters(s)[m.entry + 1] = v
  <2>1. m.entry + 1 \in 1 .. m.entry + 1
    BY <1>1
  <2> QED
    BY <1>8, <1>10, <2>1
<1>13. Letters(s) = Append(Letters(m), v)
  BY <1>9, <1>10, <1>11, <1>12, IsAppend
<1> QED
  BY <1>6, <1>7, <1>13

\* ... an urgent one first, ...
LEMMA StoreFirstLetter ==
  ASSUME NEW m, Ring(m), m.entry < Capacity, NEW v \in Values \cup {None},
         NEW s, s = Box!StoreFirst(m, v)
  PROVE  Ring(s) /\ s.entry = m.entry + 1 /\ Letters(s) = <<v>> \o Letters(m)
<1>1. /\ Capacity \in Nat \ {0} /\ m.out \in 0 .. Capacity - 1 /\ m.entry \in 0 .. Capacity - 1
      /\ m.in \in 0 .. Capacity - 1 /\ m.in = SlotAt(m.out, m.entry) /\ m \in Rings
      /\ m.pool \in [Slots -> Values \cup {None}]
  BY ObjectsAssumption DEF Ring, Rings, Slots
<1>2. PICK o \in Slots : o = IF m.out > 0 THEN m.out - 1 ELSE Capacity - 1
  BY <1>1 DEF Slots
<1>3. PICK p \in [Slots -> Values \cup {None}] : p = [m.pool EXCEPT ![o] = v]
  BY <1>1
<1>4. PICK i \in Slots, n \in 0 .. Capacity : i = m.in /\ n = m.entry + 1
  BY <1>1 DEF Slots
<1>5. s = Refilled(m, p, i, o, n)
  BY <1>1, <1>2, <1>3, <1>4, StoreFirstRefills
<1>6. s \in Rings /\ s.pool = p /\ s.in = m.in /\ s.out = o /\ s.entry = m.entry + 1
  <2>1. m \in Rings
    BY <1>1
  <2>2. s \in Rings /\ s.pool = p /\ s.in = i /\ s.out = o /\ s.entry = n
    BY <1>5, <2>1, RefilledRecord
  <2> QED
    BY <1>4, <2>2
<1>7. Ring(s)
  <2>1. o \in 0 .. Capacity - 1
    BY DEF Slots
  <2> QED
    BY <1>1, <1>2, <1>6, <2>1 DEF Ring, Rings, SlotAt
<1>8. \A j \in 1 .. m.entry : s.pool[SlotAt(o, j)] = m.pool[SlotAt(m.out, j - 1)]
  <2> SUFFICES ASSUME NEW j \in 1 .. m.entry
               PROVE  s.pool[SlotAt(o, j)] = m.pool[SlotAt(m.out, j - 1)]
    OBVIOUS
  <2>1. o \in 0 .. Capacity - 1 /\ j \in Int /\ 1 <= j /\ j <= Capacity - 1
    BY <1>1 DEF Slots
  <2>2. SlotAt(o, j) = SlotAt(m.out, j - 1)
    BY <1>1, <1>2, <2>1 DEF SlotAt
  <2>3. SlotAt(o, j) \in Slots /\ SlotAt(o, j) # o
    <3>1. PICK z : z = Capacity
      OBVIOUS
    <3>2. /\ z \in Nat \ {0} /\ o \in Int /\ 0 <= o /\ o <= z - 1
          /\ j \in Int /\ 1 <= j /\ j <= z - 1
      BY <1>1, <2>1, <3>1
    <3>3. SlotAt(o, j) = IF o + j < z THEN o + j ELSE o + j - z
      BY <3>1 DEF SlotAt
    <3>4. SlotAt(o, j) \in 0 .. z - 1 /\ SlotAt(o, j) # o
      BY <3>2, <3>3
    <3> QED
      BY <3>1, <3>4 DEF Slots
  <2> QED
    BY <1>1, <1>3, <1>6, <2>2, <2>3
<1>9. /\ Letters(m) \in Seq(Values \cup {None}) /\ Len(Letters(m)) = m.entry
      /\ \A j \in 1 .. m.entry : Letters(m)[j] = m.pool[SlotAt(m.out, j - 1)]
      /\ Letters(s) \in Seq(Values \cup {None}) /\ Len(Letters(s)) = m.entry + 1
      /\ \A j \in 1 .. m.entry + 1 : Letters(s)[j] = s.pool[SlotAt(o, j - 1)]
  BY <1>6, <1>7, LettersType
<1>10. Shifted(Letters(m), Letters(s), 1)
  <2> SUFFICES ASSUME NEW j \in 1 .. m.entry
               PROVE  Letters(s)[j + 1] = Letters(m)[j]
    BY <1>9 DEF Shifted
  <2>1. j + 1 \in 1 .. m.entry + 1 /\ (j + 1) - 1 = j
    BY <1>1
  <2>2. Letters(s)[j + 1] = s.pool[SlotAt(o, j)]
    BY <1>9, <2>1
  <2> QED
    BY <1>8, <1>9, <2>2
<1>11. Letters(s)[1] = v
  <2>1. SlotAt(o, 0) = o /\ 1 \in 1 .. m.entry + 1 /\ 1 - 1 = 0
    BY <1>1 DEF SlotAt, Slots
  <2> QED
    BY <1>1, <1>3, <1>6, <1>9, <2>1
<1>12. Letters(s) = <<v>> \o Letters(m)
  BY <1>9, <1>10, <1>11, IsFront
<1> QED
  BY <1>6, <1>7, <1>12

\* ... and the first one leaves.
LEMMA DropLetter ==
  ASSUME NEW m, Ring(m), m.entry # 0, NEW s, s = Box!Drop(m)
  PROVE  /\ Ring(s) /\ s.entry = m.entry - 1
         /\ Letters(m) # <<>> /\ Letters(s) = Tail(Letters(m))
         /\ m.pool[m.out] = Head(Letters(m)) /\ m.pool[m.out] \in Values \cup {None}
<1>1. /\ Capacity \in Nat \ {0} /\ m.out \in 0 .. Capacity - 1 /\ m.entry \in 1 .. Capacity
      /\ m.in \in 0 .. Capacity - 1 /\ m.in = SlotAt(m.out, m.entry) /\ m \in Rings
      /\ m.pool \in [Slots -> Values \cup {None}] /\ m.in \in Slots /\ m.out \in Slots
  BY ObjectsAssumption DEF Ring, Rings, Slots
<1>2. PICK o \in Slots : o = IF m.out + 1 >= Capacity THEN 0 ELSE m.out + 1
  BY <1>1 DEF Slots
<1>3. s = Refilled(m, m.pool, m.in, o, m.entry - 1)
  BY <1>1, <1>2, DropRefills
<1>4. m.entry - 1 \in 0 .. Capacity
  BY <1>1
<1>5. s \in Rings /\ s.pool = m.pool /\ s.in = m.in /\ s.out = o /\ s.entry = m.entry - 1
  <2>1. PICK p, i, n : p = m.pool /\ i = m.in /\ n = m.entry - 1
    OBVIOUS
  <2>2. /\ m \in Rings /\ o \in Slots
        /\ p \in [Slots -> Values \cup {None}] /\ i \in Slots /\ n \in 0 .. Capacity
    BY <1>1, <1>2, <1>4, <2>1
  <2>3. s = Refilled(m, p, i, o, n)
    BY <1>3, <2>1
  <2>4. s \in Rings /\ s.pool = p /\ s.in = i /\ s.out = o /\ s.entry = n
    BY <2>2, <2>3, RefilledRecord
  <2> QED
    BY <2>1, <2>4
<1>6. Ring(s)
  <2>1. o \in 0 .. Capacity - 1
    BY DEF Slots
  <2> QED
    BY <1>1, <1>2, <1>5, <2>1 DEF Ring, Rings, SlotAt
<1>7. \A j \in 1 .. m.entry - 1 : SlotAt(o, j - 1) = SlotAt(m.out, j)
  <2>1. o \in 0 .. Capacity - 1
    BY DEF Slots
  <2> QED
    BY <1>1, <1>2, <2>1 DEF SlotAt
<1>8. /\ Letters(m) \in Seq(Values \cup {None}) /\ Len(Letters(m)) = m.entry
      /\ \A j \in 1 .. m.entry : Letters(m)[j] = m.pool[SlotAt(m.out, j - 1)]
      /\ Letters(s) \in Seq(Values \cup {None}) /\ Len(Letters(s)) = m.entry - 1
      /\ \A j \in 1 .. m.entry - 1 : Letters(s)[j] = s.pool[SlotAt(o, j - 1)]
  BY <1>5, <1>6, LettersType
<1>9. Letters(m) # <<>>
  BY <1>1, <1>8
<1>10. Shifted(Letters(s), Letters(m), 1)
  <2> SUFFICES ASSUME NEW j \in 1 .. m.entry - 1
               PROVE  Letters(m)[j + 1] = Letters(s)[j]
    BY <1>8 DEF Shifted
  <2>1. j + 1 \in 1 .. m.entry /\ (j + 1) - 1 = j
    BY <1>1
  <2>2. Letters(m)[j + 1] = m.pool[SlotAt(m.out, j)]
    BY <1>8, <2>1
  <2> QED
    BY <1>5, <1>7, <1>8, <2>2
<1>11. Letters(s) = Tail(Letters(m))
  BY <1>8, <1>9, <1>10, IsTail
<1>12. m.pool[m.out] = Head(Letters(m))
  <2>1. SlotAt(m.out, 0) = m.out /\ 1 \in 1 .. m.entry /\ 1 - 1 = 0
    BY <1>1 DEF SlotAt
  <2>2. Letters(m)[1] = m.pool[m.out]
    BY <1>8, <2>1
  <2> QED
    BY <1>8, <1>9, <2>2
<1>13. m.pool[m.out] \in Values \cup {None}
  BY <1>1
<1> QED
  BY <1>5, <1>6, <1>9, <1>11, <1>12, <1>13

-----------------------------------------------------------------------------
(* The steps of the abstract channel.                                      *)

Line ==
  CASE kind = "mailbox" -> Box!Content [] kind = "mq" -> Queue!Content [] OTHER -> <<>>
Handed == IF kind \in {"mailbox", "mq"} THEN ghost ELSE None

\* The step takes t to the phase x with the message v, and nobody else anywhere.
Passes(t, x, v) ==
  \A u \in Peers : /\ ChannelPhase(u)' = IF u = t THEN x ELSE ChannelPhase(u)
                   /\ ChannelItem(u)' = IF u = t THEN v ELSE ChannelItem(u)

Rests == \A u \in Peers : ChannelPhase(u)' = ChannelPhase(u) /\ ChannelItem(u)' = ChannelItem(u)

LEMMA ChanEnters ==
  ASSUME NEW t \in Peers, NEW x, NEW v, Passes(t, x, v)
  PROVE  Channel!Enter(t, x, v)
<1>1. [u \in Peers |-> ChannelPhase(u)]' = [[u \in Peers |-> ChannelPhase(u)] EXCEPT ![t] = x]
  BY DEF Passes
<1>2. [u \in Peers |-> ChannelItem(u)]' = [[u \in Peers |-> ChannelItem(u)] EXCEPT ![t] = v]
  BY DEF Passes
<1> QED
  BY <1>1, <1>2 DEF Channel!Enter

LEMMA ChanRests ==
  ASSUME Rests
  PROVE  /\ [u \in Peers |-> ChannelPhase(u)]' = [u \in Peers |-> ChannelPhase(u)]
         /\ [u \in Peers |-> ChannelItem(u)]' = [u \in Peers |-> ChannelItem(u)]
BY DEF Rests

LEMMA ChanQuiet ==
  ASSUME Rests, Line' = Line, Handed' = Handed
  PROVE  UNCHANGED Channel!vars
BY ChanRests DEF Channel!vars, Line, Handed

LEMMA ChanSends ==
  ASSUME Rests, Handed' = Handed, Len(Line) < Capacity, NEW v \in Values,
         Line' = Append(Line, v) \/ Line' = <<v>> \o Line
  PROVE  Channel!Next
<1>1. Channel!Send(v)
  BY ChanRests DEF Channel!Send, Channel!Put, Channel!PutFirst, Channel!HasRoom, Line, Handed
<1> QED
  BY <1>1 DEF Channel!Next

LEMMA ChanReceives ==
  ASSUME Rests, Line # <<>>, Line' = Tail(Line), Handed' = Head(Line)
  PROVE  Channel!Next
<1>1. Channel!Receive
  BY ChanRests DEF Channel!Receive, Line, Handed
<1> QED
  BY <1>1 DEF Channel!Next

LEMMA ChanResets ==
  ASSUME Rests, Line' = <<>>, Handed' = Handed
  PROVE  Channel!Next
<1>1. Channel!Reset
  BY ChanRests DEF Channel!Reset, Line, Handed
<1> QED
  BY <1>1 DEF Channel!Next

LEMMA ChanBegins ==
  ASSUME NEW t \in Peers, NEW v \in Values, NEW x \in {"sending", "urging"},
         ChannelPhase(t) = "out", Passes(t, x, v), Line' = Line, Handed' = Handed
  PROVE  Channel!Next
<1>1. Channel!Enter(t, "sending", v) \/ Channel!Enter(t, "urging", v)
  BY ChanEnters
<1>2. [u \in Peers |-> ChannelPhase(u)][t] = "out"
  OBVIOUS
<1>3. Channel!Begin(t, v)
  BY <1>1, <1>2 DEF Channel!Begin, Line, Handed
<1> QED
  BY <1>3 DEF Channel!Next

LEMMA ChanDelivers ==
  ASSUME NEW t \in Peers, Passes(t, "out", None), Handed' = Handed, Len(Line) < Capacity,
         \/ ChannelPhase(t) = "sending" /\ Line' = Append(Line, ChannelItem(t))
         \/ ChannelPhase(t) = "urging" /\ Line' = <<ChannelItem(t)>> \o Line
  PROVE  Channel!Next
<1>1. Channel!Leave(t)
  BY ChanEnters DEF Channel!Leave
<1>2. /\ [u \in Peers |-> ChannelPhase(u)][t] = ChannelPhase(t)
      /\ [u \in Peers |-> ChannelItem(u)][t] = ChannelItem(t)
  OBVIOUS
<1>3. Channel!Deliver(t)
  BY <1>1, <1>2 DEF Channel!Deliver, Channel!Put, Channel!PutFirst, Channel!HasRoom, Line, Handed
<1> QED
  BY <1>3 DEF Channel!Next

LEMMA ChanFails ==
  ASSUME NEW t \in Peers, ChannelPhase(t) = "sending", Passes(t, "out", None),
         Line' = Line, Handed' = Handed
  PROVE  Channel!Next
<1>1. Channel!Leave(t)
  BY ChanEnters DEF Channel!Leave
<1>2. [u \in Peers |-> ChannelPhase(u)][t] = "sending"
  OBVIOUS
<1>3. Channel!Fail(t)
  BY <1>1, <1>2 DEF Channel!Fail, Line, Handed
<1> QED
  BY <1>3 DEF Channel!Next

LEMMA ChanFetches ==
  ASSUME NEW t \in Peers, ChannelPhase(t) = "out", Line # <<>>, Line' = Tail(Line),
         Passes(t, "copying", Head(Line)), Handed' = Handed
  PROVE  Channel!Next
<1>1. Channel!Enter(t, "copying", Head(Line))
  BY ChanEnters
<1>2. [u \in Peers |-> ChannelPhase(u)][t] = "out"
  OBVIOUS
<1>3. Channel!Fetch(t)
  BY <1>1, <1>2 DEF Channel!Fetch, Line, Handed
<1> QED
  BY <1>3 DEF Channel!Next

LEMMA ChanHandsOver ==
  ASSUME NEW t \in Peers, ChannelPhase(t) = "copying", Passes(t, "out", None),
         Line' = Line, Handed' = ChannelItem(t)
  PROVE  Channel!Next
<1>1. Channel!Leave(t)
  BY ChanEnters DEF Channel!Leave
<1>2. /\ [u \in Peers |-> ChannelPhase(u)][t] = "copying"
      /\ [u \in Peers |-> ChannelItem(u)][t] = ChannelItem(t)
  OBVIOUS
<1>3. Channel!HandOver(t)
  BY <1>1, <1>2 DEF Channel!HandOver, Line, Handed
<1> QED
  BY <1>3 DEF Channel!Next

-----------------------------------------------------------------------------
(* Mailboxes.                                                              *)

BoxInv ==
  /\ MailWaits(th, pc)
  /\ pc \in [Peers -> {"run", "send", "recv"}]
  /\ Ring(obj)
  /\ call \in [Peers -> [msg : Values \cup {None}, left : Patience]]
  /\ \A t \in Peers : pc[t] # "send" => call[t].msg = None
  /\ ghost \in Values \cup {None}
  /\ Served(th, pc, obj.entry, Capacity - obj.entry)

\* A step of a mailbox in such a state, and what it does.
BoxSteps == kind = "mailbox" /\ kind' = "mailbox" /\ BoxInv
BoxKept == BoxInv' /\ [Channel!Next]_Channel!vars

LEMMA BoxEntry ==
  ASSUME BoxSteps
  PROVE  /\ Capacity \in Nat \ {0} /\ obj.entry \in 0 .. Capacity /\ obj.entry \in Nat
         /\ Capacity - obj.entry \in Nat /\ th \in PeerRecords
BY ObjectsAssumption DEF BoxSteps, BoxInv, Ring, Rings, MailWaits, Settled

LEMMA BoxLine ==
  ASSUME BoxSteps, BoxInv'
  PROVE  /\ Line = Letters(obj) /\ Line' = Letters(obj') /\ Handed = ghost /\ Handed' = ghost'
         /\ \A u \in Peers :
              /\ ChannelPhase(u) = IF pc[u] = "send" THEN "sending" ELSE "out"
              /\ ChannelPhase(u)' = IF pc'[u] = "send" THEN "sending" ELSE "out"
              /\ ChannelItem(u) = call[u].msg /\ ChannelItem(u)' = call'[u].msg
<1>1. Box!Content = Letters(obj)
  BY RingContent DEF BoxSteps, BoxInv
<1>2. (Ring(obj) => Box!Content = Letters(obj))'
  BY RingContent, PTL
<1>3. Box!Content' = Letters(obj')
  BY <1>2 DEF BoxInv
<1> QED
  BY <1>1, <1>3 DEF BoxSteps, Line, Handed, ChannelPhase, ChannelItem

LEMMA BoxRests ==
  ASSUME BoxSteps, BoxInv', UNCHANGED <<pc, call>>
  PROVE  Rests
BY BoxLine DEF Rests

\* Every thread that is not in the step keeps its place and its call.
LEMMA BoxPasses ==
  ASSUME BoxSteps, BoxInv', NEW t \in Peers, NEW x \in {"run", "send", "recv"},
         Moved(pc, pc', t, x), NEW v, call'[t].msg = v, \A u \in Peers \ {t} : call'[u] = call[u]
  PROVE  Passes(t, IF x = "send" THEN "sending" ELSE "out", v)
BY BoxLine DEF Passes, Moved

LEMMA BoxQuiet ==
  ASSUME BoxSteps, UNCHANGED <<th, pc, obj, call, ghost>>
  PROVE  BoxKept
<1>1. BoxInv'
  BY DEF BoxSteps, BoxInv
<1>2. UNCHANGED Channel!vars
  BY <1>1, BoxRests, BoxLine, ChanQuiet
<1> QED
  BY <1>1, <1>2 DEF BoxKept

\* rt_mb_init and rt_mb_create.
LEMMA BoxSetUp ==
  ASSUME BoxSteps, UNCHANGED <<th, pc, call, ghost>>, \A t \in Peers : pc[t] = "run",
         obj' = Box!Empty
  PROVE  BoxKept
<1>1. \A q \in Queues : th.wait[q] = <<>>
  <2> SUFFICES ASSUME NEW q \in Queues, th.wait[q] # <<>>
               PROVE  FALSE
    OBVIOUS
  <2>1. th.wait[q] \in Seq(Peers)
    BY BoxEntry DEF PeerRecords
  <2>2. Head(th.wait[q]) \in Peers /\ Contains(th.wait[q], Head(th.wait[q]))
    BY <2>1 DEF Contains
  <2> QED
    BY <2>2 DEF BoxSteps, BoxInv, MailWaits, PlaceOf
<1>2. PICK m : m = obj'
  OBVIOUS
<1>3. /\ m.entry = 0 /\ m.out = 0 /\ m.in = 0 /\ m \in Rings
  BY <1>2, BoxEntry DEF Box!Empty, Box!Slots, Slots, Rings
<1>4. Ring(m)
  BY <1>3, BoxEntry DEF Ring, SlotAt
<1>5. Served(th, pc, m.entry, Capacity - m.entry)
  BY <1>1 DEF Served, Queues
<1>6. BoxInv'
  BY <1>2, <1>4, <1>5 DEF BoxSteps, BoxInv
<1>7. Letters(m) = <<>>
  BY <1>3, <1>4, LettersType
<1>8. Channel!Next
  BY <1>2, <1>6, <1>7, BoxRests, BoxLine, ChanResets
<1> QED
  BY <1>6, <1>8 DEF BoxKept

\* rt_mb_control.
LEMMA BoxReset ==
  ASSUME BoxSteps, Box!rt_mb_control
  PROVE  BoxKept
<1>1. Emptied(th, th')
  <2>1. th' = ClearList(ClearList(th, "receivers"), "senders")
    BY BoxSame DEF Box!rt_mb_control
  <2> QED
    BY <2>1, ResetEmptied DEF BoxSteps, BoxInv, MailWaits
<1>2. PICK m : m = obj'
  OBVIOUS
<1>3. m.entry = 0 /\ m.out = 0 /\ m.in = 0 /\ m \in Rings
  <2>1. m = [Box!Empty EXCEPT !.pool = obj.pool]
    BY <1>2 DEF Box!rt_mb_control
  <2>2. obj.pool \in [Slots -> Values \cup {None}]
    BY DEF BoxSteps, BoxInv, Ring, Rings
  <2>3. m = [pool |-> obj.pool, in |-> 0, out |-> 0, entry |-> 0]
    BY <2>1 DEF Box!Empty
  <2>4. 0 \in Slots /\ 0 \in 0 .. Capacity
    BY BoxEntry DEF Slots
  <2> QED
    BY <2>2, <2>3, <2>4 DEF Rings
<1>4. Ring(m)
  BY <1>3, BoxEntry DEF Ring, SlotAt
<1>5. MailWaits(th', pc) /\ Served(th', pc, m.entry, Capacity - m.entry)
  <2>1. PICK s : s = th'
    OBVIOUS
  <2>2. PICK n, k : n = m.entry /\ k = Capacity - m.entry
    OBVIOUS
  <2>3. MailWaits(s, pc) /\ Served(s, pc, n, k)
    BY <1>1, <2>1, EmptyServes DEF BoxSteps, BoxInv
  <2> QED
    BY <2>1, <2>2, <2>3
<1>6. pc' = pc /\ call' = call /\ ghost' = ghost
  BY DEF Box!rt_mb_control
<1>7. BoxInv'
  BY <1>2, <1>4, <1>5, <1>6 DEF BoxSteps, BoxInv
<1>8. Letters(m) = <<>>
  BY <1>3, <1>4, LettersType
<1>9. Channel!Next
  BY <1>2, <1>6, <1>7, <1>8, BoxRests, BoxLine, ChanResets
<1> QED
  BY <1>7, <1>9 DEF BoxKept

\* A wait ends with an error: its timeout has passed, or the mailbox is destroyed.
LEMMA BoxWakes ==
  ASSUME BoxSteps, NEW t \in Peers, th.stat[t] = "suspend", NEW e \in Errors \ {"ok"},
         Woke(th, th', t, e), UNCHANGED <<pc, obj, call, ghost>>
  PROVE  BoxKept
<1>1. MailWaits(th', pc) /\ Served(th', pc, obj.entry, Capacity - obj.entry)
  <2>1. PICK s, n, k : s = th' /\ n = obj.entry /\ k = Capacity - obj.entry
    OBVIOUS
  <2>2. MailWaits(s, pc) /\ Served(s, pc, n, k)
    BY <2>1, FailServes DEF BoxSteps, BoxInv
  <2> QED
    BY <2>1, <2>2
<1>2. BoxInv'
  BY <1>1 DEF BoxSteps, BoxInv
<1>3. UNCHANGED Channel!vars
  BY <1>2, BoxRests, BoxLine, ChanQuiet
<1> QED
  BY <1>2, <1>3 DEF BoxKept

\* A message goes in, in one step: rt_mb_send_wait and rt_mb_urgent when there is room.
LEMMA BoxSends ==
  ASSUME BoxSteps, NEW v \in Values, Box!SendNow(v) \/ Box!rt_mb_urgent(v)
  PROVE  BoxKept
<1>1. /\ obj.entry # Capacity /\ th' = WakeFirst(th, "receivers")
      /\ UNCHANGED <<pc, call, ghost>>
      /\ obj' = Box!Store(obj, v) \/ obj' = Box!StoreFirst(obj, v)
  BY BoxSame DEF Box!SendNow, Box!rt_mb_urgent, Box!PutMessage, Box!IsFull
<1>2. Ring(obj) /\ obj.entry < Capacity /\ v \in Values \cup {None}
  BY <1>1, BoxEntry DEF BoxSteps, BoxInv
<1>3. PICK m : m = obj'
  OBVIOUS
<1>4. /\ Ring(m) /\ m.entry = obj.entry + 1
      /\ Letters(m) = Append(Letters(obj), v) \/ Letters(m) = <<v>> \o Letters(obj)
  BY <1>1, <1>2, <1>3, StoreLetter, StoreFirstLetter
<1>5. PICK s, n, k :
        n \in Nat /\ k \in Nat /\ s = th' /\ n = obj.entry /\ k = Capacity - obj.entry
  BY BoxEntry
<1>6. MailWaits(s, pc) /\ Served(s, pc, n + 1, k)
  <2>1. "receivers" \in Queues /\ s = WakeFirst(th, "receivers")
        /\ MailWaits(th, pc) /\ Served(th, pc, n, k)
    BY <1>1, <1>5 DEF Queues, BoxSteps, BoxInv
  <2> QED
    BY <1>5, <2>1, WakeFirstServes
<1>7. Served(s, pc, m.entry, Capacity - m.entry)
  <2>1. m.entry = n + 1 /\ Capacity - m.entry \in Int /\ Capacity - m.entry <= k
    BY <1>4, <1>5, BoxEntry
  <2>2. PICK j \in Int : j = Capacity - m.entry
    BY <2>1
  <2>3. n + 1 \in Int /\ k \in Int /\ j \in Int /\ j <= k /\ n + 1 <= n + 1
    BY <1>5, <2>1, <2>2
  <2>4. Served(s, pc, n + 1, j)
    BY <1>6, <2>3, ServedLess
  <2> QED
    BY <2>1, <2>2, <2>4
<1>8. BoxInv'
  BY <1>1, <1>3, <1>4, <1>5, <1>6, <1>7 DEF BoxSteps, BoxInv
<1>9. Len(Letters(obj)) = obj.entry
  BY <1>2, LettersType
<1>10. Channel!Next
  BY <1>1, <1>2, <1>3, <1>4, <1>8, <1>9, BoxRests, BoxLine, ChanSends
<1> QED
  BY <1>8, <1>10 DEF BoxKept

\* A message comes out: rt_mb_recv when there is one.
LEMMA BoxReceives ==
  ASSUME BoxSteps, Box!RecvNow
  PROVE  BoxKept
<1>1. /\ obj.entry # 0 /\ th' = WakeFirst(th, "senders") /\ UNCHANGED <<pc, call>>
      /\ obj' = Box!Drop(obj) /\ ghost' = obj.pool[obj.out]
  BY BoxSame DEF Box!RecvNow, Box!GetMessage, Box!IsEmpty
<1>2. Ring(obj)
  BY DEF BoxSteps, BoxInv
<1>3. PICK m : m = obj'
  OBVIOUS
<1>4. /\ Ring(m) /\ m.entry = obj.entry - 1
      /\ Letters(obj) # <<>> /\ Letters(m) = Tail(Letters(obj))
      /\ ghost' = Head(Letters(obj)) /\ ghost' \in Values \cup {None}
  BY <1>1, <1>2, <1>3, DropLetter
<1>5. PICK s, n, k :
        n \in Nat /\ k \in Nat /\ s = th' /\ n = obj.entry /\ k = Capacity - obj.entry
  BY BoxEntry
<1>6. MailWaits(s, pc) /\ Served(s, pc, n, k + 1)
  <2>1. "senders" \in Queues /\ s = WakeFirst(th, "senders")
        /\ MailWaits(th, pc) /\ Served(th, pc, n, k)
    BY <1>1, <1>5 DEF Queues, BoxSteps, BoxInv
  <2> QED
    BY <1>5, <2>1, WakeFirstServes
<1>7. Served(s, pc, m.entry, Capacity - m.entry)
  <2>1. Capacity - m.entry = k + 1 /\ m.entry \in Int /\ m.entry <= n
    BY <1>1, <1>4, <1>5, BoxEntry
  <2>2. PICK j \in Int : j = m.entry
    BY <2>1
  <2>3. Served(s, pc, j, k + 1)
    BY <1>5, <1>6, <2>1, <2>2, ServedLess
  <2> QED
    BY <2>1, <2>2, <2>3
<1>8. BoxInv'
  BY <1>1, <1>3, <1>4, <1>5, <1>6, <1>7 DEF BoxSteps, BoxInv
<1>9. Channel!Next
  BY <1>1, <1>3, <1>4, <1>8, BoxRests, BoxLine, ChanReceives
<1> QED
  BY <1>8, <1>9 DEF BoxKept

\* A caller that finds the mailbox full or empty waits.
LEMMA BoxSendWaits ==
  ASSUME BoxSteps, NEW t \in Peers, NEW v \in Values, NEW patience \in Waits,
         Box!SendWait(t, v, patience)
  PROVE  BoxKept
<1>1. /\ pc[t] = "run" /\ th.stat[t] = "ready" /\ obj.entry = Capacity
      /\ th' = Suspend(Told1(th, t, "ok"), "senders", t, patience)
      /\ pc' = [pc EXCEPT ![t] = "send"] /\ UNCHANGED <<obj, ghost>>
      /\ call' = [call EXCEPT ![t] = [msg |-> v, left |-> patience]]
  BY BoxSame DEF Box!SendWait, Box!Calls, Box!IsFull, Box!WaitOn, Box!Goto, Told1
<1>2. Moved(pc, pc', t, "send")
  BY <1>1 DEF BoxSteps, BoxInv, Moved
<1>3. PICK s, n, k, p2 :
        n \in Nat /\ k \in Nat /\ s = th' /\ n = obj.entry /\ k = Capacity - obj.entry /\ p2 = pc'
  BY BoxEntry
<1>4. MailWaits(s, p2) /\ Served(s, p2, n, k)
  <2>1. /\ "senders" \in Queues /\ PlaceOf("senders") = "send" /\ k = 0 /\ "senders" # "receivers"
        /\ s = Suspend(Told1(th, t, "ok"), "senders", t, patience) /\ Moved(pc, p2, t, "send")
        /\ MailWaits(th, pc) /\ Served(th, pc, n, k) /\ pc[t] \in {"run", "send"}
        /\ th.stat[t] = "ready"
    BY <1>1, <1>2, <1>3, BoxEntry DEF Queues, PlaceOf, BoxSteps, BoxInv
  <2> QED
    BY <1>3, <2>1, SleepServes
<1>5. call' \in [Peers -> [msg : Values \cup {None}, left : Patience]]
      /\ call'[t].msg = v /\ \A u \in Peers \ {t} : call'[u] = call[u]
  <2>1. patience \in Patience
    BY IpcAssumption, ObjectsAssumption
  <2> QED
    BY <1>1, <2>1 DEF BoxSteps, BoxInv
<1>6. BoxInv'
  BY <1>1, <1>2, <1>3, <1>4, <1>5 DEF BoxSteps, BoxInv, Moved
<1>7. ChannelPhase(t) = "out"
  BY <1>1, <1>6, BoxLine
<1>8. Passes(t, "sending", v)
  BY <1>2, <1>5, <1>6, BoxPasses
<1>9. Line' = Line /\ Handed' = Handed
  BY <1>1, <1>6, BoxLine
<1>10. Channel!Next
  BY <1>7, <1>8, <1>9, ChanBegins
<1> QED
  BY <1>6, <1>10 DEF BoxKept

LEMMA BoxRecvWaits ==
  ASSUME BoxSteps, NEW t \in Peers, NEW patience \in Waits, Box!RecvWait(t, patience)
  PROVE  BoxKept
<1>1. /\ pc[t] = "run" /\ th.stat[t] = "ready" /\ obj.entry = 0
      /\ th' = Suspend(Told1(th, t, "ok"), "receivers", t, patience)
      /\ pc' = [pc EXCEPT ![t] = "recv"] /\ UNCHANGED <<obj, ghost>>
      /\ call' = [call EXCEPT ![t].left = patience]
  BY BoxSame DEF Box!RecvWait, Box!Calls, Box!IsEmpty, Box!WaitOn, Box!Goto, Told1
<1>2. Moved(pc, pc', t, "recv")
  BY <1>1 DEF BoxSteps, BoxInv, Moved
<1>3. PICK s, n, k, p2 :
        n \in Nat /\ k \in Nat /\ s = th' /\ n = obj.entry /\ k = Capacity - obj.entry /\ p2 = pc'
  BY BoxEntry
<1>4. MailWaits(s, p2) /\ Served(s, p2, n, k)
  <2>1. /\ "receivers" \in Queues /\ PlaceOf("receivers") = "recv" /\ n = 0
        /\ "senders" # "receivers"
        /\ s = Suspend(Told1(th, t, "ok"), "receivers", t, patience) /\ Moved(pc, p2, t, "recv")
        /\ MailWaits(th, pc) /\ Served(th, pc, n, k) /\ pc[t] \in {"run", "recv"}
        /\ th.stat[t] = "ready"
    BY <1>1, <1>2, <1>3, BoxEntry DEF Queues, PlaceOf, BoxSteps, BoxInv
  <2> QED
    BY <1>3, <2>1, SleepServes
<1>5. call' \in [Peers -> [msg : Values \cup {None}, left : Patience]]
      /\ \A u \in Peers : call'[u].msg = call[u].msg
  <2>1. patience \in Patience
    BY IpcAssumption, ObjectsAssumption
  <2> QED
    BY <1>1, <2>1 DEF BoxSteps, BoxInv
<1>6. BoxInv'
  BY <1>1, <1>2, <1>3, <1>4, <1>5 DEF BoxSteps, BoxInv, Moved
<1>7. Rests
  BY <1>1, <1>2, <1>5, <1>6, BoxLine DEF Rests, Moved
<1>8. UNCHANGED Channel!vars
  BY <1>1, <1>6, <1>7, BoxLine, ChanQuiet
<1> QED
  BY <1>6, <1>8 DEF BoxKept

\* A wait that failed, or a call whose patience is over, returns.
LEMMA BoxLeaves ==
  ASSUME BoxSteps, NEW t \in Peers, pc[t] \in {"send", "recv"}, th.stat[t] = "ready",
         \/ th.err[t] # "ok"
         \/ pc[t] = "send" /\ obj.entry = Capacity
         \/ pc[t] = "recv" /\ obj.entry = 0,
         pc' = [pc EXCEPT ![t] = "run"], call' = [call EXCEPT ![t] = NoMessage],
         th' = th \/ th' = Told1(th, t, "timeout"), UNCHANGED <<obj, ghost>>
  PROVE  BoxKept
<1>1. Moved(pc, pc', t, "run")
  BY DEF BoxSteps, BoxInv, Moved
<1>2. PICK s, n, k, p2 :
        n \in Nat /\ k \in Nat /\ s = th' /\ n = obj.entry /\ k = Capacity - obj.entry /\ p2 = pc'
  BY BoxEntry
<1>3. MailWaits(th, p2) /\ Served(th, p2, n, k)
  <2>1. /\ "run" \notin {"recv", "send"} /\ Moved(pc, p2, t, "run")
        /\ MailWaits(th, pc) /\ Served(th, pc, n, k)
    BY <1>1, <1>2 DEF BoxSteps, BoxInv
  <2>2. th.err[t] # "ok" \/ (pc[t] = "send" /\ k = 0) \/ (pc[t] = "recv" /\ n = 0)
    BY <1>2, BoxEntry
  <2>3. /\ n \in Nat /\ k \in Nat /\ th.stat[t] = "ready"
    BY <1>2
  <2>4. /\ MailWaits(th, p2)
        /\ pc[t] \notin {"recv", "send"} \/ th.err[t] # "ok" => Served(th, p2, n, k)
        /\ pc[t] = "recv" /\ n = 0 => Served(th, p2, n, k)
        /\ pc[t] = "send" /\ k = 0 => Served(th, p2, n, k)
    BY <2>1, <2>3, LeaveServes
  <2> QED
    BY <2>2, <2>4
<1>4. MailWaits(s, p2) /\ Served(s, p2, n, k)
  <2>1. p2[t] \notin {"recv", "send"} /\ "timeout" \in Errors
    BY <1>1, <1>2 DEF Moved, Errors
  <2> QED
    BY <1>2, <1>3, <2>1, TellServes
<1>5. /\ call' \in [Peers -> [msg : Values \cup {None}, left : Patience]]
      /\ call'[t].msg = None /\ \A u \in Peers \ {t} : call'[u] = call[u]
  BY DEF BoxSteps, BoxInv, NoMessage, Patience
<1>6. BoxInv'
  BY <1>1, <1>2, <1>4, <1>5 DEF BoxSteps, BoxInv, Moved
<1>7. Passes(t, "out", None)
  BY <1>1, <1>5, <1>6, BoxPasses
<1>8. Line' = Line /\ Handed' = Handed
  BY <1>6, BoxLine
<1>9. CASE pc[t] = "send"
  <2>1. ChannelPhase(t) = "sending"
    BY <1>6, <1>9, BoxLine
  <2>2. Channel!Next
    BY <1>7, <1>8, <2>1, ChanFails
  <2> QED
    BY <1>6, <2>2 DEF BoxKept
<1>10. CASE pc[t] = "recv"
  <2>1. ChannelPhase(t) = "out" /\ ChannelItem(t) = None
    BY <1>6, <1>10, BoxLine DEF BoxSteps, BoxInv
  <2>2. Rests
    BY <1>7, <2>1 DEF Passes, Rests
  <2>3. UNCHANGED Channel!vars
    BY <1>8, <2>2, ChanQuiet
  <2> QED
    BY <1>6, <2>3 DEF BoxKept
<1> QED
  BY <1>9, <1>10

\* A sender that was woken finds room.
LEMMA BoxDelivers ==
  ASSUME BoxSteps, NEW t \in Peers, pc[t] = "send", th.stat[t] = "ready", th.err[t] = "ok",
         obj.entry # Capacity, obj' = Box!Store(obj, call[t].msg),
         th' = WakeFirst(th, "receivers"),
         pc' = [pc EXCEPT ![t] = "run"], call' = [call EXCEPT ![t] = NoMessage], ghost' = ghost
  PROVE  BoxKept
<1>1. Moved(pc, pc', t, "run")
  BY DEF BoxSteps, BoxInv, Moved
<1>2. Ring(obj) /\ obj.entry < Capacity
  <2>1. Ring(obj) /\ obj.entry \in 0 .. Capacity /\ Capacity \in Nat
    BY BoxEntry DEF BoxSteps, BoxInv
  <2> QED
    BY <2>1
<1>3. PICK v \in Values \cup {None} : v = call[t].msg
  BY DEF BoxSteps, BoxInv
<1>4. PICK m : m = obj'
  OBVIOUS
<1>5. Ring(m) /\ m.entry = obj.entry + 1 /\ Letters(m) = Append(Letters(obj), v)
  BY <1>2, <1>3, <1>4, StoreLetter
<1>6. PICK s, n, k, p2 :
        n \in Nat /\ k \in Nat /\ s = th' /\ n = obj.entry /\ k = Capacity - obj.entry /\ p2 = pc'
  BY BoxEntry
<1>7. PICK j \in Nat : j = k - 1 /\ k >= 1
  BY <1>2, <1>6, BoxEntry
<1>8. MailWaits(th, p2) /\ Served(th, p2, n, j)
  <2>1. /\ "run" \notin {"recv", "send"} /\ Moved(pc, p2, t, "run")
        /\ MailWaits(th, pc) /\ Served(th, pc, n, k)
    BY <1>1, <1>6 DEF BoxSteps, BoxInv
  <2>2. n \in Nat /\ k \in Nat /\ th.stat[t] = "ready"
    BY <1>6
  <2>3. MailWaits(th, p2) /\ (pc[t] = "send" /\ k >= 1 => Served(th, p2, n, k - 1))
    BY <2>1, <2>2, LeaveServes
  <2> QED
    BY <1>7, <2>3
<1>9. MailWaits(s, p2) /\ Served(s, p2, n + 1, j)
  <2>1. "receivers" \in Queues /\ s = WakeFirst(th, "receivers")
    BY <1>6 DEF Queues
  <2> QED
    BY <1>6, <1>8, <2>1, WakeFirstServes
<1>10. m.entry = n + 1 /\ Capacity - m.entry = j
  BY <1>5, <1>6, <1>7, BoxEntry
<1>11. /\ call' \in [Peers -> [msg : Values \cup {None}, left : Patience]]
       /\ call'[t].msg = None /\ \A u \in Peers \ {t} : call'[u] = call[u]
  BY DEF BoxSteps, BoxInv, NoMessage, Patience
<1>12. BoxInv'
  BY <1>1, <1>4, <1>5, <1>6, <1>9, <1>10, <1>11 DEF BoxSteps, BoxInv, Moved
<1>13. Passes(t, "out", None)
  BY <1>1, <1>11, <1>12, BoxPasses
<1>14. Len(Letters(obj)) = obj.entry
  BY <1>2, LettersType
<1>15. /\ ChannelPhase(t) = "sending" /\ Line' = Append(Line, ChannelItem(t)) /\ Handed' = Handed
       /\ Len(Line) < Capacity
  BY <1>2, <1>3, <1>4, <1>5, <1>12, <1>14, BoxLine
<1>16. Channel!Next
  BY <1>13, <1>15, ChanDelivers
<1> QED
  BY <1>12, <1>16 DEF BoxKept

\* A receiver that was woken finds a message.
LEMMA BoxCollects ==
  ASSUME BoxSteps, NEW t \in Peers, pc[t] = "recv", th.stat[t] = "ready", th.err[t] = "ok",
         obj.entry # 0, obj' = Box!Drop(obj), th' = WakeFirst(th, "senders"),
         pc' = [pc EXCEPT ![t] = "run"], call' = [call EXCEPT ![t] = NoMessage],
         ghost' = obj.pool[obj.out]
  PROVE  BoxKept
<1>1. Moved(pc, pc', t, "run")
  BY DEF BoxSteps, BoxInv, Moved
<1>2. Ring(obj)
  BY DEF BoxSteps, BoxInv
<1>3. PICK m : m = obj'
  OBVIOUS
<1>4. /\ Ring(m) /\ m.entry = obj.entry - 1
      /\ Letters(obj) # <<>> /\ Letters(m) = Tail(Letters(obj))
      /\ ghost' = Head(Letters(obj)) /\ ghost' \in Values \cup {None}
  BY <1>2, <1>3, DropLetter
<1>5. PICK s, n, k, p2 :
        n \in Nat /\ k \in Nat /\ s = th' /\ n = obj.entry /\ k = Capacity - obj.entry /\ p2 = pc'
  BY BoxEntry
<1>6. PICK j \in Nat : j = n - 1 /\ n >= 1
  BY <1>5, BoxEntry
<1>7. MailWaits(th, p2) /\ Served(th, p2, j, k)
  <2>1. /\ "run" \notin {"recv", "send"} /\ Moved(pc, p2, t, "run")
        /\ MailWaits(th, pc) /\ Served(th, pc, n, k)
    BY <1>1, <1>5 DEF BoxSteps, BoxInv
  <2>2. n \in Nat /\ k \in Nat /\ th.stat[t] = "ready"
    BY <1>5
  <2>3. MailWaits(th, p2) /\ (pc[t] = "recv" /\ n >= 1 => Served(th, p2, n - 1, k))
    BY <2>1, <2>2, LeaveServes
  <2> QED
    BY <1>6, <2>3
<1>8. MailWaits(s, p2) /\ Served(s, p2, j, k + 1)
  <2>1. "senders" \in Queues /\ s = WakeFirst(th, "senders")
    BY <1>5 DEF Queues
  <2> QED
    BY <1>5, <1>7, <2>1, WakeFirstServes
<1>9. m.entry = j /\ Capacity - m.entry = k + 1
  BY <1>4, <1>5, <1>6, BoxEntry
<1>10. /\ call' \in [Peers -> [msg : Values \cup {None}, left : Patience]]
       /\ call'[t].msg = None /\ \A u \in Peers \ {t} : call'[u] = call[u]
  BY DEF BoxSteps, BoxInv, NoMessage, Patience
<1>11. BoxInv'
  BY <1>1, <1>3, <1>4, <1>5, <1>8, <1>9, <1>10 DEF BoxSteps, BoxInv, Moved
<1>12. Passes(t, "out", None)
  BY <1>1, <1>10, <1>11, BoxPasses
<1>13. ChannelPhase(t) = "out" /\ ChannelItem(t) = None
  BY <1>11, BoxLine DEF BoxSteps, BoxInv
<1>14. Rests
  BY <1>12, <1>13 DEF Passes, Rests
<1>15. Channel!Next
  BY <1>3, <1>4, <1>11, <1>14, BoxLine, ChanReceives
<1> QED
  BY <1>11, <1>15 DEF BoxKept

\* One that was woken finds nothing, and waits again for what is left of its timeout.
LEMMA BoxWaitsAgain ==
  ASSUME BoxSteps, NEW t \in Peers, th.stat[t] = "ready", NEW q \in Queues, pc[t] = PlaceOf(q),
         q = "receivers" => obj.entry = 0, q = "senders" => obj.entry = Capacity,
         NEW left \in Patience, th' = Suspend(Told1(th, t, "ok"), q, t, left),
         call' = [call EXCEPT ![t].left = left], UNCHANGED <<pc, obj, ghost>>
  PROVE  BoxKept
<1>1. PICK s, n, k :
        n \in Nat /\ k \in Nat /\ s = th' /\ n = obj.entry /\ k = Capacity - obj.entry
  BY BoxEntry
<1>2. MailWaits(s, pc) /\ Served(s, pc, n, k)
  <2>1. Moved(pc, pc, t, PlaceOf(q))
    BY DEF Moved
  <2>2. (q = "receivers" => n = 0) /\ (q = "senders" => k = 0) /\ MailWaits(th, pc)
        /\ Served(th, pc, n, k) /\ pc[t] \in {"run", PlaceOf(q)}
        /\ s = Suspend(Told1(th, t, "ok"), q, t, left)
    BY <1>1, BoxEntry DEF BoxSteps, BoxInv
  <2> QED
    BY <1>1, <2>1, <2>2, SleepServes
<1>3. /\ call' \in [Peers -> [msg : Values \cup {None}, left : Patience]]
      /\ \A u \in Peers : call'[u].msg = call[u].msg
  BY DEF BoxSteps, BoxInv
<1>4. BoxInv'
  BY <1>1, <1>2, <1>3 DEF BoxSteps, BoxInv
<1>5. Rests
  BY <1>3, <1>4, BoxLine DEF Rests
<1>6. UNCHANGED Channel!vars
  BY <1>4, <1>5, BoxLine, ChanQuiet
<1> QED
  BY <1>4, <1>6 DEF BoxKept

LEMMA BoxSendRetries ==
  ASSUME BoxSteps, NEW t \in Peers, Box!SendRetry(t)
  PROVE  BoxKept
<1>1. pc[t] = "send" /\ th.stat[t] = "ready" /\ th.err[t] = "ok"
  BY DEF Box!SendRetry, Box!Woken, Box!Resumed
<1>2. CASE /\ obj.entry # Capacity /\ Box!PutMessage(call[t].msg) /\ Box!Finish(t)
           /\ UNCHANGED ghost
  BY <1>1, <1>2, BoxSame, BoxDelivers DEF Box!PutMessage, Box!Finish, Box!Goto
<1>3. CASE obj.entry = Capacity /\ Box!Finish(t) /\ UNCHANGED <<th, obj, ghost>>
  BY <1>1, <1>3, BoxLeaves DEF Box!Finish, Box!Goto
<1>4. ASSUME NEW left \in Box!Remaining(t), obj.entry = Capacity, Box!WaitOn(t, "senders", left),
             call' = [call EXCEPT ![t].left = left], UNCHANGED <<pc, obj, ghost>>
      PROVE  BoxKept
  <2>1. left \in Patience
    BY DEF Box!Remaining, Patience, BoxSteps, BoxInv
  <2>2. "senders" \in Queues /\ PlaceOf("senders") = "send" /\ "senders" # "receivers"
        /\ th' = Suspend(Told1(th, t, "ok"), "senders", t, left)
    BY <1>4, BoxSame DEF Queues, PlaceOf, Box!WaitOn, Told1
  <2> QED
    BY <1>1, <1>4, <2>1, <2>2, BoxWaitsAgain
<1> QED
  BY <1>2, <1>3, <1>4 DEF Box!SendRetry, Box!IsFull

LEMMA BoxRecvRetries ==
  ASSUME BoxSteps, NEW t \in Peers, Box!RecvRetry(t)
  PROVE  BoxKept
<1>1. pc[t] = "recv" /\ th.stat[t] = "ready" /\ th.err[t] = "ok"
  BY DEF Box!RecvRetry, Box!Woken, Box!Resumed
<1>2. CASE obj.entry # 0 /\ Box!GetMessage /\ Box!Finish(t)
  BY <1>1, <1>2, BoxSame, BoxCollects DEF Box!GetMessage, Box!Finish, Box!Goto
<1>3. CASE /\ obj.entry = 0 /\ Box!Finish(t) /\ th' = [th EXCEPT !.err[t] = "timeout"]
           /\ UNCHANGED <<obj, ghost>>
  BY <1>1, <1>3, BoxLeaves DEF Box!Finish, Box!Goto, Told1
<1>4. ASSUME NEW left \in Box!Remaining(t), obj.entry = 0, Box!WaitOn(t, "receivers", left),
             call' = [call EXCEPT ![t].left = left], UNCHANGED <<pc, obj, ghost>>
      PROVE  BoxKept
  <2>1. left \in Patience
    BY DEF Box!Remaining, Patience, BoxSteps, BoxInv
  <2>2. "receivers" \in Queues /\ PlaceOf("receivers") = "recv" /\ "senders" # "receivers"
        /\ th' = Suspend(Told1(th, t, "ok"), "receivers", t, left)
    BY <1>4, BoxSame DEF Queues, PlaceOf, Box!WaitOn, Told1
  <2> QED
    BY <1>1, <1>4, <2>1, <2>2, BoxWaitsAgain
<1> QED
  BY <1>2, <1>3, <1>4 DEF Box!RecvRetry, Box!IsEmpty

LEMMA BoxNext ==
  ASSUME BoxSteps, Box!Next
  PROVE  BoxKept
<1>1. CASE Box!rt_mb_detach \/ Box!rt_mb_delete
  BY <1>1, BoxQuiet DEF Box!rt_mb_detach, Box!rt_mb_delete, Box!BeginClose
<1>2. CASE Box!rt_mb_init \/ Box!rt_mb_create
  BY <1>2, BoxSetUp DEF Box!rt_mb_init, Box!rt_mb_create, Box!SetUp
<1>3. CASE (Box!CloseStep \/ Box!CloseEnd) /\ UNCHANGED <<obj, call, ghost>>
  <2>1. /\ UNCHANGED <<pc, obj, call, ghost>>
        /\ \/ UNCHANGED th
           \/ \E q \in Queues : th.wait[q] # <<>> /\ th' = FailFirst(th, Head(th.wait[q]))
    BY <1>3, BoxSame DEF Box!CloseStep, Box!CloseTest, Box!CloseTurn, Box!CloseEnd, Queues
  <2>2. CASE UNCHANGED th
    BY <2>1, <2>2, BoxQuiet
  <2>3. ASSUME NEW q \in Queues, th.wait[q] # <<>>, th' = FailFirst(th, Head(th.wait[q]))
        PROVE  BoxKept
    <3>1. th.wait[q] \in Seq(Peers) /\ th \in PeerRecords
      BY BoxEntry DEF PeerRecords
    <3>2. PICK t \in Peers : t = Head(th.wait[q]) /\ Contains(th.wait[q], t)
      BY <2>3, <3>1 DEF Contains
    <3>3. th.stat[t] = "suspend"
      BY <3>2 DEF BoxSteps, BoxInv, MailWaits, Settled
    <3>4. Woke(th, th', t, "error")
      BY <2>3, <3>1, <3>2, FailFirstWoke
    <3> QED
      BY <2>1, <3>3, <3>4, BoxWakes DEF Errors
  <2> QED
    BY <2>1, <2>2, <2>3
<1>4. ASSUME NEW t \in Peers, Box!_thread_timeout(t), UNCHANGED <<obj, call, ghost>>
      PROVE  BoxKept
  <2>1. /\ t \in th.armed /\ th' = [rt_thread_resume(th, t) EXCEPT !.err[t] = "timeout"]
        /\ UNCHANGED <<pc, obj, call, ghost>>
    BY <1>4, BoxSame DEF Box!_thread_timeout
  <2>2. Woke(th, th', t, "timeout")
    BY <2>1, BoxEntry, TimeoutWoke
  <2>3. th.stat[t] = "suspend"
    BY <2>1 DEF BoxSteps, BoxInv, MailWaits, Settled
  <2> QED
    BY <2>1, <2>2, <2>3, BoxWakes DEF Errors
<1>5. ASSUME NEW t \in Peers, Box!SendFailed(t) \/ Box!RecvFailed(t)
      PROVE  BoxKept
  BY <1>5, BoxLeaves DEF Box!SendFailed, Box!RecvFailed, Box!Woken, Box!Resumed, Box!Finish, Box!Goto
<1> QED
  BY <1>1, <1>2, <1>3, <1>4, <1>5, BoxReset, BoxReceives, BoxSends, BoxSendWaits, BoxRecvWaits,
     BoxSendRetries, BoxRecvRetries DEF Box!Next

\* The record of the waits before the first call.
Quiet ==
  /\ th = [stat |-> [t \in Peers |-> "ready"], err |-> [t \in Peers |-> "ok"],
           prio |-> PeerPriority, armed |-> {}, wait |-> [q \in Queues |-> <<>>]]
  /\ pc = [t \in Peers |-> "run"]

LEMMA QuietWaits ==
  ASSUME Quiet
  PROVE  /\ MailWaits(th, pc) /\ \A n, k : Served(th, pc, n, k)
         /\ \A t \in Peers : th.stat[t] = "ready"
<1>1. PeerPriority \in [Peers -> 0 .. PrioMax - 1]
  BY IpcAssumption, ObjectsAssumption DEF PeerPriority
<1>2. th \in PeerRecords
  BY <1>1 DEF Quiet, PeerRecords, Errors
<1>3. \A q \in Queues : /\ th.wait[q] = <<>> /\ IsInjective(th.wait[q])
                        /\ InOrder(th.wait[q], th.prio) /\ \A u : ~Contains(th.wait[q], u)
  BY DEF Quiet, IsInjective, InOrder, Contains
<1>4. "receivers" \in Queues /\ "senders" \in Queues
  BY DEF Queues
<1>5. /\ \A t \in Peers : th.stat[t] = "ready"
      /\ th.armed = {}
  BY DEF Quiet
<1> QED
  BY <1>2, <1>3, <1>4, <1>5 DEF Settled, MailWaits, Served

LEMMA BoxInit ==
  ASSUME kind = "mailbox", Box!Init
  PROVE  BoxInv /\ Channel!Init
<1>1. Quiet /\ obj = Box!Empty /\ call = [t \in Peers |-> NoMessage] /\ ghost = None
  BY DEF Box!Init, Box!IpcInit, Box!Queues, Queues, Quiet
<1>2. obj.entry = 0 /\ Ring(obj)
  BY <1>1, ObjectsAssumption DEF Box!Empty, Box!Slots, Slots, Ring, Rings, SlotAt
<1>3. BoxInv
  BY <1>1, <1>2, QuietWaits DEF BoxInv, Quiet, NoMessage, Patience
<1>4. Box!Content = <<>>
  BY <1>2, RingContent, LettersType
<1>5. \A t \in Peers : ChannelPhase(t) = "out" /\ ChannelItem(t) = None
  BY <1>1 DEF ChannelPhase, ChannelItem, Quiet, NoMessage
<1> QED
  BY <1>1, <1>3, <1>4, <1>5 DEF Channel!Init

LEMMA BoxCardinality == \A S : Box!Cardinality(S) = Cardinality(S)
BY DEF Box!Cardinality, Cardinality

\* What the invariant says of a mailbox.
LEMMA BoxFacts ==
  ASSUME BoxInv
  PROVE  Box!TypeOK /\ Box!WaitsSound /\ Box!NobodyStranded /\ WaitersByPriority
<1>1. th \in PeerRecords /\ Settled(th) /\ Ring(obj)
  BY DEF BoxInv, MailWaits, Settled
<1>2. Box!TypeOK
  BY <1>1 DEF BoxInv, Box!TypeOK, Box!ThreadsOK, PeerRecords, Errors, Queues, Box!Queues, Ring,
     Rings, Slots, Box!Slots, Patience, Box!Patience
<1>3. Box!WaitsSound
  <2>1. Range(th.wait["receivers"]) \cap Range(th.wait["senders"]) = {}
    <3>1. \A q \in Queues : \A t : t \in Range(th.wait[q]) => t \in Peers /\ Contains(th.wait[q], t)
      <4> SUFFICES ASSUME NEW q \in Queues, NEW t, t \in Range(th.wait[q])
                   PROVE  t \in Peers /\ Contains(th.wait[q], t)
        OBVIOUS
      <4>1. th.wait[q] \in Seq(Peers) /\ \E i \in DOMAIN th.wait[q] : th.wait[q][i] = t
        BY <1>1, RangeContains DEF PeerRecords
      <4> QED
        BY <4>1 DEF Contains
    <3> QED
      BY <1>1, <3>1 DEF Settled, Queues
  <2> QED
    BY <1>1, <2>1, BoxSame DEF Settled, Box!WaitsSound, Box!Queues, Queues
<1>4. Box!NobodyStranded
  <2>1. Box!Awake("recv") = AwakeAt(th, pc, "recv") /\ Box!Awake("send") = AwakeAt(th, pc, "send")
    BY DEF Box!Awake, AwakeAt, Box!Woken, Box!Resumed
  <2>2. Served(th, pc, obj.entry, Capacity - obj.entry)
    BY DEF BoxInv
  <2>3. /\ th.wait["receivers"] # <<>> => obj.entry <= Cardinality(Box!Awake("recv"))
        /\ th.wait["senders"] # <<>> => Capacity - obj.entry <= Cardinality(Box!Awake("send"))
    BY <2>1, <2>2 DEF Served
  <2> QED
    BY <2>3, BoxCardinality DEF Box!NobodyStranded
<1>5. WaitersByPriority
  BY <1>1 DEF Settled, WaitersByPriority, InOrder
<1> QED
  BY <1>2, <1>3, <1>4, <1>5
=============================================================================
