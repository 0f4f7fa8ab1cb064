------------------------------- MODULE IpcOps -------------------------------
(***************************************************************************)
(* What the objects of ipc.c have in common: threads that wait on lists,   *)
(* their timers, and the life of an object from rt_xxx_init or             *)
(* rt_xxx_create to rt_xxx_detach or rt_xxx_delete.                        *)
(*                                                                         *)
(* Which READY thread has the CPU is left open: any of them may take the   *)
(* next step.  Every order of steps that the scheduler of the module       *)
(* Kernel allows is among these, so what holds here holds under it; a      *)
(* SUSPENDed thread takes no step, which supposes an idle thread.  A part  *)
(* of a routine that runs with interrupts masked is one step.              *)
(*                                                                         *)
(*   th.stat    thread->stat, as far as a wait changes it                  *)
(*   th.err     thread->error                                              *)
(*   th.prio    thread->current_priority (0 is the highest)                *)
(*   th.armed   the threads whose thread_timer is on the timer list        *)
(*   th.wait    the wait lists of the object, in order                     *)
(***************************************************************************)
EXTENDS Lists, FiniteSets

CONSTANTS
  Threads,      \* the threads that use the object
  None,         \* RT_NULL
  PrioMax,      \* RT_THREAD_PRIORITY_MAX
  Priority,     \* the priority each thread is initialised with
  PrioFlag,     \* TRUE: RT_IPC_FLAG_PRIO, FALSE: RT_IPC_FLAG_FIFO
  Waits         \* the timeouts that callers pass, other than RT_WAITING_NO

\* A timeout: RT_WAITING_NO, a number of ticks, RT_WAITING_FOREVER.
Patience == {"no", "ticks", "forever"}

ASSUME IpcAssumption ==
  /\ None \notin Threads
  /\ PrioMax \in Nat \ {0}
  /\ Priority \in [Threads -> 0 .. PrioMax - 1]
  /\ PrioFlag \in BOOLEAN
  /\ Waits \subseteq Patience \ {"no"}

VARIABLES
  th,       \* the record of the threads' waits
  pc,       \* where each thread stands: "run" in the application, "wait" and
            \* others in a service
  life      \* "none"; how the object came to be, "static" or "heap"; in a detach or
            \* a delete "close" and "drain" before the test whether anybody is on the
            \* list of receivers and of senders, "fail" and "expel" between the test
            \* and the turn that follows; "lost"

ipcVars == <<th, pc, life>>

Queues == {"receivers", "senders"}

ThreadsOK ==
  th \in [stat : [Threads -> {"ready", "suspend"}], err : [Threads -> {"ok", "timeout", "error"}],
          prio : [Threads -> 0 .. PrioMax - 1], armed : SUBSET Threads,
          wait : [Queues -> Seq(Threads)]]

IpcInit ==
  /\ th = [stat |-> [t \in Threads |-> "ready"], err |-> [t \in Threads |-> "ok"],
           prio |-> Priority, armed |-> {}, wait |-> [q \in Queues |-> <<>>]]
  /\ pc = [t \in Threads |-> "run"]
  /\ life = "none"

-----------------------------------------------------------------------------
(* Routines on the record th.                                              *)

\* Mutant: a resumed thread keeps its timer.
ResumeArmed(r, t) ==
  [r EXCEPT !.stat[t] = "ready", !.wait = [q \in Queues |-> Unlink(r.wait[q], t)]]

rt_thread_resume(r, t) ==
  [r EXCEPT !.stat[t] = "ready",
            !.wait  = [q \in Queues |-> Unlink(r.wait[q], t)],
            !.armed = r.armed \ {t}]

\* Mutant: the order of the list depends on nothing.
SuspendInFront(r, q, t) == [r EXCEPT !.stat[t] = "suspend", !.wait[q] = <<t>> \o @]

_ipc_list_suspend(r, q, t) ==
  [r EXCEPT !.stat[t] = "suspend",
            !.wait[q] = IF PrioFlag THEN InsertSorted(@, t, r.prio) ELSE Append(@, t)]

\* The suspension and the timer of a wait of the given patience.
Suspend(r, q, t, patience) ==
  LET s == _ipc_list_suspend(r, q, t)
  IN  IF patience = "ticks" THEN [s EXCEPT !.armed = @ \cup {t}] ELSE s

_ipc_list_resume(r, q) == rt_thread_resume(r, Head(r.wait[q]))

\* The first waiter of q, if there is one, is woken.
WakeFirst(r, q) == IF r.wait[q] = <<>> THEN r ELSE _ipc_list_resume(r, q)

\* One turn of the loop of _ipc_list_resume_all.
FailFirst(r, t) == rt_thread_resume([r EXCEPT !.err[t] = "error"], t)

\* Mutant: the threads do not learn that their wait failed.
ResumeAllSilently(r, q) ==
  LET all == Range(r.wait[q])
  IN  [r EXCEPT !.stat    = [t \in Threads |-> IF t \in all THEN "ready" ELSE @[t]],
                !.wait[q] = <<>>,
                !.armed   = @ \ all]

\* _ipc_list_resume_all, called with interrupts masked: its loop ends when nobody
\* waits on q.
_ipc_list_resume_all(r, q) ==
  LET all == Range(r.wait[q])
  IN  [r EXCEPT !.stat    = [t \in Threads |-> IF t \in all THEN "ready" ELSE @[t]],
                !.err     = [t \in Threads |-> IF t \in all THEN "error" ELSE @[t]],
                !.wait[q] = <<>>,
                !.armed   = @ \ all]

-----------------------------------------------------------------------------
(* The life of an object.                                                  *)

Live == life \in {"static", "heap"}

\* t calls a service of the object.
Calls(t) == Live /\ th.stat[t] = "ready" /\ pc[t] = "run"

\* t has the CPU again after the wait it entered at place.
Resumed(t, place) == th.stat[t] = "ready" /\ pc[t] = place
Woken(t, place) == life # "lost" /\ Resumed(t, place)

Goto(t, place) == pc' = [pc EXCEPT ![t] = place]

\* An object is set up, in static memory or on the heap, when no thread is still
\* in a service of the one that was there before.
SetUp(how) ==
  /\ life = "none"
  /\ \A t \in Threads : pc[t] = "run"
  /\ life' = how
  /\ UNCHANGED <<th, pc>>

\* Another thread begins to destroy the object: from here on nobody calls a service
\* of it, but those that are in one go on.
BeginClose(how) == life = how /\ life' = "close" /\ UNCHANGED <<th, pc>>

\* _ipc_list_resume_all, called with interrupts enabled, on the list q: the test of
\* its loop finds a waiter ...
CloseTest(q, place, turn) ==
  /\ life = place
  /\ th.wait[q] # <<>>
  /\ life' = turn
  /\ UNCHANGED th

\* ... and the turn, with interrupts masked, takes the head of the list without
\* another look.  If the list is empty by then, its head is the object itself, and
\* thread->error and what rt_thread_resume reads and writes lie in and behind it:
\* the life is "lost", and the model stops there.
CloseTurn(q, turn, test) ==
  /\ life = turn
  /\ \/ /\ th.wait[q] # <<>>
        /\ th' = FailFirst(th, Head(th.wait[q]))
        /\ life' = test
     \/ /\ th.wait[q] = <<>>
        /\ life' = "lost"
        /\ UNCHANGED th

\* Interrupts and other threads may come in between.  The senders come last.
CloseStep ==
  /\ UNCHANGED pc
  /\ \/ CloseTest("receivers", "close", "fail")
     \/ CloseTurn("receivers", "fail", "close")
     \/ life = "close" /\ th.wait["receivers"] = <<>> /\ life' = "drain" /\ UNCHANGED th
     \/ CloseTest("senders", "drain", "expel")
     \/ CloseTurn("senders", "expel", "drain")

\* The loop over the senders ends; rt_object_detach or rt_object_delete.
CloseEnd ==
  /\ life = "drain"
  /\ th.wait["senders"] = <<>>
  /\ life' = "none"
  /\ UNCHANGED <<th, pc>>

\* The timer of a waiting thread expires, at any time.
_thread_timeout(t) ==
  /\ life # "lost"
  /\ t \in th.armed
  /\ th' = [rt_thread_resume(th, t) EXCEPT !.err[t] = "timeout"]
  /\ UNCHANGED <<pc, life>>

-----------------------------------------------------------------------------
\* A thread is SUSPENDed exactly while it is on one wait list, and no timer is
\* armed for a thread that does not wait, so that a timeout cannot strike a thread
\* that has been answered or that waits for something else by then.
WaitsSound ==
  /\ \A t \in Threads :
       (th.stat[t] = "suspend") <=> (\E q \in Queues : Contains(th.wait[q], t))
  /\ \A q \in Queues : IsInjective(th.wait[q])
  /\ Range(th.wait["receivers"]) \cap Range(th.wait["senders"]) = {}
  /\ \A t \in th.armed : th.stat[t] = "suspend"

\* Waiters are served by priority: no thread is behind one of a lower priority on a
\* wait list.
WaitersByPriority ==
  PrioFlag => \A q \in Queues : \A i, j \in DOMAIN th.wait[q] :
                i < j => th.prio[th.wait[q][i]] <= th.prio[th.wait[q][j]]

\* The destruction of an object "will resume all suspended threads in the IPC object
\* list" (ipc.c:208), and each turn takes the "next suspended thread" (ipc.c:231):
\* never something that is no thread.
CloseTakesWaiters == life # "lost"
=============================================================================
