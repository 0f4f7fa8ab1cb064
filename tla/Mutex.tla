-------------------------------- MODULE Mutex --------------------------------
(***************************************************************************)
(* rt_mutex_init, rt_mutex_create, rt_mutex_take, rt_mutex_release,        *)
(* rt_mutex_detach and rt_mutex_delete of ipc.c, and the part of           *)
(* rt_thread_control by which a mutex lends its owner the priority of a    *)
(* waiter.  There is one mutex, and nobody else changes a priority.        *)
(* A mutex serves its waiters by priority whatever its flag says.          *)
(***************************************************************************)
EXTENDS IpcOps

CONSTANT HoldMax    \* RT_MUTEX_HOLD_MAX

VARIABLES
  mutex,    \* [value, owner, orig, hold]; orig is mutex->original_priority
  ghost     \* ghost[t].taken: the takes of t that returned RT_EOK less its releases;
            \* ghost[t].orphan: t owned a mutex that was destroyed

vars == <<ipcVars, mutex, ghost>>

NoPrio == PrioMax   \* 0xFF

Fresh == [value |-> 1, owner |-> None, orig |-> NoPrio, hold |-> 0]

Init ==
  /\ IpcInit
  /\ mutex = Fresh
  /\ ghost = [t \in Threads |-> [taken |-> 0, orphan |-> FALSE]]

rt_mutex_init == SetUp("static") /\ mutex' = Fresh /\ UNCHANGED ghost

\* The allocation may fail, and then nothing has changed.
rt_mutex_create == SetUp("heap") /\ mutex' = Fresh /\ UNCHANGED ghost

-----------------------------------------------------------------------------
\* RT_THREAD_CTRL_CHANGE_PRIORITY.
ChangePriority(r, t, prio) == [r EXCEPT !.prio[t] = prio]

\* Mutant: only a waiter that comes first lends its priority.
InheritFirst(r, t) ==
  IF r.wait["receivers"] = <<>> /\ r.prio[t] < r.prio[mutex.owner]
  THEN ChangePriority(r, mutex.owner, r.prio[t]) ELSE r

\* The owner gets the priority of a waiter that is more urgent.
Inherit(r, t) ==
  IF r.prio[t] < r.prio[mutex.owner] THEN ChangePriority(r, mutex.owner, r.prio[t]) ELSE r

\* t has taken the mutex once more, as far as its caller knows.
Taken(t) == ghost' = [ghost EXCEPT ![t].taken = @ + 1]

\* rt_mutex_take by the owner: it holds the mutex once more, up to a limit.
TakeAgain(t) ==
  /\ Calls(t)
  /\ mutex.owner = t
  /\ th' = [th EXCEPT !.err[t] = "ok"]
  /\ \/ mutex.hold < HoldMax /\ mutex' = [mutex EXCEPT !.hold = @ + 1] /\ Taken(t)
     \/ mutex.hold = HoldMax /\ UNCHANGED <<mutex, ghost>>
  /\ UNCHANGED <<pc, life>>

\* ... when the mutex is free.
TakeFree(t) ==
  /\ Calls(t)
  /\ mutex.value > 0
  /\ th' = [th EXCEPT !.err[t] = "ok"]
  /\ mutex' = [value |-> mutex.value - 1, owner |-> t, orig |-> th.prio[t], hold |-> mutex.hold + 1]
  /\ Taken(t)
  /\ UNCHANGED <<pc, life>>

\* ... when another thread owns it and the timeout is 0.
TakeNo(t) ==
  /\ Calls(t)
  /\ mutex.value = 0
  /\ mutex.owner # t
  /\ th' = [th EXCEPT !.err[t] = "timeout"]
  /\ UNCHANGED <<pc, life, mutex, ghost>>

\* ... and when the caller waits.
TakeWait(t, patience) ==
  /\ Calls(t)
  /\ mutex.value = 0
  /\ mutex.owner # t
  /\ th' = Suspend(Inherit([th EXCEPT !.err[t] = "ok"], t), "receivers", t, patience)
  /\ Goto(t, "wait")
  /\ UNCHANGED <<life, mutex, ghost>>

\* The rest of a rt_mutex_take that waited: it answers thread->error.
TakeReturn(t) ==
  /\ Woken(t, "wait")
  /\ Goto(t, "run")
  /\ IF th.err[t] = "ok" /\ Live THEN Taken(t) ELSE UNCHANGED ghost
  /\ UNCHANGED <<th, life, mutex>>

\* Mutant: the next owner's priority is not written down.
HandOverForgetful(r) ==
  /\ mutex' = [mutex EXCEPT !.owner = Head(r.wait["receivers"]), !.hold = 1]
  /\ th' = _ipc_list_resume(r, "receivers")

\* The last release: the first waiter owns the mutex at once, ...
HandOver(r) ==
  LET next == Head(r.wait["receivers"])
  IN  /\ mutex' = [mutex EXCEPT !.owner = next, !.orig = r.prio[next], !.hold = 1]
      /\ th' = _ipc_list_resume(r, "receivers")

\* ... or it is free.
SetFree(r) == mutex' = [Fresh EXCEPT !.value = mutex.value + 1] /\ th' = r

\* Mutant: any thread may release.
ReleaseAny(t) ==
  /\ Calls(t)
  /\ mutex.owner # None
  /\ ghost' = [ghost EXCEPT ![t].taken = IF @ > 0 THEN @ - 1 ELSE 0]
  /\ IF mutex.hold > 1 THEN mutex' = [mutex EXCEPT !.hold = @ - 1] /\ UNCHANGED th
     ELSE LET r == ChangePriority(th, mutex.owner, mutex.orig)
          IN  IF r.wait["receivers"] # <<>> THEN HandOver(r) ELSE SetFree(r)
  /\ UNCHANGED <<pc, life>>

\* rt_mutex_release by the owner: at the last one it gets its priority back.
Release(t) ==
  /\ Calls(t)
  /\ mutex.owner = t
  /\ ghost' = [ghost EXCEPT ![t].taken = @ - 1]
  /\ IF mutex.hold > 1 THEN mutex' = [mutex EXCEPT !.hold = @ - 1] /\ UNCHANGED th
     ELSE LET r == ChangePriority(th, t, mutex.orig)
          IN  IF r.wait["receivers"] # <<>> THEN HandOver(r) ELSE SetFree(r)
  /\ UNCHANGED <<pc, life>>

\* ... and by another thread, which is refused.
ReleaseRefused(t) ==
  /\ Calls(t)
  /\ mutex.owner # t
  /\ th' = [th EXCEPT !.err[t] = "error"]
  /\ UNCHANGED <<pc, life, mutex, ghost>>

-----------------------------------------------------------------------------
\* Whoever holds the mutex that is destroyed holds nothing, and keeps the priority
\* it was lent.
Orphaned ==
  ghost' = [t \in Threads |-> [taken |-> 0, orphan |-> ghost[t].orphan \/ mutex.owner = t]]

rt_mutex_detach == BeginClose("static") /\ Orphaned /\ UNCHANGED mutex

rt_mutex_delete == BeginClose("heap") /\ Orphaned /\ UNCHANGED mutex

Next ==
  \/ rt_mutex_init
  \/ rt_mutex_create
  \/ rt_mutex_detach
  \/ rt_mutex_delete
  \/ (CloseStep \/ CloseEnd) /\ UNCHANGED <<mutex, ghost>>
  \/ \E t \in Threads :
       \/ TakeAgain(t) \/ TakeFree(t) \/ TakeNo(t) \/ TakeReturn(t)
       \/ \E p \in Waits : TakeWait(t, p)
       \/ Release(t) \/ ReleaseRefused(t)
       \/ _thread_timeout(t) /\ UNCHANGED <<mutex, ghost>>

Spec == Init /\ [][Next]_vars

-----------------------------------------------------------------------------
TypeOK ==
  /\ ThreadsOK
  /\ pc \in [Threads -> {"run", "wait"}]
  /\ mutex \in [value : {0, 1}, owner : Threads \cup {None}, orig : 0 .. PrioMax,
                hold : 0 .. HoldMax]
  /\ ghost \in [Threads -> [taken : 0 .. HoldMax, orphan : BOOLEAN]]

\* A thread to which rt_mutex_take has returned RT_EOK owns the mutex until it has
\* released it as often, and nobody else is told so meanwhile, whatever timeouts
\* and refused calls come in between; the mutex is free exactly when nobody owns it.
Exclusive ==
  Live =>
    /\ (mutex.value = 1) <=> (mutex.owner = None)
    /\ \A t \in Threads :
         ghost[t].taken = IF mutex.owner = t /\ pc[t] = "run" THEN mutex.hold ELSE 0

\* The owner is at least as urgent as every thread that waits for it, so that a
\* third thread cannot delay a waiter by preempting the owner.
NoInversion ==
  Live => \A w \in Range(th.wait["receivers"]) :
            mutex.owner # None /\ th.prio[mutex.owner] <= th.prio[w]

\* A thread that does not own the mutex has its own priority: what it was lent is
\* given back at its last release, unless the mutex was destroyed in its hands.
PriorityRestored ==
  \A t \in Threads :
    mutex.owner # t /\ ~ghost[t].orphan => th.prio[t] = Priority[t]
=============================================================================
