------------------------------ MODULE Semaphore ------------------------------
(***************************************************************************)
(* The whole life of a semaphore of ipc.c: rt_sem_init, rt_sem_create,     *)
(* rt_sem_take, rt_sem_release, rt_sem_control, rt_sem_detach and          *)
(* rt_sem_delete.  The module Kernel has take and release under the        *)
(* scheduler of the firmware; here any READY thread may run, and the       *)
(* semaphore may be reset or destroyed while threads wait for it.          *)
(***************************************************************************)
EXTENDS IpcOps

CONSTANT SemMax     \* RT_SEM_VALUE_MAX

VARIABLE sem        \* sem->value

vars == <<ipcVars, sem>>

Init == IpcInit /\ sem = 0

\* value is cast to 16 bits.
rt_sem_init(value) == SetUp("static") /\ sem' = value % (SemMax + 1)

\* The allocation may fail, and then nothing has changed.
rt_sem_create(value) == SetUp("heap") /\ sem' = value % (SemMax + 1)

\* rt_sem_take with a token ...
TakeNow ==
  /\ Live
  /\ sem > 0
  /\ sem' = sem - 1
  /\ UNCHANGED <<th, pc, life>>

\* ... without one, when the caller waits (with a timeout of 0 nothing changes) ...
TakeWait(t, patience) ==
  /\ Calls(t)
  /\ sem = 0
  /\ th' = Suspend([th EXCEPT !.err[t] = "ok"], "receivers", t, patience)
  /\ Goto(t, "wait")
  /\ UNCHANGED <<life, sem>>

\* ... and after the wait.
TakeReturn(t) == Woken(t, "wait") /\ Goto(t, "run") /\ UNCHANGED <<th, life, sem>>

rt_sem_release ==
  /\ Live
  /\ th' = WakeFirst(th, "receivers")
  /\ sem' = IF th.wait["receivers"] = <<>> /\ sem < SemMax THEN sem + 1 ELSE sem
  /\ UNCHANGED <<pc, life>>

\* rt_sem_control(RT_IPC_CMD_RESET): one masked section.
rt_sem_control(value) ==
  /\ Live
  /\ th' = _ipc_list_resume_all(th, "receivers")
  /\ sem' = value % (SemMax + 1)
  /\ UNCHANGED <<pc, life>>

rt_sem_detach == BeginClose("static") /\ UNCHANGED sem

rt_sem_delete == BeginClose("heap") /\ UNCHANGED sem

Next ==
  \/ TakeNow
  \/ rt_sem_release
  \/ rt_sem_detach
  \/ rt_sem_delete
  \/ (CloseStep \/ CloseEnd) /\ UNCHANGED sem
  \/ \E v \in 0 .. SemMax + 1 : rt_sem_init(v) \/ rt_sem_create(v) \/ rt_sem_control(v)
  \/ \E t \in Threads :
       \/ \E p \in Waits : TakeWait(t, p)
       \/ TakeReturn(t)
       \/ _thread_timeout(t) /\ UNCHANGED sem

Spec == Init /\ [][Next]_vars

-----------------------------------------------------------------------------
TypeOK ==
  /\ ThreadsOK
  /\ pc \in [Threads -> {"run", "wait"}]
  /\ sem \in 0 .. SemMax

\* How far the take of t has come, for the abstract specification.
Phase(t) ==
  IF pc[t] # "wait" THEN "out"
  ELSE IF th.stat[t] = "suspend" THEN "waiting"
  ELSE IF th.err[t] = "ok" THEN "granted" ELSE "failed"
=============================================================================
