------------------------------- MODULE MCLive -------------------------------
(***************************************************************************)
(* Two parts of the kernel that must get on, one at a time: the first      *)
(* state chooses the thread objects and their reaper, or the scheduler     *)
(* with its timers, and the behaviour is that of its module, under its     *)
(* fairness.  The other part keeps its initial state, in which nothing is  *)
(* asked of it.                                                            *)
(***************************************************************************)
EXTENDS ThreadObjects

CONSTANTS
  top1, top2, low,            \* the threads of the scheduler; low is the idle thread
  sem,                        \* a semaphore
  Calls, Timeouts, InitTick, MaxTimeout, MaxLock   \* of Kernel

\* Two threads of the top priority, and the idle thread.
Scheduled == {top1, top2, low}
TwoTop == [t \in Scheduled |-> IF t = low THEN 1 ELSE 0]

VARIABLES
  part,
  k, pc, isr, want, grant, credit   \* of Kernel

Sched ==
  INSTANCE Kernel
    WITH Threads <- Scheduled, Idlers <- {low}, PrioMax <- 2, Priority <- TwoTop,
         Sems <- {sem}, SemMax <- 1, PrioFlag <- TRUE

schedVars == <<k, pc, isr, want, grant, credit>>
allVars == <<part, vars, schedVars>>

LiveInit ==
  /\ part \in {"objects", "sched"}
  /\ Init /\ Sched!Init
  /\ part = "sched" => usage = "timed"

LiveNext ==
  /\ UNCHANGED part
  /\ \/ part = "objects" /\ Next /\ UNCHANGED schedVars
     \/ part = "sched" /\ Sched!Next /\ UNCHANGED vars

\* The fairness of the two modules.
LiveSystem ==
  /\ LiveInit /\ [][LiveNext]_allVars
  /\ \A u \in Users : WF_vars(part = "objects" /\ Service(u))
  /\ SF_vars(part = "objects" /\ Idle)
  /\ WF_isr(part = "sched" /\ Sched!Alternate)
  /\ \A t \in Scheduled : SF_schedVars(part = "sched" /\ Sched!Finish(t))

-----------------------------------------------------------------------------
(* The properties of the parts; those of ThreadObjects are checked as they *)
(* are.                                                                    *)

\* A thread of the top priority that waits with a timeout, or sleeps, gets back to
\* its caller (rt_sem_take, rt_thread_sleep), where at most two share that priority.
TimedWaitEnds == part = "sched" => Sched!TimedWaitEnds

\* A thread of the top priority does not keep the CPU for ever while another of its
\* priority is READY (rt_tick_increase, rt_schedule).
SliceEnds == part = "sched" => Sched!SliceEnds
=============================================================================
