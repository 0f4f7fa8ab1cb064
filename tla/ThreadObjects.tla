---------------------------- MODULE ThreadObjects ----------------------------
(***************************************************************************)
(* Threads as objects: rt_thread_create, _init, _startup, _resume,         *)
(* _control, _detach, _delete and _find called by application threads      *)
(* (the users), the container of object.c, and the idle thread of idle.c   *)
(* that reaps what was closed.                                             *)
(*                                                                         *)
(* A step is what runs up to the next point where interrupts are enabled   *)
(* again and another thread may take the CPU.  A thread under control,     *)
(* when it is on a ready list, may take the CPU and exit or suspend        *)
(* itself in one step (the windows inside those are in Kernel).  Which of  *)
(* the ready threads has the CPU is open, but the idle thread has the      *)
(* lowest priority and runs only when no other is ready.                   *)
(*                                                                         *)
(* The callers keep to the rules that the code supposes and does not       *)
(* enforce: two users do not operate on one thread at once; only a thread  *)
(* that suspended itself, on no list and with no timer, is resumed; a      *)
(* thread is looked for once rt_thread_create or rt_thread_init has        *)
(* returned it; and what rt_thread_find returned is not kept across a      *)
(* wait.                                                                   *)
(*                                                                         *)
(* at[u] is where user u stands:                                           *)
(*   "out"      blocked, "run" in the application, "found" in it with a    *)
(*              pointer to a thread                                        *)
(*   "insert", "setup", "undo"   in rt_thread_create or rt_thread_init     *)
(*   "resume"   in rt_thread_resume, past its test                         *)
(*   "remove", "close"   in rt_thread_detach or rt_thread_delete           *)
(***************************************************************************)
EXTENDS Lists, Naturals, FiniteSets

CONSTANTS
  Static, Heap,   \* the control blocks in static memory and on the heap
  Users,          \* the application threads that call the services
  Names,          \* object names, as rt_strncpy cuts them to RT_NAME_MAX
  PrioMax,        \* RT_THREAD_PRIORITY_MAX
  Usages,         \* see the variable usage
  None            \* RT_NULL

Blocks == Static \cup Heap
Prio == 0 .. PrioMax - 1

ASSUME BlocksAssumption == Static \cap Heap = {} /\ None \notin Blocks /\ None \notin Names
ASSUME FiniteAssumption == IsFiniteSet(Blocks)
ASSUME PrioMaxAssumption == PrioMax \in Nat \ {0}
ASSUME UsagesAssumption == Usages \subseteq {"timed", "close", "both"}

VARIABLES
  usage,      \* "timed": threads wait with timeouts and nobody closes another
              \* thread; "close": the converse; "both"
  mem,        \* mem[b]: "free"; "object", a control block that is set up or torn
              \* down; "thread", one with a stack
  stat,       \* thread->stat; RUNNING is READY here
  name,       \* object->name
  container,  \* the object list of the thread class
  prio,       \* thread->current_priority
  ready,      \* ready[p]: the threads on the ready list of priority p
  waiting,    \* the threads on the wait list of some object
  armed,      \* the threads whose timer is on the timer list
  defunct,    \* _rt_thread_defunct
  at, ptr,    \* where each user stands and the thread it operates on
  idle        \* the same of the idle thread

kernelVars == <<stat, prio, ready, waiting, armed, defunct>>
objectVars == <<mem, name, container>>
vars == <<usage, objectVars, kernelVars, at, ptr, idle>>

Init ==
  /\ usage \in Usages
  /\ mem = [b \in Blocks |-> "free"]
  /\ stat = [b \in Blocks |-> "init"]
  /\ name = [b \in Blocks |-> None]
  /\ container = <<>>
  /\ prio = [b \in Blocks |-> 0]
  /\ ready = [p \in Prio |-> {}]
  /\ waiting = {} /\ armed = {}
  /\ defunct = <<>>
  /\ at = [u \in Users |-> "run"]
  /\ ptr = [u \in Users |-> None]
  /\ idle = [at |-> "loop", blk |-> None]

-----------------------------------------------------------------------------
(* Who may take a step.                                                    *)

\* u is at a place of a service, or has returned.
Goto(u, place, b) == at' = [at EXCEPT ![u] = place] /\ ptr' = [ptr EXCEPT ![u] = b]

Return(u) == Goto(u, "run", None)

\* No other user is in a service for b.
Undisturbed(u, b) == \A v \in Users \ {u} : ptr[v] = b => at[v] = "found"

\* u, who has a pointer to b, calls a service for it.
MayCall(u, b) == at[u] = "found" /\ ptr[u] = b /\ Undisturbed(u, b)

\* b has the CPU.
Runs(b) == \E p \in Prio : b \in ready[p]

IdleMayRun == (\A u \in Users : at[u] = "out") /\ (\A p \in Prio : ready[p] = {})

\* A user blocks for something else, and is woken.
Block(u) ==
  /\ at[u] = "run"
  /\ at' = [at EXCEPT ![u] = "out"]
  /\ UNCHANGED <<usage, objectVars, kernelVars, ptr, idle>>

Wake(u) ==
  /\ at[u] = "out"
  /\ at' = [at EXCEPT ![u] = "run"]
  /\ UNCHANGED <<usage, objectVars, kernelVars, ptr, idle>>

-----------------------------------------------------------------------------
(* Lists: tlist is on one of them, and rt_list_remove takes it off any.    *)

\* Mutant: the thread is looked for on the list of its new priority.
UnlinkedAt(p, b) == [ready EXCEPT ![p] = @ \ {b}]

Unlinked(b) == [p \in Prio |-> ready[p] \ {b}]

\* rt_schedule_insert_thread.
InsertReady(r, b, p) ==
  /\ ready' = [r EXCEPT ![p] = @ \cup {b}]
  /\ stat' = [stat EXCEPT ![b] = "ready"]

\* The tail of rt_thread_resume and _thread_timeout.
MakeReady(b) ==
  /\ InsertReady(Unlinked(b), b, prio[b])
  /\ waiting' = waiting \ {b}
  /\ armed' = armed \ {b}
  /\ defunct' = Unlink(defunct, b)
  /\ UNCHANGED prio

-----------------------------------------------------------------------------
(* rt_thread_create and rt_thread_init.                                    *)

\* A control block gets its name; it is in nobody else's hands.
Name(u, b, n) ==
  /\ at[u] = "run"
  /\ mem[b] = "free"
  /\ mem' = [mem EXCEPT ![b] = "object"]
  /\ name' = [name EXCEPT ![b] = n]
  /\ Goto(u, "insert", b)
  /\ UNCHANGED <<usage, container, prio, ready, waiting, armed, defunct, idle>>

\* rt_thread_init of a block in static memory: what its fields held, they hold.
rt_object_init(u, b, n) == b \in Static /\ Name(u, b, n) /\ UNCHANGED stat

\* rt_thread_create; when the heap is exhausted it returns RT_NULL.  The memory is
\* cleared, and RT_THREAD_INIT is 0.
rt_object_allocate(u, b, n) ==
  /\ b \in Heap
  /\ Name(u, b, n)
  /\ stat' = [stat EXCEPT ![b] = "init"]

\* The masked section that ends both.
rt_object_insert(u) ==
  /\ at[u] = "insert"
  /\ container' = <<ptr[u]>> \o container
  /\ Goto(u, "setup", ptr[u])
  /\ UNCHANGED <<usage, mem, name, kernelVars, idle>>

\* _thread_init, once there is a stack.
_thread_init(u, p) ==
  LET b == ptr[u] IN
  /\ at[u] = "setup"
  /\ mem' = [mem EXCEPT ![b] = "thread"]
  /\ stat' = [stat EXCEPT ![b] = "init"]
  /\ prio' = [prio EXCEPT ![b] = p]
  /\ Return(u)
  /\ UNCHANGED <<usage, name, container, ready, waiting, armed, defunct, idle>>

\* rt_thread_create finds no memory for the stack: rt_object_delete.
CreateFails(u) ==
  /\ at[u] = "setup" /\ ptr[u] \in Heap
  /\ container' = Unlink(container, ptr[u])
  /\ Goto(u, "undo", ptr[u])
  /\ UNCHANGED <<usage, mem, name, kernelVars, idle>>

CreateUndone(u) ==
  /\ at[u] = "undo"
  /\ mem' = [mem EXCEPT ![ptr[u]] = "free"]
  /\ Return(u)
  /\ UNCHANGED <<usage, name, container, kernelVars, idle>>

-----------------------------------------------------------------------------
(* rt_thread_find, rt_object_get_pointers.                                 *)

\* The scheduler is locked while the list is searched, and no handler changes it.
rt_thread_find(n) ==
  LET i == SelectInSeq(container, LAMBDA b : name[b] = n)
  IN  IF i = 0 THEN None ELSE container[i]

rt_object_get_pointers(maxlen) ==
  SubSeq(container, 1, IF maxlen < Len(container) THEN maxlen ELSE Len(container))

Find(u, b) ==
  /\ at[u] = "run"
  /\ \A v \in Users : ptr[v] = b => at[v] \notin {"insert", "setup", "undo"}
  /\ Goto(u, "found", b)
  /\ UNCHANGED <<usage, objectVars, kernelVars, idle>>

\* u has no further use for the pointer.
Forget(u) ==
  /\ at[u] = "found"
  /\ Return(u)
  /\ UNCHANGED <<usage, objectVars, kernelVars, idle>>

-----------------------------------------------------------------------------
(* rt_thread_startup, rt_thread_resume, rt_thread_control.                 *)

\* Up to the masked section of the rt_thread_resume it calls.
rt_thread_startup(u, b) ==
  /\ MayCall(u, b)
  /\ stat[b] = "init"
  /\ stat' = [stat EXCEPT ![b] = "suspend"]
  /\ Goto(u, "resume", b)
  /\ UNCHANGED <<usage, objectVars, prio, ready, waiting, armed, defunct, idle>>

\* The test of rt_thread_resume, for a thread that suspended itself.
ResumeTest(u, b) ==
  /\ MayCall(u, b)
  /\ stat[b] = "suspend" /\ b \notin waiting \cup armed
  /\ Goto(u, "resume", b)
  /\ UNCHANGED <<usage, objectVars, kernelVars, idle>>

ResumeInsert(u) ==
  /\ at[u] = "resume"
  /\ MakeReady(ptr[u])
  /\ Return(u)
  /\ UNCHANGED <<usage, objectVars, idle>>

\* Mutant: the thread is unlinked after its priority has changed.
ChangePriorityFirst(u, b, p) ==
  /\ MayCall(u, b)
  /\ prio' = [prio EXCEPT ![b] = p]
  /\ IF stat[b] = "ready" THEN InsertReady(UnlinkedAt(p, b), b, p) ELSE UNCHANGED <<stat, ready>>
  /\ Return(u)
  /\ UNCHANGED <<usage, objectVars, waiting, armed, defunct, idle>>

\* RT_THREAD_CTRL_CHANGE_PRIORITY: one masked section.
ChangePriority(u, b, p) ==
  /\ MayCall(u, b)
  /\ prio' = [prio EXCEPT ![b] = p]
  /\ IF stat[b] = "ready" THEN InsertReady(Unlinked(b), b, p) ELSE UNCHANGED <<stat, ready>>
  /\ Return(u)
  /\ UNCHANGED <<usage, objectVars, waiting, armed, defunct, idle>>

-----------------------------------------------------------------------------
(* rt_thread_detach and rt_thread_delete, which differ in the memory.      *)

\* The tests of the state.
CloseTest(u, b) ==
  /\ usage # "timed" \/ stat[b] = "init"
  /\ CASE stat[b] = "close" -> Return(u)
       [] stat[b] = "init" -> Goto(u, "close", b)
       [] OTHER -> Goto(u, "remove", b)
  /\ UNCHANGED <<usage, objectVars, kernelVars, idle>>

rt_thread_detach(u, b) == b \in Static /\ MayCall(u, b) /\ CloseTest(u, b)

rt_thread_delete(u, b) == b \in Heap /\ MayCall(u, b) /\ CloseTest(u, b)

\* What follows a RT_THREAD_CTRL_CLOSE, the call of rt_schedule, is the switch that
\* may come after any step.
rt_thread_control(u, b) ==
  \/ \E p \in Prio : ChangePriority(u, b, p)
  \/ rt_thread_startup(u, b)
  \/ rt_thread_detach(u, b)
  \/ rt_thread_delete(u, b)

\* rt_schedule_remove_thread, which enables interrupts again.
CloseRemove(u) ==
  LET b == ptr[u] IN
  /\ at[u] = "remove"
  /\ ready' = Unlinked(b)
  /\ waiting' = waiting \ {b}
  /\ defunct' = Unlink(defunct, b)
  /\ Goto(u, "close", b)
  /\ UNCHANGED <<usage, objectVars, stat, prio, armed, idle>>

\* Mutant: a control block from the heap is given back at once.
CloseFrees(u) ==
  LET b == ptr[u] IN
  /\ at[u] = "close"
  /\ stat' = [stat EXCEPT ![b] = "close"]
  /\ armed' = armed \ {b}
  /\ defunct' = <<b>> \o defunct
  /\ mem' = IF b \in Heap THEN [mem EXCEPT ![b] = "free"] ELSE mem
  /\ Return(u)
  /\ UNCHANGED <<usage, name, container, prio, ready, waiting, idle>>

\* The second masked section: the timer is detached, the thread is CLOSEd and
\* queued for the idle thread.
CloseEnqueue(u) ==
  LET b == ptr[u] IN
  /\ at[u] = "close"
  /\ stat' = [stat EXCEPT ![b] = "close"]
  /\ armed' = armed \ {b}
  /\ defunct' = <<b>> \o defunct
  /\ Return(u)
  /\ UNCHANGED <<usage, objectVars, prio, ready, waiting, idle>>

-----------------------------------------------------------------------------
(* The threads themselves, and interrupts.                                 *)

\* Mutant: the thread stays on its ready list.
_thread_exitLinked(b) ==
  /\ Runs(b)
  /\ stat' = [stat EXCEPT ![b] = "close"]
  /\ armed' = armed \ {b}
  /\ defunct' = <<b>> \o defunct
  /\ UNCHANGED <<usage, objectVars, prio, ready, waiting, at, ptr, idle>>

\* Mutant: the idle thread is not told.
_thread_exitUnqueued(b) ==
  /\ Runs(b)
  /\ ready' = Unlinked(b)
  /\ stat' = [stat EXCEPT ![b] = "close"]
  /\ armed' = armed \ {b}
  /\ UNCHANGED <<usage, objectVars, prio, waiting, defunct, at, ptr, idle>>

_thread_exit(b) ==
  /\ Runs(b)
  /\ ready' = Unlinked(b)
  /\ stat' = [stat EXCEPT ![b] = "close"]
  /\ armed' = armed \ {b}
  /\ defunct' = <<b>> \o defunct
  /\ UNCHANGED <<usage, objectVars, prio, waiting, at, ptr, idle>>

\* b suspends itself: on a wait list or on none, with its timer started or not.
rt_thread_suspend(b, listed, timer) ==
  /\ Runs(b)
  /\ timer => usage # "close"
  /\ ready' = Unlinked(b)
  /\ stat' = [stat EXCEPT ![b] = "suspend"]
  /\ waiting' = IF listed THEN waiting \cup {b} ELSE waiting
  /\ armed' = IF timer THEN armed \cup {b} ELSE armed
  /\ UNCHANGED <<usage, objectVars, prio, defunct, at, ptr, idle>>

\* A handler or a thread that none of the services concerns gives b what it waits for.
Release(b) ==
  /\ b \in waiting
  /\ MakeReady(b)
  /\ UNCHANGED <<usage, objectVars, at, ptr, idle>>

_thread_timeout(b) ==
  /\ b \in armed
  /\ MakeReady(b)
  /\ UNCHANGED <<usage, objectVars, at, ptr, idle>>

-----------------------------------------------------------------------------
(* rt_defunct_execute in the idle thread.                                  *)

IdleGoes(from, to, b) ==
  /\ IdleMayRun
  /\ idle.at = from
  /\ idle' = [at |-> to, blk |-> b]
  /\ UNCHANGED <<usage, at, ptr>>

\* rt_thread_defunct_dequeue reads the head of the list and then unlinks it.
DequeueRead ==
  /\ defunct # <<>>
  /\ IdleGoes("loop", "unlink", Head(defunct))
  /\ UNCHANGED <<objectVars, kernelVars>>

DequeueUnlink ==
  /\ IdleGoes("unlink", IF idle.blk \in Static THEN "detach" ELSE "freestack", idle.blk)
  /\ defunct' = Unlink(defunct, idle.blk)
  /\ UNCHANGED <<objectVars, stat, prio, ready, waiting, armed>>

\* Mutant: the cleanup function comes first.
ReapCleanupEarly ==
  /\ IdleGoes("detach", "cleanup", idle.blk)
  /\ mem' = [mem EXCEPT ![idle.blk] = "free"]
  /\ UNCHANGED <<name, container, kernelVars>>

\* rt_object_detach of a static thread, then its cleanup function, which lets the
\* application use the memory again.
ReapDetach ==
  /\ IdleGoes("detach", "cleanup", idle.blk)
  /\ container' = Unlink(container, idle.blk)
  /\ UNCHANGED <<mem, name, kernelVars>>

ReapCleanup ==
  /\ IdleGoes("cleanup", "loop", None)
  /\ mem' = [mem EXCEPT ![idle.blk] = "free"]
  /\ UNCHANGED <<name, container, kernelVars>>

\* A thread from the heap: its stack, the container, its control block.
ReapFreeStack ==
  /\ IdleGoes("freestack", "delete", idle.blk)
  /\ mem' = [mem EXCEPT ![idle.blk] = "object"]
  /\ UNCHANGED <<name, container, kernelVars>>

ReapDelete ==
  /\ IdleGoes("delete", "free", idle.blk)
  /\ container' = Unlink(container, idle.blk)
  /\ UNCHANGED <<mem, name, kernelVars>>

ReapFree ==
  /\ IdleGoes("free", "loop", None)
  /\ mem' = [mem EXCEPT ![idle.blk] = "free"]
  /\ UNCHANGED <<name, container, kernelVars>>

-----------------------------------------------------------------------------
Service(u) ==
  \/ rt_object_insert(u)
  \/ \E p \in Prio : _thread_init(u, p)
  \/ CreateFails(u) \/ CreateUndone(u)
  \/ ResumeInsert(u)
  \/ CloseRemove(u) \/ CloseEnqueue(u)

Idle ==
  DequeueRead \/ DequeueUnlink \/ ReapDetach \/ ReapCleanup \/ ReapFreeStack \/ ReapDelete \/ ReapFree

Next ==
  \/ \E u \in Users :
       \/ Block(u) \/ Wake(u) \/ Service(u) \/ Forget(u)
       \/ \E b \in Blocks, n \in Names : rt_object_init(u, b, n) \/ rt_object_allocate(u, b, n)
       \/ \E n \in Names : rt_thread_find(n) # None /\ Find(u, rt_thread_find(n))
       \/ \E b \in Range(rt_object_get_pointers(Cardinality(Blocks))) : Find(u, b)
       \/ \E b \in Blocks : rt_thread_control(u, b) \/ ResumeTest(u, b)
  \/ \E b \in Blocks :
       \/ _thread_exit(b) \/ Release(b) \/ _thread_timeout(b)
       \/ \E listed, timer \in BOOLEAN : rt_thread_suspend(b, listed, timer)
  \/ Idle

Spec == Init /\ [][Next]_vars

\* A service that was begun returns, and the idle thread, whenever it has the CPU
\* again and again, gets on.
LiveSpec == Spec /\ (\A u \in Users : WF_vars(Service(u))) /\ SF_vars(Idle)

-----------------------------------------------------------------------------
(* Properties.                                                             *)

\* The variables have their types.
TypeOK ==
  /\ mem \in [Blocks -> {"free", "object", "thread"}]
  /\ stat \in [Blocks -> {"init", "ready", "suspend", "close"}]
  /\ container \in Seq(Blocks) /\ defunct \in Seq(Blocks)
  /\ prio \in [Blocks -> Prio] /\ ready \in [Prio -> SUBSET Blocks]
  /\ waiting \subseteq Blocks /\ armed \subseteq Blocks
  /\ ptr \in [Users -> Blocks \cup {None}]

\* b is between the two masked sections of rt_thread_detach or rt_thread_delete.
Removed(b) == \E u \in Users : at[u] = "close" /\ ptr[u] = b

\* The one list a thread hangs on is the one its state says: the ready list of its
\* current priority, a wait list, or the defunct list, also while rt_thread_detach
\* has dropped it from the ready table and not closed it yet.
ListsAgree ==
  \A b \in Blocks :
    /\ \A p \in Prio : b \in ready[p] => stat[b] = "ready" /\ prio[b] = p
    /\ b \in waiting \cup armed => stat[b] = "suspend"
    /\ Contains(defunct, b) => stat[b] = "close"
    /\ stat[b] = "ready" /\ mem[b] = "thread" /\ ~Removed(b) => b \in ready[prio[b]]

\* Memory that was given back is on no list and nobody holds a pointer to it,
\* although rt_thread_find hands out pointers that are used later: a closed thread
\* is freed by the idle thread, which does not run while a pointer is in use.
FreedIsForgotten ==
  \A b \in Blocks : mem[b] = "free" =>
    /\ ~Contains(container, b) /\ ~Contains(defunct, b)
    /\ b \notin waiting \cup armed /\ \A p \in Prio : b \notin ready[p]
    /\ \A u \in Users : ptr[u] # b
    /\ idle.blk # b

\* Every block keeps its type, and each thread can be found, once, until the idle
\* thread has taken it off.
ContainerExact ==
  /\ TypeOK
  /\ IsInjective(container) /\ IsInjective(defunct)
  /\ \A b \in Blocks :
       mem[b] = "thread" => Contains(container, b) \/ (idle.blk = b /\ idle.at = "cleanup")

\* A thread that was closed, by itself or by another, never runs again.
ClosedStaysClosed ==
  [][\A b \in Blocks : mem[b] = "thread" /\ stat[b] = "close" => stat'[b] = "close"]_vars

Closing == \E b \in Blocks : stat[b] # "close" /\ stat'[b] = "close"

\* A closed thread is reaped, if the idle thread has the CPU again and again and
\* not ever more threads are closed: the defunct list is a stack.
EveryClosedReaped ==
  (<>[][~Closing]_vars /\ []<>IdleMayRun) =>
    \A b \in Blocks : mem[b] = "thread" /\ stat[b] = "close" ~> mem[b] = "free"
=============================================================================
