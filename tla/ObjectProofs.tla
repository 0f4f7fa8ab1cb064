----------------------------- MODULE ObjectProofs -----------------------------
(***************************************************************************)
(* Proofs about ThreadObjects, for every set of control blocks, users and  *)
(* names.  Threads do not both wait with timeouts and close each other:    *)
(* with "both" in Usages a timeout may put a thread that is being closed   *)
(* back on a ready list, and what is proved here is false.                 *)
(***************************************************************************)
EXTENDS ThreadObjects, ListProofs

-----------------------------------------------------------------------------
(* The invariant.                                                          *)

Places == {"out", "run", "found", "insert", "setup", "undo", "resume", "remove", "close"}
Stages == {"loop", "unlink", "detach", "cleanup", "freestack", "delete", "free"}

Types ==
  /\ TypeOK
  /\ at \in [Users -> Places]
  /\ idle \in [at : Stages, blk : Blocks \cup {None}]
  /\ usage \in {"timed", "close"}
  /\ IsInjective(container) /\ IsInjective(defunct)
  /\ usage = "close" => armed = {}

\* b hangs on no list.
Loose(b) ==
  /\ b \notin waiting \cup armed
  /\ ~Contains(defunct, b)
  /\ \A p \in Prio : b \notin ready[p]

Building == {"insert", "setup", "undo"}
Serving == {"resume", "remove", "close"}

\* What user u may suppose of the thread it operates on.
UserInv(u) ==
  /\ at[u] \in {"out", "run"} <=> ptr[u] = None
  /\ at[u] \in Building =>
       /\ mem[ptr[u]] = "object" /\ idle.blk # ptr[u]
       /\ \A v \in Users \ {u} : ptr[v] # ptr[u]
       /\ Contains(container, ptr[u]) <=> at[u] = "setup"
  /\ at[u] = "found" =>
       mem[ptr[u]] = "thread" \/ (idle.at = "delete" /\ idle.blk = ptr[u])
  /\ at[u] \in Serving =>
       /\ mem[ptr[u]] = "thread" /\ idle.blk # ptr[u]
       /\ \A v \in Users \ {u} : ptr[v] = ptr[u] => at[v] = "found"
  /\ at[u] = "resume" => stat[ptr[u]] = "suspend" /\ ptr[u] \notin waiting \cup armed
  /\ at[u] = "remove" => usage = "close"
  /\ at[u] = "close" => Loose(ptr[u])

\* The lists of block b.
ListInv(b) ==
  /\ \A p \in Prio : b \in ready[p] => stat[b] = "ready" /\ prio[b] = p /\ mem[b] = "thread"
  /\ b \in waiting \cup armed => stat[b] = "suspend" /\ mem[b] = "thread"
  /\ Contains(defunct, b) => stat[b] = "close" /\ mem[b] = "thread"
  /\ stat[b] = "ready" /\ mem[b] = "thread" => Removed(b) \/ b \in ready[prio[b]]

\* The memory of block b.
MemInv(b) ==
  /\ mem[b] = "thread" => Contains(container, b) \/ (idle.at = "cleanup" /\ idle.blk = b)
  /\ mem[b] = "free" =>
       ~Contains(container, b) /\ (\A u \in Users : ptr[u] # b) /\ idle.blk # b
  /\ mem[b] = "object" => \/ \E u \in Users : at[u] \in Building /\ ptr[u] = b
                          \/ idle.at \in {"delete", "free"} /\ idle.blk = b

\* The block that the idle thread reaps.
IdleInv ==
  /\ idle.at = "loop" <=> idle.blk = None
  /\ idle.at # "loop" => /\ stat[idle.blk] = "close"
                         /\ Contains(defunct, idle.blk) <=> idle.at = "unlink"
  /\ idle.at \in {"unlink", "detach", "freestack", "cleanup"} => mem[idle.blk] = "thread"
  /\ idle.at \in {"delete", "free"} => mem[idle.blk] = "object"
  /\ idle.at \in {"cleanup", "free"} =>
       ~Contains(container, idle.blk) /\ \A u \in Users : ptr[u] # idle.blk

AllUsers == \A u \in Users : UserInv(u)
AllLists == \A b \in Blocks : ListInv(b)
AllMem == \A b \in Blocks : MemInv(b)

ObjInv == Types /\ AllUsers /\ AllLists /\ AllMem /\ IdleInv

-----------------------------------------------------------------------------
(* Steps that change the lists of one thread.                              *)

\* No list changes for a block other than b, and its state neither.
Elsewhere(b) ==
  \A c \in Blocks \ {b} :
    /\ stat'[c] = stat[c] /\ prio'[c] = prio[c]
    /\ \A p \in Prio : c \in ready'[p] <=> c \in ready[p]
    /\ c \in waiting' <=> c \in waiting
    /\ c \in armed' <=> c \in armed
    /\ Contains(defunct', c) <=> Contains(defunct, c)

\* The types of what the kernel changes.
KernelTypes ==
  /\ stat' \in [Blocks -> {"init", "ready", "suspend", "close"}]
  /\ prio' \in [Blocks -> Prio] /\ ready' \in [Prio -> SUBSET Blocks]
  /\ waiting' \subseteq Blocks /\ armed' \subseteq Blocks
  /\ defunct' \in Seq(Blocks) /\ IsInjective(defunct')
  /\ usage = "close" => armed' = {}

\* A step of thread b itself, of a handler or of an expired timer.
LEMMA ThreadStep ==
  ASSUME ObjInv, NEW b \in Blocks, mem[b] = "thread", stat[b] # "close",
         UNCHANGED <<usage, objectVars, at, ptr, idle>>,
         KernelTypes, Elsewhere(b), ListInv(b)',
         \A u \in Users : at[u] \in {"resume", "close"} => ptr[u] # b,
         Contains(defunct', b) => stat'[b] = "close"
  PROVE  ObjInv'
<1>1. Types'
  BY DEF ObjInv, Types, TypeOK, KernelTypes, objectVars
<1>2. idle.blk # b
  BY BlocksAssumption DEF ObjInv, IdleInv
<1>3. AllUsers'
  <2> SUFFICES ASSUME NEW u \in Users
               PROVE  UserInv(u)'
    BY DEF AllUsers
  <2>1. UserInv(u) /\ (ptr[u] # None => ptr[u] \in Blocks) /\ at[u] \in Places
    BY DEF ObjInv, AllUsers, Types, TypeOK
  <2> QED
    BY <2>1 DEF UserInv, Elsewhere, Loose, objectVars, Building, Serving
<1>4. AllLists'
  <2> SUFFICES ASSUME NEW c \in Blocks, c # b
               PROVE  ListInv(c)'
    BY DEF AllLists
  <2>1. ListInv(c) /\ Removed(c)' = Removed(c) /\ prio[c] \in Prio /\ mem' = mem
    BY DEF ObjInv, AllLists, Removed, Types, TypeOK, objectVars
  <2> QED
    BY <2>1 DEF ListInv, Elsewhere
<1>5. AllMem'
  BY DEF ObjInv, AllMem, MemInv, objectVars
<1>6. IdleInv'
  BY <1>2 DEF ObjInv, IdleInv, Elsewhere, objectVars, Types
<1> QED
  BY <1>1, <1>3, <1>4, <1>5, <1>6 DEF ObjInv

-----------------------------------------------------------------------------
(* Steps of a user.                                                        *)

\* u goes to a place with a pointer, and the others stay.
LEMMA GoesTo ==
  ASSUME Types, NEW u \in Users, NEW place \in Places, NEW b \in Blocks \cup {None},
         Goto(u, place, b)
  PROVE  /\ at'[u] = place /\ ptr'[u] = b
         /\ \A v \in Users : v # u => at'[v] = at[v] /\ ptr'[v] = ptr[v]
         /\ at' \in [Users -> Places] /\ ptr' \in [Users -> Blocks \cup {None}]
BY DEF Goto, Types, TypeOK

\* A step of user u for the thread b that it has a pointer to, in its lists only.
LEMMA UserStep ==
  ASSUME ObjInv, NEW u \in Users, NEW b \in Blocks, ptr[u] = b, at[u] \in {"found"} \cup Serving,
         NEW place \in {"run"} \cup Serving, NEW q, q = IF place = "run" THEN None ELSE b,
         Goto(u, place, q), UNCHANGED <<usage, objectVars, idle>>,
         Undisturbed(u, b), KernelTypes, Elsewhere(b), ListInv(b)',
         idle.blk = b => /\ place = "run" /\ stat'[b] = stat[b]
                         /\ Contains(defunct', b) <=> Contains(defunct, b),
         place \in Serving => mem[b] = "thread",
         place = "resume" => stat'[b] = "suspend" /\ b \notin waiting' \cup armed',
         place = "remove" => usage = "close",
         place = "close" => Loose(b)'
  PROVE  ObjInv'
<1> DEFINE others == \A v \in Users : v # u => at'[v] = at[v] /\ ptr'[v] = ptr[v]
<1>1. /\ at'[u] = place /\ ptr'[u] = q /\ others
      /\ at' \in [Users -> Places] /\ ptr' \in [Users -> Blocks \cup {None}]
  BY GoesTo DEF ObjInv, Places, Serving
<1>2. Types'
  BY <1>1 DEF ObjInv, Types, TypeOK, KernelTypes, objectVars
<1>3. mem' = mem /\ container' = container /\ idle' = idle /\ usage' = usage
  BY DEF objectVars
<1>4. AllUsers'
  <2>1. ASSUME NEW v \in Users, v # u
        PROVE  UserInv(v)'
    <3>1. UserInv(v) /\ (ptr[v] # None => ptr[v] \in Blocks) /\ at[v] \in Places
      BY DEF ObjInv, AllUsers, Types, TypeOK
    <3>2. ptr[v] = b => at[v] = "found"
      BY <2>1 DEF Undisturbed
    <3>3. at'[v] = at[v] /\ ptr'[v] = ptr[v]
      BY <1>1, <2>1
    <3>4. \A w \in Users \ {v} : /\ ptr[w] # ptr[v] => ptr'[w] # ptr[v] \/ ptr[v] = None
                                 /\ ptr[v] # b /\ ptr'[w] = ptr[v] /\ ptr[v] # None
                                      => at'[w] = at[w] /\ ptr'[w] = ptr[w]
      BY <1>1
    <3>5. CASE ptr[v] = b
      BY <1>3, <3>1, <3>2, <3>3, <3>5 DEF UserInv, Building, Serving
    <3>6. CASE ptr[v] # b
      BY <1>3, <3>1, <3>3, <3>4, <3>6 DEF UserInv, Elsewhere, Loose, Building, Serving
    <3> QED
      BY <3>5, <3>6
  <2>2. UserInv(u)'
    <3>1. \A v \in Users \ {u} : ptr'[v] = b => at'[v] = "found"
      BY <1>1 DEF Undisturbed
    <3> QED
      BY <1>1, <1>3, <3>1, BlocksAssumption DEF UserInv, Building, Serving
  <2> QED
    BY <2>1, <2>2 DEF AllUsers
<1>5. AllLists'
  <2> SUFFICES ASSUME NEW c \in Blocks, c # b
               PROVE  ListInv(c)'
    BY DEF AllLists
  <2>1. ListInv(c) /\ prio[c] \in Prio
    BY DEF ObjInv, AllLists, Types, TypeOK
  <2>2. Removed(c) => Removed(c)'
    BY <1>1 DEF Removed
  <2> QED
    BY <1>3, <2>1, <2>2 DEF ListInv, Elsewhere
<1>6. AllMem'
  <2> SUFFICES ASSUME NEW c \in Blocks
               PROVE  MemInv(c)'
    BY DEF AllMem
  <2>1. MemInv(c)
    BY DEF ObjInv, AllMem
  <2>2. (\A v \in Users : ptr[v] # c) => \A v \in Users : ptr'[v] # c
    BY <1>1, BlocksAssumption
  <2>3. (\E v \in Users : at[v] \in Building /\ ptr[v] = c)
          => \E v \in Users : at'[v] \in Building /\ ptr'[v] = c
    BY <1>1 DEF Building, Serving
  <2> QED
    BY <1>3, <2>1, <2>2, <2>3 DEF MemInv
<1>7. IdleInv'
  <2>1. idle.blk \in Blocks \cup {None} /\ idle.at \in Stages /\ IdleInv
    BY DEF ObjInv, Types
  <2>2. idle.blk # None =>
          /\ stat'[idle.blk] = stat[idle.blk]
          /\ Contains(defunct', idle.blk) <=> Contains(defunct, idle.blk)
    BY <2>1 DEF Elsewhere
  <2>3. idle.blk # None /\ (\A v \in Users : ptr[v] # idle.blk) => \A v \in Users : ptr'[v] # idle.blk
    BY <1>1
  <2> QED
    BY <1>3, <2>1, <2>2, <2>3 DEF IdleInv, Stages
<1> QED
  BY <1>2, <1>4, <1>5, <1>6, <1>7 DEF ObjInv

\* Nothing changes but where u stands.
LEMMA NothingChanges ==
  ASSUME ObjInv, UNCHANGED kernelVars, NEW b \in Blocks
  PROVE  KernelTypes /\ Elsewhere(b)
BY DEF ObjInv, Types, TypeOK, kernelVars, KernelTypes, Elsewhere

\* u blocks, is woken or has no further use for its pointer.
LEMMA UserFree ==
  ASSUME ObjInv, NEW u \in Users, at[u] \in {"out", "run", "found"}, NEW place \in {"out", "run"},
         Goto(u, place, None), UNCHANGED <<usage, objectVars, kernelVars, idle>>
  PROVE  ObjInv'
<1>1. /\ at'[u] = place /\ ptr'[u] = None
      /\ \A v \in Users : v # u => at'[v] = at[v] /\ ptr'[v] = ptr[v]
      /\ at' \in [Users -> Places] /\ ptr' \in [Users -> Blocks \cup {None}]
  BY GoesTo DEF ObjInv, Places
<1>2. /\ mem' = mem /\ container' = container /\ idle' = idle /\ usage' = usage /\ stat' = stat
      /\ prio' = prio /\ ready' = ready /\ waiting' = waiting /\ armed' = armed /\ defunct' = defunct
  BY DEF objectVars, kernelVars
<1>3. Types'
  BY <1>1, <1>2 DEF ObjInv, Types, TypeOK
<1>4. AllUsers'
  <2>1. ASSUME NEW v \in Users, v # u
        PROVE  UserInv(v)'
    <3>1. UserInv(v) /\ (ptr[v] # None => ptr[v] \in Blocks) /\ at[v] \in Places
      BY DEF ObjInv, AllUsers, Types, TypeOK
    <3> QED
      BY <1>1, <1>2, <2>1, <3>1 DEF UserInv, Loose, Building, Serving
  <2>2. UserInv(u)'
    BY <1>1 DEF UserInv, Building, Serving
  <2> QED
    BY <2>1, <2>2 DEF AllUsers
<1>5. AllLists'
  <2> SUFFICES ASSUME NEW c \in Blocks
               PROVE  ListInv(c)'
    BY DEF AllLists
  <2>1. ListInv(c) /\ (Removed(c) => Removed(c)')
    BY <1>1 DEF ObjInv, AllLists, Removed
  <2> QED
    BY <1>2, <2>1 DEF ListInv
<1>6. AllMem'
  <2> SUFFICES ASSUME NEW c \in Blocks
               PROVE  MemInv(c)'
    BY DEF AllMem
  <2>1. MemInv(c)
    BY DEF ObjInv, AllMem
  <2>2. (\A v \in Users : ptr[v] # c) => \A v \in Users : ptr'[v] # c
    BY <1>1, BlocksAssumption
  <2>3. (\E v \in Users : at[v] \in Building /\ ptr[v] = c)
          => \E v \in Users : at'[v] \in Building /\ ptr'[v] = c
    BY <1>1 DEF Building
  <2> QED
    BY <1>2, <2>1, <2>2, <2>3 DEF MemInv
<1>7. IdleInv'
  <2>1. idle.blk # None /\ (\A v \in Users : ptr[v] # idle.blk) => \A v \in Users : ptr'[v] # idle.blk
    BY <1>1
  <2>2. IdleInv /\ idle.at \in Stages
    BY DEF ObjInv, Types
  <2> QED
    BY <1>2, <2>1, <2>2 DEF IdleInv, Stages
<1> QED
  BY <1>3, <1>4, <1>5, <1>6, <1>7 DEF ObjInv

-----------------------------------------------------------------------------
(* The lists.                                                              *)

\* A thread taken off the ready lists is on none, and the others stay.
LEMMA UnlinkedElements ==
  ASSUME ObjInv, NEW b \in Blocks
  PROVE  /\ Unlinked(b) \in [Prio -> SUBSET Blocks]
         /\ \A c, p : p \in Prio => (c \in Unlinked(b)[p] <=> c \in ready[p] /\ c # b)
BY DEF ObjInv, Types, TypeOK, Unlinked

\* rt_schedule_insert_thread puts the thread on one list.
LEMMA InsertReadyElements ==
  ASSUME ObjInv, NEW b \in Blocks, NEW pr \in Prio, InsertReady(Unlinked(b), b, pr)
  PROVE  /\ ready' \in [Prio -> SUBSET Blocks]
         /\ stat' \in [Blocks -> {"init", "ready", "suspend", "close"}]
         /\ \A c \in Blocks, p \in Prio :
              c \in ready'[p] <=> IF c = b THEN p = pr ELSE c \in ready[p]
         /\ \A c \in Blocks : stat'[c] = IF c = b THEN "ready" ELSE stat[c]
<1>1. PICK r : r = Unlinked(b)
  OBVIOUS
<1>2. /\ r \in [Prio -> SUBSET Blocks]
      /\ \A c, p : p \in Prio => (c \in r[p] <=> c \in ready[p] /\ c # b)
  BY <1>1, UnlinkedElements
<1>3. /\ ready' = [r EXCEPT ![pr] = @ \cup {b}]
      /\ stat' = [stat EXCEPT ![b] = "ready"]
  BY <1>1 DEF InsertReady
<1>4. \A p \in Prio : ready'[p] = IF p = pr THEN r[p] \cup {b} ELSE r[p]
  BY <1>2, <1>3
<1>5. ready' \in [Prio -> SUBSET Blocks]
  BY <1>2, <1>3
<1> QED
  BY <1>2, <1>3, <1>4, <1>5 DEF ObjInv, Types, TypeOK

\* What the tail of rt_thread_resume does for a thread that is not in any list's hands.
LEMMA MakeReadyLists ==
  ASSUME ObjInv, NEW b \in Blocks, MakeReady(b), mem[b] = "thread", mem' = mem
  PROVE  KernelTypes /\ Elsewhere(b) /\ ListInv(b)' /\ ~Contains(defunct', b)
<1>1. /\ waiting' = waiting \ {b} /\ armed' = armed \ {b} /\ defunct' = Unlink(defunct, b)
      /\ prio' = prio /\ prio[b] \in Prio /\ InsertReady(Unlinked(b), b, prio[b])
  BY DEF MakeReady, ObjInv, Types, TypeOK
<1>2. /\ defunct' \in Seq(Blocks) /\ IsInjective(defunct')
      /\ \A c : Contains(defunct', c) <=> Contains(defunct, c) /\ c # b
  BY <1>1, UnlinkElements DEF ObjInv, Types, TypeOK
<1>3. PICK pr \in Prio : pr = prio[b]
  BY <1>1
<1>4. /\ ready' \in [Prio -> SUBSET Blocks]
      /\ stat' \in [Blocks -> {"init", "ready", "suspend", "close"}]
      /\ \A c \in Blocks, p \in Prio :
           c \in ready'[p] <=> IF c = b THEN p = pr ELSE c \in ready[p]
      /\ \A c \in Blocks : stat'[c] = IF c = b THEN "ready" ELSE stat[c]
  BY <1>1, <1>3, InsertReadyElements
<1>5. KernelTypes
  BY <1>1, <1>2, <1>4 DEF KernelTypes, ObjInv, Types, TypeOK
<1>6. Elsewhere(b)
  BY <1>1, <1>2, <1>4 DEF Elsewhere
<1>7. ListInv(b)'
  BY <1>1, <1>2, <1>3, <1>4 DEF ListInv
<1> QED
  BY <1>2, <1>5, <1>6, <1>7

\* What the last masked section of a close does: the thread is told to the idle thread.
LEMMA CloseLists ==
  ASSUME ObjInv, NEW b \in Blocks, ~Contains(defunct, b), mem[b] = "thread", mem' = mem,
         stat' = [stat EXCEPT ![b] = "close"], armed' = armed \ {b},
         defunct' = <<b>> \o defunct, UNCHANGED <<prio, waiting>>, b \notin waiting,
         ready' = Unlinked(b)
  PROVE  KernelTypes /\ Elsewhere(b) /\ ListInv(b)' /\ stat'[b] = "close"
<1>1. /\ defunct' \in Seq(Blocks) /\ IsInjective(defunct')
      /\ \A c : Contains(defunct', c) <=> Contains(defunct, c) \/ c = b
  <2>1. defunct \in Seq(Blocks) /\ IsInjective(defunct)
    BY DEF ObjInv, Types, TypeOK
  <2>2. PICK q \in Seq(Blocks) : q = defunct
    BY <2>1
  <2>3. PICK r : r = defunct'
    OBVIOUS
  <2>4. (r = Append(q, b) \/ r = <<b>> \o q) /\ IsInjective(q) /\ ~Contains(q, b)
    BY <2>1, <2>2, <2>3
  <2>5. /\ r \in Seq(Blocks) /\ IsInjective(r)
        /\ \A c : Contains(r, c) <=> Contains(q, c) \/ c = b
    BY <2>4, AddElements
  <2> QED
    BY <2>2, <2>3, <2>5
<1>2. /\ ready' \in [Prio -> SUBSET Blocks]
      /\ \A c, p : p \in Prio => (c \in ready'[p] <=> c \in ready[p] /\ c # b)
  BY UnlinkedElements
<1>3. stat'[b] = "close" /\ \A c \in Blocks : c # b => stat'[c] = stat[c]
  BY DEF ObjInv, Types, TypeOK
<1>4. KernelTypes
  BY <1>1, <1>2 DEF KernelTypes, ObjInv, Types, TypeOK
<1>5. Elsewhere(b)
  BY <1>1, <1>2, <1>3 DEF Elsewhere
<1>6. ListInv(b)'
  BY <1>1, <1>2, <1>3 DEF ListInv
<1> QED
  BY <1>3, <1>4, <1>5, <1>6

-----------------------------------------------------------------------------
(* The threads themselves, handlers and timers.                            *)

\* A thread that has the CPU, waits or has its timer running is not in a service.
LEMMA NotServed ==
  ASSUME ObjInv, NEW b \in Blocks, Runs(b) \/ b \in waiting \cup armed
  PROVE  /\ mem[b] = "thread" /\ stat[b] # "close" /\ ~Contains(defunct, b)
         /\ Runs(b) => stat[b] = "ready" /\ b \notin waiting \cup armed
         /\ \A u \in Users : at[u] \in {"resume", "close"} => ptr[u] # b
<1>1. ListInv(b)
  BY DEF ObjInv, AllLists
<1>2. mem[b] = "thread" /\ stat[b] # "close" /\ ~Contains(defunct, b)
      /\ (Runs(b) => stat[b] = "ready" /\ b \notin waiting \cup armed)
  BY <1>1 DEF ListInv, Runs
<1>3. \A u \in Users : at[u] \in {"resume", "close"} => ptr[u] # b
  BY <1>2 DEF ObjInv, AllUsers, UserInv, Loose, Runs
<1> QED
  BY <1>2, <1>3

\* A thread exits.
LEMMA ExitStep ==
  ASSUME ObjInv, NEW b \in Blocks, _thread_exit(b)
  PROVE  ObjInv'
<1>1. /\ Runs(b) /\ ready' = Unlinked(b) /\ stat' = [stat EXCEPT ![b] = "close"]
      /\ armed' = armed \ {b} /\ defunct' = <<b>> \o defunct
      /\ UNCHANGED <<prio, waiting>> /\ mem' = mem
      /\ UNCHANGED <<usage, objectVars, at, ptr, idle>>
  BY DEF _thread_exit, objectVars
<1>2. /\ mem[b] = "thread" /\ stat[b] # "close" /\ ~Contains(defunct, b) /\ b \notin waiting
      /\ \A u \in Users : at[u] \in {"resume", "close"} => ptr[u] # b
  BY <1>1, NotServed
<1>3. KernelTypes /\ Elsewhere(b) /\ ListInv(b)' /\ stat'[b] = "close"
  BY <1>1, <1>2, CloseLists
<1> QED
  BY <1>1, <1>2, <1>3, ThreadStep

\* A thread suspends itself.
LEMMA SuspendStep ==
  ASSUME ObjInv, NEW b \in Blocks, NEW listed \in BOOLEAN, NEW timer \in BOOLEAN,
         rt_thread_suspend(b, listed, timer)
  PROVE  ObjInv'
<1>1. /\ Runs(b) /\ ready' = Unlinked(b) /\ stat' = [stat EXCEPT ![b] = "suspend"]
      /\ timer => usage # "close"
      /\ waiting' = (IF listed THEN waiting \cup {b} ELSE waiting)
      /\ armed' = (IF timer THEN armed \cup {b} ELSE armed)
      /\ defunct' = defunct /\ prio' = prio /\ mem' = mem
      /\ UNCHANGED <<usage, objectVars, at, ptr, idle>>
  BY DEF rt_thread_suspend, objectVars
<1>2. /\ mem[b] = "thread" /\ stat[b] # "close" /\ ~Contains(defunct, b)
      /\ \A u \in Users : at[u] \in {"resume", "close"} => ptr[u] # b
  BY <1>1, NotServed
<1>3. /\ ready' \in [Prio -> SUBSET Blocks]
      /\ \A c, p : p \in Prio => (c \in ready'[p] <=> c \in ready[p] /\ c # b)
  BY <1>1, UnlinkedElements
<1>4. stat'[b] = "suspend" /\ \A c \in Blocks : c # b => stat'[c] = stat[c]
  BY <1>1 DEF ObjInv, Types, TypeOK
<1>5. KernelTypes
  BY <1>1, <1>3 DEF KernelTypes, ObjInv, Types, TypeOK
<1>6. Elsewhere(b)
  BY <1>1, <1>3, <1>4 DEF Elsewhere
<1>7. ListInv(b)'
  BY <1>1, <1>2, <1>3, <1>4 DEF ListInv
<1> QED
  BY <1>1, <1>2, <1>5, <1>6, <1>7, ThreadStep

\* A thread gets what it waits for, or its time is over.
LEMMA WokenStep ==
  ASSUME ObjInv, NEW b \in Blocks, Release(b) \/ _thread_timeout(b)
  PROVE  ObjInv'
<1>1. /\ b \in waiting \cup armed /\ MakeReady(b) /\ mem' = mem
      /\ UNCHANGED <<usage, objectVars, at, ptr, idle>>
  BY DEF Release, _thread_timeout, objectVars
<1>2. /\ mem[b] = "thread" /\ stat[b] # "close"
      /\ \A u \in Users : at[u] \in {"resume", "close"} => ptr[u] # b
  BY <1>1, NotServed
<1>3. KernelTypes /\ Elsewhere(b) /\ ListInv(b)' /\ ~Contains(defunct', b)
  BY <1>1, <1>2, MakeReadyLists
<1> QED
  BY <1>1, <1>2, <1>3, ThreadStep

-----------------------------------------------------------------------------
(* The services for a thread that there is.                                *)

\* A thread that is found and not closed is not in the hands of the idle thread.
LEMMA Found ==
  ASSUME ObjInv, NEW u \in Users, NEW b \in Blocks, MayCall(u, b)
  PROVE  /\ ptr[u] = b /\ at[u] = "found" /\ Undisturbed(u, b) /\ ListInv(b)
         /\ stat[b] # "close" => mem[b] = "thread" /\ idle.blk # b
<1>1. UserInv(u) /\ at[u] = "found" /\ ptr[u] = b /\ Undisturbed(u, b) /\ ListInv(b)
  BY DEF ObjInv, AllUsers, AllLists, MayCall
<1>2. stat[b] # "close" => idle.blk # b
  BY BlocksAssumption DEF ObjInv, IdleInv
<1> QED
  BY <1>1, <1>2 DEF UserInv

\* A user in a service for a thread is alone.
LEMMA Served ==
  ASSUME ObjInv, NEW u \in Users, at[u] \in Serving
  PROVE  /\ ptr[u] \in Blocks /\ mem[ptr[u]] = "thread" /\ idle.blk # ptr[u]
         /\ Undisturbed(u, ptr[u]) /\ ListInv(ptr[u])
<1>1. UserInv(u) /\ ptr[u] \in Blocks \cup {None} /\ ptr[u] # None
  BY DEF ObjInv, AllUsers, UserInv, Types, TypeOK, Serving
<1> QED
  BY <1>1 DEF UserInv, Undisturbed, ObjInv, AllLists, Serving

\* rt_thread_startup, and the test of rt_thread_resume.
LEMMA ResumeBegins ==
  ASSUME ObjInv, NEW u \in Users, NEW b \in Blocks,
         rt_thread_startup(u, b) \/ ResumeTest(u, b)
  PROVE  ObjInv'
<1>1. /\ MayCall(u, b) /\ Goto(u, "resume", b) /\ stat[b] \in {"init", "suspend"}
      /\ stat' = [stat EXCEPT ![b] = "suspend"]
      /\ stat[b] = "suspend" => b \notin waiting \cup armed
      /\ UNCHANGED <<usage, objectVars, idle>>
      /\ UNCHANGED <<prio, ready, waiting, armed, defunct>>
  <2>1. CASE rt_thread_startup(u, b)
    BY <2>1 DEF rt_thread_startup
  <2>2. CASE ResumeTest(u, b)
    <3>1. stat[b] = "suspend" /\ stat' = stat /\ stat = [stat EXCEPT ![b] = "suspend"]
      BY <2>2 DEF ResumeTest, kernelVars, ObjInv, Types, TypeOK
    <3> QED
      BY <2>2, <3>1 DEF ResumeTest, kernelVars
  <2> QED
    BY <2>1, <2>2
<1>2. /\ ptr[u] = b /\ at[u] = "found" /\ Undisturbed(u, b) /\ ListInv(b)
      /\ mem[b] = "thread" /\ idle.blk # b
  BY <1>1, Found
<1>3. stat'[b] = "suspend" /\ \A c \in Blocks : c # b => stat'[c] = stat[c]
  BY <1>1 DEF ObjInv, Types, TypeOK
<1>4. KernelTypes
  BY <1>1 DEF KernelTypes, ObjInv, Types, TypeOK
<1>5. Elsewhere(b)
  BY <1>1, <1>3 DEF Elsewhere
<1>6. ListInv(b)' /\ b \notin waiting' \cup armed'
  BY <1>1, <1>2, <1>3 DEF ListInv, objectVars
<1> QED
  BY <1>1, <1>2, <1>3, <1>4, <1>5, <1>6, UserStep DEF Serving

\* The masked section of rt_thread_resume.
LEMMA ResumeEnds ==
  ASSUME ObjInv, NEW u \in Users, ResumeInsert(u)
  PROVE  ObjInv'
<1>1. /\ at[u] = "resume" /\ MakeReady(ptr[u]) /\ Goto(u, "run", None) /\ mem' = mem
      /\ UNCHANGED <<usage, objectVars, idle>>
  BY DEF ResumeInsert, Return, objectVars
<1>2. at[u] \in Serving
  BY <1>1 DEF Serving
<1>3. /\ ptr[u] \in Blocks /\ mem[ptr[u]] = "thread" /\ idle.blk # ptr[u]
      /\ Undisturbed(u, ptr[u])
  BY <1>2, Served
<1>4. PICK b \in Blocks : b = ptr[u]
  BY <1>3
<1>5. KernelTypes /\ Elsewhere(b) /\ ListInv(b)'
  BY <1>1, <1>3, <1>4, MakeReadyLists
<1> QED
  BY <1>1, <1>2, <1>3, <1>4, <1>5, UserStep DEF Serving

\* RT_THREAD_CTRL_CHANGE_PRIORITY.
LEMMA ChangeStep ==
  ASSUME ObjInv, NEW u \in Users, NEW b \in Blocks, NEW pr \in Prio, ChangePriority(u, b, pr)
  PROVE  ObjInv'
<1>1. /\ MayCall(u, b) /\ prio' = [prio EXCEPT ![b] = pr] /\ Goto(u, "run", None)
      /\ stat[b] = "ready" => InsertReady(Unlinked(b), b, pr)
      /\ stat[b] # "ready" => stat' = stat /\ ready' = ready
      /\ UNCHANGED <<usage, objectVars, idle>>
      /\ UNCHANGED <<waiting, armed, defunct>> /\ mem' = mem
  BY DEF ChangePriority, Return, objectVars
<1>2. /\ ptr[u] = b /\ at[u] = "found" /\ Undisturbed(u, b) /\ ListInv(b)
      /\ stat[b] # "close" => idle.blk # b
      /\ stat[b] = "ready" => mem[b] = "thread"
  BY <1>1, Found
<1>3. /\ ready' \in [Prio -> SUBSET Blocks]
      /\ stat' \in [Blocks -> {"init", "ready", "suspend", "close"}]
      /\ \A c \in Blocks, p \in Prio : c # b => (c \in ready'[p] <=> c \in ready[p])
      /\ \A p \in Prio : b \in ready'[p] <=> stat[b] = "ready" /\ p = pr
      /\ stat' = stat
  <2>1. CASE stat[b] = "ready"
    <3>1. /\ ready' \in [Prio -> SUBSET Blocks]
          /\ stat' \in [Blocks -> {"init", "ready", "suspend", "close"}]
          /\ \A c \in Blocks, p \in Prio :
               c \in ready'[p] <=> IF c = b THEN p = pr ELSE c \in ready[p]
          /\ \A c \in Blocks : stat'[c] = IF c = b THEN "ready" ELSE stat[c]
      BY <1>1, <2>1, InsertReadyElements
    <3>2. stat' = stat
      BY <2>1, <3>1 DEF ObjInv, Types, TypeOK
    <3> QED
      BY <2>1, <3>1, <3>2
  <2>2. CASE stat[b] # "ready"
    <3>1. \A p \in Prio : b \notin ready[p]
      BY <1>2, <2>2 DEF ListInv
    <3> QED
      BY <1>1, <2>2, <3>1 DEF ObjInv, Types, TypeOK
  <2> QED
    BY <2>1, <2>2
<1>4. prio'[b] = pr /\ \A c \in Blocks : c # b => prio'[c] = prio[c]
  BY <1>1 DEF ObjInv, Types, TypeOK
<1>5. KernelTypes
  BY <1>1, <1>3 DEF KernelTypes, ObjInv, Types, TypeOK
<1>6. Elsewhere(b)
  BY <1>1, <1>3, <1>4 DEF Elsewhere
<1>7. ListInv(b)'
  BY <1>1, <1>2, <1>3, <1>4 DEF ListInv
<1> QED
  BY <1>1, <1>2, <1>3, <1>5, <1>6, <1>7, UserStep DEF Serving

\* The tests of rt_thread_detach and rt_thread_delete.
LEMMA CloseBegins ==
  ASSUME ObjInv, NEW u \in Users, NEW b \in Blocks,
         rt_thread_detach(u, b) \/ rt_thread_delete(u, b)
  PROVE  ObjInv'
<1>1. /\ MayCall(u, b) /\ UNCHANGED kernelVars
      /\ UNCHANGED <<usage, objectVars, idle>>
      /\ stat' = stat /\ mem' = mem
      /\ usage # "timed" \/ stat[b] = "init"
      /\ stat[b] = "close" => Goto(u, "run", None)
      /\ stat[b] = "init" => Goto(u, "close", b)
      /\ stat[b] \notin {"close", "init"} => Goto(u, "remove", b)
  BY DEF rt_thread_detach, rt_thread_delete, CloseTest, Return, kernelVars, objectVars
<1>2. /\ ptr[u] = b /\ at[u] = "found" /\ Undisturbed(u, b) /\ ListInv(b)
      /\ stat[b] # "close" => mem[b] = "thread" /\ idle.blk # b
  BY <1>1, Found
<1>3. KernelTypes /\ Elsewhere(b)
  BY <1>1, NothingChanges
<1>4. Contains(defunct', b) <=> Contains(defunct, b)
  BY <1>1 DEF kernelVars
<1>5. ListInv(b)'
  <2>1. ~Removed(b)
    BY <1>2 DEF Removed, Undisturbed
  <2> QED
    BY <1>1, <1>2, <2>1 DEF ListInv, kernelVars
<1>6. /\ at[u] \in {"found"} \cup Serving
      /\ idle.blk = b => /\ stat[b] = "close" /\ stat'[b] = stat[b]
                         /\ Contains(defunct', b) <=> Contains(defunct, b)
  BY <1>1, <1>2, <1>4
<1>7. CASE stat[b] = "close"
  BY <1>1, <1>2, <1>3, <1>5, <1>6, <1>7, UserStep DEF Serving
<1>8. CASE stat[b] = "init"
  <2>1. Loose(b)'
    BY <1>1, <1>2, <1>8 DEF ListInv, Loose, kernelVars
  <2> QED
    BY <1>1, <1>2, <1>3, <1>5, <1>6, <1>8, <2>1, UserStep DEF Serving
<1>9. CASE stat[b] \notin {"close", "init"}
  <2>1. usage = "close"
    BY <1>1, <1>9 DEF ObjInv, Types
  <2> QED
    BY <1>1, <1>2, <1>3, <1>5, <1>6, <1>9, <2>1, UserStep DEF Serving
<1> QED
  BY <1>7, <1>8, <1>9

\* The first masked section of both.
LEMMA RemoveStep ==
  ASSUME ObjInv, NEW u \in Users, CloseRemove(u)
  PROVE  ObjInv'
<1>1. at[u] = "remove" /\ at[u] \in Serving
  BY DEF CloseRemove, Serving
<1>2. /\ ptr[u] \in Blocks /\ mem[ptr[u]] = "thread" /\ idle.blk # ptr[u]
      /\ Undisturbed(u, ptr[u]) /\ ListInv(ptr[u])
  BY <1>1, Served
<1>3. PICK b \in Blocks : b = ptr[u]
  BY <1>2
<1>4. /\ ready' = Unlinked(b) /\ waiting' = waiting \ {b} /\ defunct' = Unlink(defunct, b)
      /\ Goto(u, "close", b) /\ UNCHANGED <<usage, objectVars, idle>>
      /\ stat' = stat /\ prio' = prio /\ armed' = armed /\ mem' = mem
  BY <1>3 DEF CloseRemove, objectVars
<1>5. armed = {}
  BY <1>1 DEF ObjInv, Types, AllUsers, UserInv
<1>6. /\ defunct' \in Seq(Blocks) /\ IsInjective(defunct')
      /\ \A c : Contains(defunct', c) <=> Contains(defunct, c) /\ c # b
  BY <1>4, UnlinkElements DEF ObjInv, Types, TypeOK
<1>7. /\ ready' \in [Prio -> SUBSET Blocks]
      /\ \A c, p : p \in Prio => (c \in ready'[p] <=> c \in ready[p] /\ c # b)
  BY <1>4, UnlinkedElements
<1>8. KernelTypes
  BY <1>4, <1>6, <1>7 DEF KernelTypes, ObjInv, Types, TypeOK
<1>9. Elsewhere(b)
  BY <1>4, <1>6, <1>7 DEF Elsewhere
<1>10. Loose(b)'
  BY <1>4, <1>5, <1>6, <1>7 DEF Loose
<1>11. Removed(b)'
  <2>1. at'[u] = "close" /\ ptr'[u] = b
    BY <1>4 DEF Goto, ObjInv, Types, TypeOK
  <2> QED
    BY <2>1 DEF Removed
<1>12. ListInv(b)'
  BY <1>10, <1>11 DEF ListInv, Loose
<1> QED
  BY <1>1, <1>2, <1>3, <1>4, <1>8, <1>9, <1>10, <1>12, UserStep DEF Serving

\* The second masked section of both.
LEMMA CloseEnds ==
  ASSUME ObjInv, NEW u \in Users, CloseEnqueue(u)
  PROVE  ObjInv'
<1>1. at[u] = "close" /\ at[u] \in Serving
  BY DEF CloseEnqueue, Serving
<1>2. /\ ptr[u] \in Blocks /\ mem[ptr[u]] = "thread" /\ idle.blk # ptr[u]
      /\ Undisturbed(u, ptr[u]) /\ Loose(ptr[u])
  BY <1>1, Served DEF ObjInv, AllUsers, UserInv
<1>3. PICK b \in Blocks : b = ptr[u]
  BY <1>2
<1>4. /\ stat' = [stat EXCEPT ![b] = "close"] /\ armed' = armed \ {b}
      /\ defunct' = <<b>> \o defunct
      /\ Goto(u, "run", None) /\ UNCHANGED <<usage, objectVars, idle>>
      /\ UNCHANGED <<prio, waiting>> /\ mem' = mem /\ ready' = ready
  BY <1>3 DEF CloseEnqueue, Return, objectVars
<1>5. ready' = Unlinked(b)
  <2>1. \A p \in Prio : ready[p] \ {b} = ready[p]
    BY <1>2, <1>3 DEF Loose
  <2>2. ready = [p \in Prio |-> ready[p]]
    BY DEF ObjInv, Types, TypeOK
  <2> QED
    BY <1>4, <2>1, <2>2 DEF Unlinked
<1>6. b \notin waiting /\ ~Contains(defunct, b)
  BY <1>2, <1>3 DEF Loose
<1>7. KernelTypes /\ Elsewhere(b) /\ ListInv(b)'
  BY <1>2, <1>3, <1>4, <1>5, <1>6, CloseLists
<1> QED
  BY <1>1, <1>2, <1>3, <1>4, <1>7, UserStep DEF Serving

-----------------------------------------------------------------------------
(* rt_thread_create and rt_thread_init.                                    *)

\* The types of what they change.
ObjectTypes ==
  /\ mem' \in [Blocks -> {"free", "object", "thread"}]
  /\ stat' \in [Blocks -> {"init", "ready", "suspend", "close"}]
  /\ prio' \in [Blocks -> Prio]
  /\ container' \in Seq(Blocks) /\ IsInjective(container')

\* Nothing changes for a block other than b.
OthersKept(b) ==
  \A c \in Blocks \ {b} :
    /\ mem'[c] = mem[c] /\ stat'[c] = stat[c] /\ prio'[c] = prio[c]
    /\ Contains(container', c) <=> Contains(container, c)

\* A block that u sets up, or begins to.
Builds(u, b) == (at[u] = "run" /\ mem[b] = "free") \/ (at[u] \in Building /\ ptr[u] = b)

\* It is in nobody else's hands and on no list.
LEMMA BuiltAlone ==
  ASSUME ObjInv, NEW u \in Users, NEW b \in Blocks, Builds(u, b)
  PROVE  /\ \A v \in Users \ {u} : ptr[v] # b
         /\ idle.blk # b /\ mem[b] # "thread" /\ Loose(b)
<1>1. UserInv(u) /\ MemInv(b) /\ ListInv(b)
  BY DEF ObjInv, AllUsers, AllMem, AllLists
<1>2. (\A v \in Users \ {u} : ptr[v] # b) /\ idle.blk # b /\ mem[b] # "thread"
  BY <1>1 DEF Builds, UserInv, MemInv
<1>3. Loose(b)
  BY <1>1, <1>2 DEF Loose, ListInv
<1> QED
  BY <1>2, <1>3

\* A step in which u sets the block b up, or gives it back.
LEMMA BuildStep ==
  ASSUME ObjInv, NEW u \in Users, NEW b \in Blocks, Builds(u, b),
         NEW place \in {"run"} \cup Building, NEW q, q = IF place = "run" THEN None ELSE b,
         Goto(u, place, q), UNCHANGED <<usage, ready, waiting, armed, defunct, idle>>,
         ObjectTypes, OthersKept(b),
         place \in Building => mem'[b] = "object" /\ (Contains(container', b) <=> place = "setup"),
         place = "run" => \/ mem'[b] = "thread" /\ stat'[b] = "init" /\ Contains(container', b)
                          \/ mem'[b] = "free" /\ ~Contains(container', b)
  PROVE  ObjInv'
<1> DEFINE others == \A v \in Users : v # u => at'[v] = at[v] /\ ptr'[v] = ptr[v]
<1>1. /\ at'[u] = place /\ ptr'[u] = q /\ others
      /\ at' \in [Users -> Places] /\ ptr' \in [Users -> Blocks \cup {None}]
  BY GoesTo DEF ObjInv, Places, Building
<1>2. /\ \A v \in Users \ {u} : ptr[v] # b
      /\ idle.blk # b /\ mem[b] # "thread" /\ Loose(b)
  BY BuiltAlone
<1>3. Types'
  BY <1>1 DEF ObjInv, Types, TypeOK, ObjectTypes
<1>4. AllUsers'
  <2>1. ASSUME NEW v \in Users, v # u
        PROVE  UserInv(v)'
    <3>1. UserInv(v) /\ (ptr[v] # None => ptr[v] \in Blocks \ {b}) /\ at[v] \in Places
      BY <1>2, <2>1 DEF ObjInv, AllUsers, Types, TypeOK
    <3>2. at'[v] = at[v] /\ ptr'[v] = ptr[v]
      BY <1>1, <2>1
    <3>3. \A w \in Users \ {v} : ptr[v] # None /\ ptr'[w] = ptr[v] => ptr[w] = ptr[v] /\ at'[w] = at[w]
      BY <1>1, <3>1
    <3> QED
      BY <3>1, <3>2, <3>3 DEF UserInv, OthersKept, Loose, Building, Serving
  <2>2. UserInv(u)'
    BY <1>1, <1>2, BlocksAssumption DEF UserInv, Building, Serving
  <2> QED
    BY <2>1, <2>2 DEF AllUsers
<1>5. AllLists'
  <2>1. ListInv(b)'
    BY <1>2 DEF ListInv, Loose, Building
  <2>2. ASSUME NEW c \in Blocks, c # b
        PROVE  ListInv(c)'
    <3>1. ListInv(c) /\ (Removed(c) => Removed(c)')
      BY <1>1, <2>2 DEF ObjInv, AllLists, Removed, Builds, Building
    <3> QED
      BY <2>2, <3>1 DEF ListInv, OthersKept
  <2> QED
    BY <2>1, <2>2 DEF AllLists
<1>6. AllMem'
  <2>1. MemInv(b)'
    BY <1>1, <1>2, BlocksAssumption DEF MemInv
  <2>2. ASSUME NEW c \in Blocks, c # b
        PROVE  MemInv(c)'
    <3>1. MemInv(c)
      BY DEF ObjInv, AllMem
    <3>2. (\A v \in Users : ptr[v] # c) => \A v \in Users : ptr'[v] # c
      BY <1>1, <2>2, BlocksAssumption
    <3>3. (\E v \in Users : at[v] \in Building /\ ptr[v] = c)
            => \E v \in Users : at'[v] \in Building /\ ptr'[v] = c
      BY <1>1, <2>2 DEF Builds, Building
    <3> QED
      BY <2>2, <3>1, <3>2, <3>3 DEF MemInv, OthersKept
  <2> QED
    BY <2>1, <2>2 DEF AllMem
<1>7. IdleInv'
  <2>1. idle.blk \in Blocks \cup {None} /\ idle.at \in Stages /\ IdleInv
    BY DEF ObjInv, Types
  <2>2. idle.blk # None /\ (\A v \in Users : ptr[v] # idle.blk) => \A v \in Users : ptr'[v] # idle.blk
    BY <1>1, <1>2
  <2> QED
    BY <1>2, <2>1, <2>2 DEF IdleInv, Stages, OthersKept
<1> QED
  BY <1>3, <1>4, <1>5, <1>6, <1>7 DEF ObjInv

\* A control block gets its name.
LEMMA NameStep ==
  ASSUME ObjInv, NEW u \in Users, NEW b \in Blocks, NEW n \in Names,
         rt_object_init(u, b, n) \/ rt_object_allocate(u, b, n)
  PROVE  ObjInv'
<1>1. /\ at[u] = "run" /\ mem[b] = "free" /\ mem' = [mem EXCEPT ![b] = "object"]
      /\ Goto(u, "insert", b) /\ stat' \in {stat, [stat EXCEPT ![b] = "init"]}
      /\ UNCHANGED <<usage, ready, waiting, armed, defunct, idle>>
      /\ container' = container /\ prio' = prio
  BY DEF rt_object_init, rt_object_allocate, Name
<1>2. ~Contains(container, b) /\ Builds(u, b)
  BY <1>1 DEF ObjInv, AllMem, MemInv, Builds
<1>3. /\ stat' \in [Blocks -> {"init", "ready", "suspend", "close"}]
      /\ \A c \in Blocks : c # b => stat'[c] = stat[c]
  <2>1. CASE stat' = stat
    BY <2>1 DEF ObjInv, Types, TypeOK
  <2>2. CASE stat' = [stat EXCEPT ![b] = "init"]
    BY <2>2 DEF ObjInv, Types, TypeOK
  <2> QED
    BY <1>1, <2>1, <2>2
<1>4. ObjectTypes /\ OthersKept(b) /\ mem'[b] = "object"
  BY <1>1, <1>3 DEF ObjInv, Types, TypeOK, ObjectTypes, OthersKept
<1> QED
  BY <1>1, <1>2, <1>4, BuildStep DEF Building

\* The block that a user sets up.
LEMMA Built ==
  ASSUME ObjInv, NEW u \in Users, at[u] \in Building
  PROVE  /\ ptr[u] \in Blocks /\ Builds(u, ptr[u]) /\ mem[ptr[u]] = "object"
         /\ Contains(container, ptr[u]) <=> at[u] = "setup"
<1>1. UserInv(u) /\ ptr[u] \in Blocks \cup {None} /\ ptr[u] # None
  BY DEF ObjInv, AllUsers, UserInv, Types, TypeOK, Building
<1> QED
  BY <1>1 DEF UserInv, Builds

\* It is put into the container.
LEMMA InsertStep ==
  ASSUME ObjInv, NEW u \in Users, rt_object_insert(u)
  PROVE  ObjInv'
<1>1. at[u] = "insert" /\ at[u] \in Building
  BY DEF rt_object_insert, Building
<1>2. /\ ptr[u] \in Blocks /\ Builds(u, ptr[u]) /\ mem[ptr[u]] = "object"
      /\ ~Contains(container, ptr[u])
  BY <1>1, Built
<1>3. PICK b \in Blocks : b = ptr[u]
  BY <1>2
<1>4. /\ container' = <<b>> \o container /\ Goto(u, "setup", b)
      /\ UNCHANGED <<usage, ready, waiting, armed, defunct, idle>>
      /\ mem' = mem /\ stat' = stat /\ prio' = prio
  BY <1>3 DEF rt_object_insert, kernelVars
<1>5. PICK k \in Seq(Blocks) : k = container /\ IsInjective(k) /\ ~Contains(k, b)
  BY <1>2, <1>3 DEF ObjInv, Types, TypeOK
<1>6. PICK r : r = container'
  OBVIOUS
<1>7. r = Append(k, b) \/ r = <<b>> \o k
  BY <1>4, <1>5, <1>6
<1>8. /\ r \in Seq(Blocks) /\ IsInjective(r)
      /\ \A c : Contains(r, c) <=> Contains(k, c) \/ c = b
  BY <1>5, <1>7, AddElements
<1>9. ObjectTypes /\ OthersKept(b) /\ mem'[b] = "object" /\ Contains(container', b)
  BY <1>2, <1>3, <1>4, <1>5, <1>6, <1>8 DEF ObjInv, Types, TypeOK, ObjectTypes, OthersKept
<1> QED
  BY <1>2, <1>3, <1>4, <1>9, BuildStep DEF Building

\* It becomes a thread.
LEMMA InitStep ==
  ASSUME ObjInv, NEW u \in Users, NEW pr \in Prio, _thread_init(u, pr)
  PROVE  ObjInv'
<1>1. at[u] = "setup" /\ at[u] \in Building
  BY DEF _thread_init, Building
<1>2. /\ ptr[u] \in Blocks /\ Builds(u, ptr[u]) /\ Contains(container, ptr[u])
  BY <1>1, Built
<1>3. PICK b \in Blocks : b = ptr[u]
  BY <1>2
<1>4. /\ mem' = [mem EXCEPT ![b] = "thread"] /\ stat' = [stat EXCEPT ![b] = "init"]
      /\ prio' = [prio EXCEPT ![b] = pr] /\ container' = container /\ Goto(u, "run", None)
      /\ UNCHANGED <<usage, ready, waiting, armed, defunct, idle>>
  BY <1>3 DEF _thread_init, Return
<1>5. /\ ObjectTypes /\ OthersKept(b) /\ mem'[b] = "thread" /\ stat'[b] = "init"
      /\ Contains(container', b)
  BY <1>2, <1>3, <1>4 DEF ObjInv, Types, TypeOK, ObjectTypes, OthersKept
<1> QED
  BY <1>2, <1>3, <1>4, <1>5, BuildStep DEF Building

\* Or it is taken out of the container, and given back.
LEMMA UndoStep ==
  ASSUME ObjInv, NEW u \in Users, CreateFails(u) \/ CreateUndone(u)
  PROVE  ObjInv'
<1>1. at[u] \in Building
  BY DEF CreateFails, CreateUndone, Building
<1>2. /\ ptr[u] \in Blocks /\ Builds(u, ptr[u]) /\ mem[ptr[u]] = "object"
      /\ Contains(container, ptr[u]) <=> at[u] = "setup"
  BY <1>1, Built
<1>3. PICK b \in Blocks : b = ptr[u]
  BY <1>2
<1>4. CASE CreateFails(u)
  <2>1. /\ container' = Unlink(container, b) /\ Goto(u, "undo", b)
        /\ UNCHANGED <<usage, ready, waiting, armed, defunct, idle>>
        /\ mem' = mem /\ stat' = stat /\ prio' = prio
    BY <1>3, <1>4 DEF CreateFails, kernelVars
  <2>2. /\ container' \in Seq(Blocks) /\ IsInjective(container')
        /\ \A c : Contains(container', c) <=> Contains(container, c) /\ c # b
    BY <2>1, UnlinkElements DEF ObjInv, Types, TypeOK
  <2>3. ObjectTypes /\ OthersKept(b) /\ mem'[b] = "object" /\ ~Contains(container', b)
    BY <1>2, <1>3, <2>1, <2>2 DEF ObjInv, Types, TypeOK, ObjectTypes, OthersKept
  <2> QED
    BY <1>2, <1>3, <2>1, <2>3, BuildStep DEF Building
<1>5. CASE CreateUndone(u)
  <2>1. /\ at[u] = "undo" /\ mem' = [mem EXCEPT ![b] = "free"] /\ Goto(u, "run", None)
        /\ UNCHANGED <<usage, ready, waiting, armed, defunct, idle>>
        /\ container' = container /\ stat' = stat /\ prio' = prio
    BY <1>3, <1>5 DEF CreateUndone, Return, kernelVars
  <2>2. ObjectTypes /\ OthersKept(b) /\ mem'[b] = "free" /\ ~Contains(container', b)
    BY <1>2, <1>3, <2>1 DEF ObjInv, Types, TypeOK, ObjectTypes, OthersKept
  <2> QED
    BY <1>2, <1>3, <2>1, <2>2, BuildStep DEF Building
<1> QED
  BY <1>4, <1>5

-----------------------------------------------------------------------------
(* rt_thread_find, rt_object_get_pointers.                                 *)

\* What is handed out is in the container.
LEMMA HandedOut ==
  ASSUME ObjInv
  PROVE  /\ \A n : rt_thread_find(n) # None =>
              rt_thread_find(n) \in Blocks /\ Contains(container, rt_thread_find(n))
         /\ \A b \in Range(rt_object_get_pointers(Cardinality(Blocks))) : Contains(container, b)
<1>1. container \in Seq(Blocks) /\ DOMAIN container = 1 .. Len(container)
  BY DEF ObjInv, Types, TypeOK
<1>2. ASSUME NEW n, rt_thread_find(n) # None
      PROVE  rt_thread_find(n) \in Blocks /\ Contains(container, rt_thread_find(n))
  <2>1. PICK I : I = {i \in 1 .. Len(container) : name[container[i]] = n}
    OBVIOUS
  <2>2. rt_thread_find(n) = LET i == IF I # {} THEN Min(I) ELSE 0
                            IN  IF i = 0 THEN None ELSE container[i]
    BY <2>1 DEF rt_thread_find, SelectInSeq
  <2>3. I # {}
    BY <1>2, <2>2
  <2>4. I \subseteq Nat /\ I \subseteq 1 .. Len(container)
    BY <2>1
  <2>5. \E x \in I : \A y \in I : x <= y
    BY <2>3, <2>4, LeastNatural
  <2>6. Min(I) \in I
    BY <2>5 DEF Min
  <2>7. PICK i \in 1 .. Len(container) : i = Min(I)
    BY <2>4, <2>6
  <2>8. rt_thread_find(n) = container[i]
    BY <2>2, <2>3, <2>7
  <2> QED
    BY <1>1, <2>7, <2>8 DEF Contains
<1>3. ASSUME NEW b \in Range(rt_object_get_pointers(Cardinality(Blocks)))
      PROVE  Contains(container, b)
  <2>1. Cardinality(Blocks) \in Nat
    BY FiniteAssumption, FS_CardinalityType
  <2>2. PICK m \in 0 .. Len(container) :
          rt_object_get_pointers(Cardinality(Blocks)) = SubSeq(container, 1, m)
    BY <1>1, <2>1 DEF rt_object_get_pointers
  <2>3. /\ DOMAIN SubSeq(container, 1, m) = 1 .. m
        /\ \A i \in 1 .. m : SubSeq(container, 1, m)[i] = container[i]
    BY <1>1, <2>2
  <2>4. PICK i \in 1 .. m : b = container[i]
    BY <2>2, <2>3 DEF Range
  <2> QED
    BY <1>1, <2>4 DEF Contains
<1> QED
  BY <1>2, <1>3

\* A user takes a pointer to a thread that is in the container.
LEMMA FindStep ==
  ASSUME ObjInv, NEW u \in Users, NEW b \in Blocks, Find(u, b), Contains(container, b)
  PROVE  ObjInv'
<1>1. /\ at[u] = "run" /\ Goto(u, "found", b)
      /\ \A v \in Users : ptr[v] = b => at[v] \notin Building
      /\ mem' = mem /\ container' = container /\ idle' = idle /\ usage' = usage /\ stat' = stat
      /\ prio' = prio /\ ready' = ready /\ waiting' = waiting /\ armed' = armed /\ defunct' = defunct
  BY DEF Find, Building, objectVars, kernelVars
<1>2. /\ at'[u] = "found" /\ ptr'[u] = b
      /\ \A v \in Users : v # u => at'[v] = at[v] /\ ptr'[v] = ptr[v]
      /\ at' \in [Users -> Places] /\ ptr' \in [Users -> Blocks \cup {None}]
  BY <1>1, GoesTo DEF ObjInv, Places
<1>3. /\ mem[b] = "thread" \/ (idle.at = "delete" /\ idle.blk = b)
      /\ mem[b] # "free" /\ (idle.at \in {"cleanup", "free"} => idle.blk # b)
  <2>1. MemInv(b) /\ mem[b] \in {"free", "object", "thread"}
    BY DEF ObjInv, AllMem, Types, TypeOK
  <2>2. idle.at \in {"cleanup", "free"} => idle.blk # b
    BY DEF ObjInv, IdleInv
  <2> QED
    BY <1>1, <2>1, <2>2 DEF MemInv
<1>4. Types'
  BY <1>1, <1>2 DEF ObjInv, Types, TypeOK
<1>5. AllUsers'
  <2>1. ASSUME NEW v \in Users, v # u
        PROVE  UserInv(v)'
    <3>1. UserInv(v) /\ (ptr[v] # None => ptr[v] \in Blocks) /\ at[v] \in Places
      BY DEF ObjInv, AllUsers, Types, TypeOK
    <3>2. at[v] \in Building => ptr[v] # b
      BY <1>1
    <3> QED
      BY <1>1, <1>2, <2>1, <3>1, <3>2 DEF UserInv, Loose, Building, Serving
  <2>2. UserInv(u)'
    BY <1>1, <1>2, <1>3, BlocksAssumption DEF UserInv, Building, Serving
  <2> QED
    BY <2>1, <2>2 DEF AllUsers
<1>6. AllLists'
  <2> SUFFICES ASSUME NEW c \in Blocks
               PROVE  ListInv(c)'
    BY DEF AllLists
  <2>1. ListInv(c) /\ (Removed(c) => Removed(c)')
    BY <1>1, <1>2 DEF ObjInv, AllLists, Removed
  <2> QED
    BY <1>1, <2>1 DEF ListInv
<1>7. AllMem'
  <2> SUFFICES ASSUME NEW c \in Blocks
               PROVE  MemInv(c)'
    BY DEF AllMem
  <2>1. MemInv(c)
    BY DEF ObjInv, AllMem
  <2>2. mem[c] = "free" /\ (\A v \in Users : ptr[v] # c) => \A v \in Users : ptr'[v] # c
    BY <1>2, <1>3
  <2>3. (\E v \in Users : at[v] \in Building /\ ptr[v] = c)
          => \E v \in Users : at'[v] \in Building /\ ptr'[v] = c
    BY <1>1, <1>2 DEF Building
  <2> QED
    BY <1>1, <2>1, <2>2, <2>3 DEF MemInv
<1>8. IdleInv'
  <2>1. idle.at \in {"cleanup", "free"} /\ (\A v \in Users : ptr[v] # idle.blk)
          => \A v \in Users : ptr'[v] # idle.blk
    BY <1>2, <1>3
  <2>2. IdleInv /\ idle.at \in Stages
    BY DEF ObjInv, Types
  <2> QED
    BY <1>1, <2>1, <2>2 DEF IdleInv, Stages
<1> QED
  BY <1>4, <1>5, <1>6, <1>7, <1>8 DEF ObjInv

-----------------------------------------------------------------------------
(* The idle thread.                                                        *)

\* While it runs no user has a pointer.
LEMMA IdleAlone ==
  ASSUME ObjInv, NEW from, NEW to, NEW b, IdleGoes(from, to, b)
  PROVE  /\ idle.at = from /\ idle'.at = to /\ idle'.blk = b
         /\ UNCHANGED <<usage, at, ptr>>
         /\ \A u \in Users : at[u] = "out" /\ ptr[u] = None
         /\ AllUsers'
<1>1. /\ idle.at = from /\ idle'.at = to /\ idle'.blk = b /\ UNCHANGED <<usage, at, ptr>>
  BY DEF IdleGoes
<1>2. \A u \in Users : at[u] = "out" /\ ptr[u] = None
  BY DEF IdleGoes, IdleMayRun, ObjInv, AllUsers, UserInv
<1>3. AllUsers'
  BY <1>1, <1>2 DEF AllUsers, UserInv, Building, Serving
<1> QED
  BY <1>1, <1>2, <1>3

\* rt_thread_defunct_dequeue.
LEMMA DequeueStep ==
  ASSUME ObjInv, DequeueRead \/ DequeueUnlink
  PROVE  ObjInv'
<1>1. defunct \in Seq(Blocks) /\ IsInjective(defunct)
  BY DEF ObjInv, Types, TypeOK
<1>2. CASE DequeueRead
  <2>1. defunct # <<>> /\ IdleGoes("loop", "unlink", Head(defunct)) /\ UNCHANGED <<objectVars, kernelVars>>
    BY <1>2 DEF DequeueRead
  <2>2. PICK b \in Blocks : b = Head(defunct) /\ Contains(defunct, b)
    BY <1>1, <2>1, TailElements
  <2>3. /\ idle.at = "loop" /\ idle'.at = "unlink" /\ idle'.blk = b
        /\ UNCHANGED <<usage, at, ptr>>
        /\ (\A u \in Users : at[u] = "out" /\ ptr[u] = None) /\ AllUsers'
    BY <2>1, <2>2, IdleAlone
  <2>4. /\ mem' = mem /\ container' = container /\ stat' = stat
        /\ prio' = prio /\ ready' = ready /\ waiting' = waiting /\ armed' = armed /\ defunct' = defunct
    BY <2>1 DEF objectVars, kernelVars
  <2>5. Types'
    <3>1. idle' \in [at : Stages, blk : Blocks \cup {None}]
      BY <2>1, <2>2 DEF IdleGoes, Stages
    <3> QED
      BY <2>3, <2>4, <3>1 DEF ObjInv, Types, TypeOK
  <2>6. stat[b] = "close" /\ mem[b] = "thread"
    BY <2>2 DEF ObjInv, AllLists, ListInv
  <2>7. AllLists'
    BY <2>3, <2>4 DEF ObjInv, AllLists, ListInv, Removed
  <2>8. AllMem'
    BY <2>3, <2>4, <2>6, BlocksAssumption DEF ObjInv, AllMem, MemInv, Building
  <2>9. IdleInv'
    BY <2>2, <2>3, <2>4, <2>6, BlocksAssumption DEF IdleInv
  <2> QED
    BY <2>3, <2>5, <2>7, <2>8, <2>9 DEF ObjInv
<1>3. CASE DequeueUnlink
  <2>1. PICK b, to : /\ b = idle.blk /\ to = IF idle.blk \in Static THEN "detach" ELSE "freestack"
    OBVIOUS
  <2>2. /\ IdleGoes("unlink", to, b) /\ defunct' = Unlink(defunct, b)
        /\ mem' = mem /\ container' = container /\ stat' = stat
        /\ prio' = prio /\ ready' = ready /\ waiting' = waiting /\ armed' = armed
    BY <1>3, <2>1 DEF DequeueUnlink, objectVars
  <2>3. /\ idle.at = "unlink" /\ idle'.at = to /\ idle'.blk = b
        /\ UNCHANGED <<usage, at, ptr>>
        /\ (\A u \in Users : at[u] = "out" /\ ptr[u] = None) /\ AllUsers'
    BY <2>2, IdleAlone
  <2>4. /\ defunct' \in Seq(Blocks) /\ IsInjective(defunct')
        /\ \A c : Contains(defunct', c) <=> Contains(defunct, c) /\ c # b
    BY <1>1, <2>2, UnlinkElements
  <2>5. Types'
    <3>1. idle' \in [at : Stages, blk : Blocks \cup {None}]
      BY <2>1, <2>2 DEF IdleGoes, Stages, ObjInv, Types
    <3> QED
      BY <2>2, <2>3, <2>4, <3>1 DEF ObjInv, Types, TypeOK
  <2>6. AllLists'
    BY <2>2, <2>3, <2>4 DEF ObjInv, AllLists, ListInv, Removed
  <2>7. AllMem'
    BY <2>1, <2>2, <2>3 DEF ObjInv, AllMem, MemInv, Building
  <2>8. IdleInv'
    BY <2>1, <2>2, <2>3, <2>4 DEF ObjInv, IdleInv
  <2> QED
    BY <2>3, <2>5, <2>6, <2>7, <2>8 DEF ObjInv
<1> QED
  BY <1>2, <1>3

\* The block of the idle thread hangs on no list, once it is dequeued.
LEMMA Reaped ==
  ASSUME ObjInv, idle.at \notin {"loop", "unlink"}
  PROVE  /\ idle.blk \in Blocks /\ stat[idle.blk] = "close" /\ Loose(idle.blk)
<1>1. idle.blk \in Blocks /\ stat[idle.blk] = "close" /\ ~Contains(defunct, idle.blk)
  BY DEF ObjInv, IdleInv, Types
<1>2. ListInv(idle.blk)
  BY <1>1 DEF ObjInv, AllLists
<1> QED
  BY <1>1, <1>2 DEF ListInv, Loose

\* The thread is taken out of the container.
LEMMA TakeOffStep ==
  ASSUME ObjInv, ReapDetach \/ ReapDelete
  PROVE  ObjInv'
<1>1. PICK b : b = idle.blk
  OBVIOUS
<1>2. PICK from \in {"detach", "delete"} :
        /\ IdleGoes(from, IF from = "detach" THEN "cleanup" ELSE "free", b)
        /\ container' = Unlink(container, b)
        /\ mem' = mem /\ stat' = stat /\ prio' = prio /\ ready' = ready
        /\ waiting' = waiting /\ armed' = armed /\ defunct' = defunct
  BY <1>1 DEF ReapDetach, ReapDelete, kernelVars
<1>3. PICK to \in {"cleanup", "free"} : to = IF from = "detach" THEN "cleanup" ELSE "free"
  OBVIOUS
<1>4. /\ idle.at = from /\ idle'.at = to /\ idle'.blk = b
      /\ UNCHANGED <<usage, at, ptr>>
      /\ (\A u \in Users : at[u] = "out" /\ ptr[u] = None) /\ AllUsers'
  BY <1>2, <1>3, IdleAlone
<1>5. b \in Blocks /\ stat[b] = "close" /\ Loose(b)
  BY <1>1, <1>4, Reaped
<1>6. /\ container' \in Seq(Blocks) /\ IsInjective(container')
      /\ \A c : Contains(container', c) <=> Contains(container, c) /\ c # b
  BY <1>2, UnlinkElements DEF ObjInv, Types, TypeOK
<1>7. Types'
  <2>1. idle' \in [at : Stages, blk : Blocks \cup {None}]
    BY <1>2, <1>3, <1>5 DEF IdleGoes, Stages
  <2> QED
    BY <1>2, <1>4, <1>6, <2>1 DEF ObjInv, Types, TypeOK
<1>8. AllLists'
  BY <1>2, <1>4 DEF ObjInv, AllLists, ListInv, Removed
<1>9. mem[b] = IF from = "detach" THEN "thread" ELSE "object"
  BY <1>1, <1>4 DEF ObjInv, IdleInv
<1>10. AllMem'
  BY <1>1, <1>2, <1>3, <1>4, <1>6, <1>9 DEF ObjInv, AllMem, MemInv, Building
<1>11. IdleInv'
  BY <1>2, <1>3, <1>4, <1>5, <1>6, <1>9, BlocksAssumption DEF IdleInv, Loose
<1> QED
  BY <1>4, <1>7, <1>8, <1>10, <1>11 DEF ObjInv

\* The stack of a thread from the heap is freed.
LEMMA FreeStackStep ==
  ASSUME ObjInv, ReapFreeStack
  PROVE  ObjInv'
<1>1. PICK b : b = idle.blk
  OBVIOUS
<1>2. /\ IdleGoes("freestack", "delete", b)
      /\ mem' = [mem EXCEPT ![b] = "object"] /\ container' = container
      /\ stat' = stat /\ prio' = prio /\ ready' = ready
      /\ waiting' = waiting /\ armed' = armed /\ defunct' = defunct
  BY <1>1 DEF ReapFreeStack, kernelVars
<1>3. /\ idle.at = "freestack" /\ idle'.at = "delete" /\ idle'.blk = b
      /\ UNCHANGED <<usage, at, ptr>>
      /\ (\A u \in Users : at[u] = "out" /\ ptr[u] = None) /\ AllUsers'
  BY <1>2, IdleAlone
<1>4. b \in Blocks /\ stat[b] = "close" /\ Loose(b)
  BY <1>1, <1>3, Reaped
<1>5. mem'[b] = "object" /\ \A c \in Blocks : c # b => mem'[c] = mem[c]
  BY <1>2, <1>4 DEF ObjInv, Types, TypeOK
<1>6. Types'
  <2>1. idle' \in [at : Stages, blk : Blocks \cup {None}]
    BY <1>2, <1>4 DEF IdleGoes, Stages
  <2>2. mem' \in [Blocks -> {"free", "object", "thread"}]
    BY <1>2 DEF ObjInv, Types, TypeOK
  <2> QED
    BY <1>2, <1>3, <2>1, <2>2 DEF ObjInv, Types, TypeOK
<1>7. AllLists'
  BY <1>2, <1>3, <1>4, <1>5 DEF ObjInv, AllLists, ListInv, Removed, Loose
<1>8. AllMem'
  BY <1>1, <1>2, <1>3, <1>5 DEF ObjInv, AllMem, MemInv, Building
<1>9. IdleInv'
  BY <1>2, <1>3, <1>4, <1>5, BlocksAssumption DEF IdleInv, Loose
<1> QED
  BY <1>3, <1>6, <1>7, <1>8, <1>9 DEF ObjInv

\* The control block is given back.
LEMMA GiveBackStep ==
  ASSUME ObjInv, ReapCleanup \/ ReapFree
  PROVE  ObjInv'
<1>1. PICK b : b = idle.blk
  OBVIOUS
<1>2. PICK from \in {"cleanup", "free"} :
        /\ IdleGoes(from, "loop", None)
        /\ mem' = [mem EXCEPT ![b] = "free"] /\ container' = container
        /\ stat' = stat /\ prio' = prio /\ ready' = ready
        /\ waiting' = waiting /\ armed' = armed /\ defunct' = defunct
  BY <1>1 DEF ReapCleanup, ReapFree, kernelVars
<1>3. /\ idle.at = from /\ idle'.at = "loop" /\ idle'.blk = None
      /\ UNCHANGED <<usage, at, ptr>>
      /\ (\A u \in Users : at[u] = "out" /\ ptr[u] = None) /\ AllUsers'
  BY <1>2, IdleAlone
<1>4. b \in Blocks /\ stat[b] = "close" /\ Loose(b)
  BY <1>1, <1>3, Reaped
<1>5. mem'[b] = "free" /\ \A c \in Blocks : c # b => mem'[c] = mem[c]
  BY <1>2, <1>4 DEF ObjInv, Types, TypeOK
<1>6. ~Contains(container, b)
  BY <1>1, <1>3 DEF ObjInv, IdleInv
<1>7. Types'
  <2>1. idle' \in [at : Stages, blk : Blocks \cup {None}]
    BY <1>2 DEF IdleGoes, Stages
  <2>2. mem' \in [Blocks -> {"free", "object", "thread"}]
    BY <1>2 DEF ObjInv, Types, TypeOK
  <2> QED
    BY <1>2, <1>3, <2>1, <2>2 DEF ObjInv, Types, TypeOK
<1>8. AllLists'
  BY <1>2, <1>3, <1>4, <1>5 DEF ObjInv, AllLists, ListInv, Removed, Loose
<1>9. AllMem'
  BY <1>1, <1>2, <1>3, <1>4, <1>5, <1>6, BlocksAssumption DEF ObjInv, AllMem, MemInv, Building
<1>10. IdleInv'
  BY <1>3 DEF IdleInv
<1> QED
  BY <1>3, <1>7, <1>8, <1>9, <1>10 DEF ObjInv

-----------------------------------------------------------------------------
(* The invariant.                                                          *)

\* It holds at first.
LEMMA ObjInit ==
  ASSUME "both" \notin Usages, Init
  PROVE  ObjInv
<1>1. 0 \in Prio
  BY PrioMaxAssumption DEF Prio
<1>2. \A c : ~Contains(<<>>, c)
  BY DEF Contains
<1>3. IsInjective(<<>>)
  BY DEF IsInjective
<1>4. Types
  BY <1>1, <1>3, UsagesAssumption DEF Init, Types, TypeOK, Places, Stages
<1>5. AllUsers
  BY DEF Init, AllUsers, UserInv, Building, Serving
<1>6. AllLists
  BY <1>2 DEF Init, AllLists, ListInv
<1>7. AllMem /\ IdleInv
  BY <1>2, BlocksAssumption DEF Init, AllMem, MemInv, IdleInv
<1> QED
  BY <1>4, <1>5, <1>6, <1>7 DEF ObjInv

\* A step of a user keeps it.
LEMMA ObjUser ==
  ASSUME ObjInv, NEW u \in Users,
         \/ Block(u) \/ Wake(u) \/ Service(u) \/ Forget(u)
         \/ \E b \in Blocks, n \in Names : rt_object_init(u, b, n) \/ rt_object_allocate(u, b, n)
         \/ \E n \in Names : rt_thread_find(n) # None /\ Find(u, rt_thread_find(n))
         \/ \E b \in Range(rt_object_get_pointers(Cardinality(Blocks))) : Find(u, b)
         \/ \E b \in Blocks : rt_thread_control(u, b) \/ ResumeTest(u, b)
  PROVE  ObjInv'
<1>1. CASE Block(u) \/ Wake(u)
  <2>1. at[u] \in {"out", "run"} /\ ptr[u] = None
    BY <1>1 DEF Block, Wake, ObjInv, AllUsers, UserInv
  <2>2. ptr = [ptr EXCEPT ![u] = None]
    BY <2>1 DEF ObjInv, Types, TypeOK
  <2>3. PICK place \in {"out", "run"} : at' = [at EXCEPT ![u] = place]
    BY <1>1 DEF Block, Wake
  <2>4. Goto(u, place, None) /\ UNCHANGED <<usage, objectVars, kernelVars, idle>>
    BY <1>1, <2>2, <2>3 DEF Block, Wake, Goto
  <2> QED
    BY <2>1, <2>4, UserFree
<1>2. CASE Forget(u)
  BY <1>2, UserFree DEF Forget, Return
<1>3. CASE Service(u)
  BY <1>3, InsertStep, InitStep, UndoStep, ResumeEnds, RemoveStep, CloseEnds DEF Service
<1>4. CASE \E b \in Blocks, n \in Names : rt_object_init(u, b, n) \/ rt_object_allocate(u, b, n)
  BY <1>4, NameStep
<1>5. CASE \E n \in Names : rt_thread_find(n) # None /\ Find(u, rt_thread_find(n))
  <2>1. PICK b \in Blocks : Find(u, b) /\ Contains(container, b)
    BY <1>5, HandedOut
  <2> QED
    BY <2>1, FindStep
<1>6. CASE \E b \in Range(rt_object_get_pointers(Cardinality(Blocks))) : Find(u, b)
  <2>1. PICK b : Find(u, b) /\ Contains(container, b)
    BY <1>6, HandedOut
  <2>2. b \in Blocks
    BY <2>1 DEF ObjInv, Types, TypeOK, Contains
  <2> QED
    BY <2>1, <2>2, FindStep
<1>7. CASE \E b \in Blocks : rt_thread_control(u, b) \/ ResumeTest(u, b)
  BY <1>7, ResumeBegins, ChangeStep, CloseBegins DEF rt_thread_control
<1> QED
  BY <1>1, <1>2, <1>3, <1>4, <1>5, <1>6, <1>7

\* Every step keeps it.
LEMMA ObjNext ==
  ASSUME ObjInv, [Next]_vars
  PROVE  ObjInv'
<1>1. ASSUME NEW u \in Users,
             \/ Block(u) \/ Wake(u) \/ Service(u) \/ Forget(u)
             \/ \E b \in Blocks, n \in Names : rt_object_init(u, b, n) \/ rt_object_allocate(u, b, n)
             \/ \E n \in Names : rt_thread_find(n) # None /\ Find(u, rt_thread_find(n))
             \/ \E b \in Range(rt_object_get_pointers(Cardinality(Blocks))) : Find(u, b)
             \/ \E b \in Blocks : rt_thread_control(u, b) \/ ResumeTest(u, b)
      PROVE  ObjInv'
  BY <1>1, ObjUser
<1>2. ASSUME NEW b \in Blocks,
             \/ _thread_exit(b) \/ Release(b) \/ _thread_timeout(b)
             \/ \E listed, timer \in BOOLEAN : rt_thread_suspend(b, listed, timer)
      PROVE  ObjInv'
  BY <1>2, ExitStep, WokenStep, SuspendStep
<1>3. CASE Idle
  BY <1>3, DequeueStep, TakeOffStep, FreeStackStep, GiveBackStep DEF Idle
<1>4. CASE UNCHANGED vars
  <2>1. /\ usage' = usage /\ mem' = mem /\ stat' = stat /\ container' = container
        /\ prio' = prio /\ ready' = ready /\ waiting' = waiting /\ armed' = armed
        /\ defunct' = defunct /\ at' = at /\ ptr' = ptr /\ idle' = idle
    BY <1>4 DEF vars, objectVars, kernelVars
  <2>2. Types' /\ IdleInv'
    BY <2>1 DEF ObjInv, Types, TypeOK, IdleInv
  <2>3. AllUsers'
    BY <2>1 DEF ObjInv, AllUsers, UserInv, Loose
  <2>4. AllLists'
    BY <2>1 DEF ObjInv, AllLists, ListInv, Removed
  <2>5. AllMem'
    BY <2>1 DEF ObjInv, AllMem, MemInv
  <2> QED
    BY <2>2, <2>3, <2>4, <2>5 DEF ObjInv
<1> QED
  BY <1>1, <1>2, <1>3, <1>4 DEF Next

\* In every behaviour the invariant holds in every state.
THEOREM ObjInvariance ==
  ASSUME "both" \notin Usages
  PROVE  Spec => []ObjInv
<1>1. Init => ObjInv
  BY ObjInit
<1>2. ObjInv /\ [Next]_vars => ObjInv'
  BY ObjNext
<1> QED
  BY <1>1, <1>2, PTL DEF Spec

-----------------------------------------------------------------------------
(* The properties.                                                         *)

\* The one list a thread hangs on is the one its state says, also between the two
\* masked sections of rt_thread_detach and rt_thread_delete.
THEOREM ListsAgreeCorrect ==
  ASSUME "both" \notin Usages
  PROVE  Spec => []ListsAgree
<1>1. ObjInv => ListsAgree
  BY DEF ObjInv, AllLists, ListInv, ListsAgree
<1> QED
  BY <1>1, ObjInvariance, PTL

\* Memory that was given back is on no list and nobody holds a pointer to it.
THEOREM FreedIsForgottenCorrect ==
  ASSUME "both" \notin Usages
  PROVE  Spec => []FreedIsForgotten
<1>1. ObjInv => FreedIsForgotten
  BY DEF ObjInv, AllLists, ListInv, AllMem, MemInv, FreedIsForgotten
<1> QED
  BY <1>1, ObjInvariance, PTL

\* The container of object.c and the defunct list hold a thread once, and each thread
\* is in the container until the idle thread has taken it off.
THEOREM ContainerExactCorrect ==
  ASSUME "both" \notin Usages
  PROVE  Spec => []ContainerExact
<1>1. ObjInv => ContainerExact
  BY DEF ObjInv, Types, AllMem, MemInv, ContainerExact
<1> QED
  BY <1>1, ObjInvariance, PTL

\* rt_thread_resume, rt_thread_control and the timers, which test the state first,
\* never make a thread ready again that was closed.
THEOREM ClosedStaysClosedCorrect ==
  ASSUME "both" \notin Usages
  PROVE  Spec => ClosedStaysClosed
<1> DEFINE Kept == \A b \in Blocks : mem[b] = "thread" /\ stat[b] = "close" => stat'[b] = "close"
<1>1. ObjInv /\ [Next]_vars => [Kept]_vars
  <2> SUFFICES ASSUME ObjInv, [Next]_vars, NEW b \in Blocks, mem[b] = "thread", stat[b] = "close"
               PROVE  stat'[b] = "close"
    OBVIOUS
  <2>1. stat \in [Blocks -> {"init", "ready", "suspend", "close"}]
    BY DEF ObjInv, Types, TypeOK
  <2>2. ASSUME NEW c \in Blocks, NEW s, stat' = [stat EXCEPT ![c] = s], c # b \/ s = "close"
        PROVE  stat'[b] = "close"
    BY <2>1, <2>2
  <2>3. ASSUME NEW c \in Blocks, MakeReady(c), stat[c] # "close"
        PROVE  stat'[b] = "close"
    BY <2>2, <2>3 DEF MakeReady, InsertReady
  <2>4. ASSUME NEW u \in Users, Service(u)
        PROVE  stat'[b] = "close"
    <3>1. CASE ResumeInsert(u)
      <4>1. at[u] \in Serving
        BY <3>1 DEF ResumeInsert, Serving
      <4>2. ptr[u] \in Blocks /\ stat[ptr[u]] = "suspend" /\ MakeReady(ptr[u])
        BY <3>1, <4>1, Served DEF ResumeInsert, ObjInv, AllUsers, UserInv
      <4> QED
        BY <2>3, <4>2
    <3>2. CASE \E p \in Prio : _thread_init(u, p)
      <4>1. at[u] \in Building
        BY <3>2 DEF _thread_init, Building
      <4>2. ptr[u] \in Blocks /\ ptr[u] # b /\ stat' = [stat EXCEPT ![ptr[u]] = "init"]
        BY <3>2, <4>1, Built DEF _thread_init
      <4> QED
        BY <2>2, <4>2
    <3>3. CASE CloseEnqueue(u)
      <4>1. stat' = [stat EXCEPT ![ptr[u]] = "close"]
        BY <3>3 DEF CloseEnqueue
      <4> QED
        BY <2>1, <4>1
    <3> QED
      BY <2>4, <3>1, <3>2, <3>3
      DEF Service, rt_object_insert, CreateFails, CreateUndone, CloseRemove, kernelVars
  <2>5. ASSUME NEW u \in Users, NEW c \in Blocks,
               \/ \E n \in Names : rt_object_init(u, c, n) \/ rt_object_allocate(u, c, n)
               \/ rt_thread_control(u, c) \/ ResumeTest(u, c)
        PROVE  stat'[b] = "close"
    <3>1. CASE \E n \in Names : rt_object_init(u, c, n) \/ rt_object_allocate(u, c, n)
      <4>1. c # b /\ stat' \in {stat, [stat EXCEPT ![c] = "init"]}
        BY <3>1 DEF rt_object_init, rt_object_allocate, Name
      <4> QED
        BY <2>2, <4>1
    <3>2. CASE rt_thread_startup(u, c)
      BY <2>2, <3>2 DEF rt_thread_startup
    <3>3. CASE \E p \in Prio : ChangePriority(u, c, p)
      BY <2>2, <3>3 DEF ChangePriority, InsertReady
    <3>4. CASE rt_thread_detach(u, c) \/ rt_thread_delete(u, c) \/ ResumeTest(u, c)
      BY <3>4 DEF rt_thread_detach, rt_thread_delete, CloseTest, ResumeTest, kernelVars
    <3> QED
      BY <2>5, <3>1, <3>2, <3>3, <3>4 DEF rt_thread_control
  <2>6. ASSUME NEW c \in Blocks,
               \/ _thread_exit(c) \/ Release(c) \/ _thread_timeout(c)
               \/ \E listed, timer \in BOOLEAN : rt_thread_suspend(c, listed, timer)
        PROVE  stat'[b] = "close"
    <3>1. CASE _thread_exit(c)
      BY <2>2, <3>1 DEF _thread_exit
    <3>2. CASE Release(c) \/ _thread_timeout(c)
      BY <2>3, <3>2, NotServed DEF Release, _thread_timeout
    <3>3. CASE \E listed, timer \in BOOLEAN : rt_thread_suspend(c, listed, timer)
      <4>1. Runs(c) /\ stat' = [stat EXCEPT ![c] = "suspend"]
        BY <3>3 DEF rt_thread_suspend
      <4>2. c # b
        BY <4>1, NotServed
      <4> QED
        BY <2>2, <4>1, <4>2
    <3> QED
      BY <2>6, <3>1, <3>2, <3>3
  <2>7. CASE Idle
    BY <2>7 DEF Idle, DequeueRead, DequeueUnlink, ReapDetach, ReapCleanup, ReapFreeStack,
                ReapDelete, ReapFree, kernelVars
  <2>8. ASSUME NEW u \in Users,
               Block(u) \/ Wake(u) \/ Forget(u) \/ \E c : Find(u, c)
        PROVE  stat'[b] = "close"
    BY <2>8 DEF Block, Wake, Forget, Find, kernelVars
  <2>9. CASE UNCHANGED vars
    BY <2>9 DEF vars, kernelVars
  <2> QED
    BY <2>4, <2>5, <2>6, <2>7, <2>8, <2>9 DEF Next
<1> QED
  BY <1>1, ObjInvariance, PTL DEF Spec, ClosedStaysClosed
=============================================================================
