------------------------------- MODULE MCIpc -------------------------------
(***************************************************************************)
(* The objects of ipc.c, one at a time: the first state chooses the kind   *)
(* of object, and the behaviour is that of its module.  The properties of  *)
(* a kind say nothing of the others.  A mailbox or a message queue may be  *)
(* used by fewer threads than the others, beside the calls of handlers.    *)
(***************************************************************************)
EXTENDS IpcOps

CONSTANTS
  hi, mid, lo,        \* the threads TLC is given, hi the most urgent
  Peers,              \* the threads that use a mailbox or a message queue
  QueueWaits,         \* the timeouts that callers of a message queue pass
  Values,             \* the messages
  Capacity,           \* the size of a mailbox and of a message queue
  Bits,               \* the flags of an event
  Asks,               \* what its receivers may ask for
  HoldMax, SemMax     \* the limits of a mutex and of a semaphore

ASSUME ObjectsAssumption ==
  /\ Capacity \in Nat \ {0} /\ HoldMax \in Nat \ {0} /\ SemMax \in Nat \ {0}
  /\ None \notin Values
  /\ IsFiniteSet(Threads) /\ Peers \subseteq Threads
  /\ QueueWaits \subseteq Waits
  /\ Asks \subseteq [bits : (SUBSET Bits) \ {{}}, all : BOOLEAN, clear : BOOLEAN]

MCThreads == {hi, mid, lo}
MCPriority == [t \in MCThreads |-> CASE t = hi -> 1 [] t = mid -> 2 [] t = lo -> 3]
Pair == {hi, mid}
PeerPriority == [t \in Peers |-> Priority[t]]

ThreeAsks ==
  {[bits |-> Bits, all |-> TRUE, clear |-> TRUE], [bits |-> Bits, all |-> FALSE, clear |-> TRUE],
   [bits |-> {CHOOSE x \in Bits : TRUE}, all |-> TRUE, clear |-> FALSE]}
NoAsk == [bits |-> {}, all |-> FALSE, clear |-> FALSE]
NoMessage == [msg |-> None, left |-> "no"]
NoBlock == [msg |-> None, blk |-> 0, left |-> "no"]

VARIABLES
  kind,     \* the kind of object
  obj,      \* the object
  call,     \* the arguments of the calls in progress
  ghost     \* the history variables of the kind

vars == <<ipcVars, kind, obj, call, ghost>>

Event == INSTANCE EventObject WITH event <- obj
Box == INSTANCE Mailbox
         WITH mb <- obj, Threads <- Peers, Priority <- PeerPriority, Size <- Capacity,
              NoCall <- NoMessage
Queue == INSTANCE MessageQueue
           WITH mq <- obj, Threads <- Peers, Priority <- PeerPriority, Size <- Capacity,
                NoCall <- NoBlock, Waits <- QueueWaits
Lock == INSTANCE Mutex WITH mutex <- obj, PrioFlag <- TRUE
Sem == INSTANCE Semaphore WITH sem <- obj

Init ==
  \/ kind = "event" /\ Event!Init
  \/ kind = "mailbox" /\ Box!Init
  \/ kind = "mq" /\ Queue!Init
  \/ kind = "mutex" /\ Lock!Init /\ call = <<>>
  \/ kind = "semaphore" /\ Sem!Init /\ call = <<>> /\ ghost = <<>>

Next ==
  /\ UNCHANGED kind
  /\ \/ kind = "event" /\ Event!Next
     \/ kind = "mailbox" /\ Box!Next
     \/ kind = "mq" /\ Queue!Next
     \/ kind = "mutex" /\ Lock!Next /\ UNCHANGED call
     \/ kind = "semaphore" /\ Sem!Next /\ UNCHANGED <<call, ghost>>

Spec == Init /\ [][Next]_vars

-----------------------------------------------------------------------------
\* Messages are only moved and compared.
Symmetry == Permutations(Values)

\* No step of a mailbox or a message queue depends on the message handed over last.
Relevant ==
  <<ipcVars, kind, obj, call, IF kind \in {"mailbox", "mq"} THEN None ELSE ghost>>

\* Each object and the calls in progress keep their types; a thread is SUSPENDed
\* exactly while it is on one wait list, and no timer is armed for a thread that does
\* not wait: a timeout cannot strike a thread that has been answered.  Here and below
\* a destruction goes on until, in the window after its test, it takes an object for a
\* thread (CloseTakesWaiters).
IpcWaitsSound ==
  CASE kind = "event" -> Event!TypeOK /\ WaitsSound
    [] kind = "mailbox" -> Box!TypeOK /\ Box!WaitsSound
    [] kind = "mq" -> Queue!TypeOK /\ Box!WaitsSound
    [] kind = "mutex" -> Lock!TypeOK /\ WaitsSound
    [] kind = "semaphore" -> Sem!TypeOK /\ WaitsSound

\* No thread waits behind one of a lower priority, the owner's new priority of a
\* mutex and the second waits of mailboxes and message queues included.
IpcWaitersByPriority == WaitersByPriority

\* While receivers wait, every message has a receiver that was woken for it, and
\* while senders wait, every free place a sender: no wakeup of rt_mb_send_wait,
\* rt_mb_urgent, rt_mb_recv, rt_mq_send_wait, rt_mq_urgent or rt_mq_recv is lost.
IpcNobodyStranded ==
  /\ kind = "mailbox" => Box!NobodyStranded
  /\ kind = "mq" => Queue!NobodyStranded

\* Every block of a message queue is free, queued, or in the hands of one thread.
QueueBlocksConserved == kind = "mq" => Queue!BlocksConserved

\* One thread at a time holds a mutex, as often as rt_mutex_take told it.
MutexExclusive == kind = "mutex" => Lock!Exclusive

\* The owner of a mutex is at least as urgent as every thread that waits for it.
MutexNoInversion == kind = "mutex" => Lock!NoInversion

\* A thread that does not own the mutex has its own priority back.
MutexPriorityRestored == kind = "mutex" => Lock!PriorityRestored

-----------------------------------------------------------------------------
\* The parts of a state that the abstract specifications speak of; for another kind
\* they stand still.
ChannelPhase(t) ==
  CASE kind = "mailbox" /\ pc[t] = "send" -> "sending"
    [] kind = "mq" /\ pc[t] \in {"send", "copyin"} -> "sending"
    [] kind = "mq" /\ pc[t] = "urgent" -> "urging"
    [] kind = "mq" /\ pc[t] = "copyout" -> "copying"
    [] OTHER -> "out"

ChannelItem(t) ==
  IF kind \notin {"mailbox", "mq"} THEN None
  ELSE IF ChannelPhase(t) = "copying" THEN obj.data[call[t].blk] ELSE call[t].msg

Channel ==
  INSTANCE Channel
    WITH Threads <- Peers,
         chan <- CASE kind = "mailbox" -> Box!Content [] kind = "mq" -> Queue!Content [] OTHER -> <<>>,
         phase <- [t \in Peers |-> ChannelPhase(t)],
         item <- [t \in Peers |-> ChannelItem(t)],
         last <- IF kind \in {"mailbox", "mq"} THEN ghost ELSE None

\* A mailbox and a message queue are bounded queues: whatever the interleaving of
\* senders, receivers, urgent messages, timeouts and resets, a message comes out
\* once, in order, and is the one that was sent.
ChannelImplemented == Channel!Spec

EventPhase(t) == IF kind = "event" THEN Event!Phase(t) ELSE "out"

Flags ==
  INSTANCE EventFlags
    WITH flags <- IF kind = "event" THEN obj ELSE {},
         phase <- [t \in Threads |-> EventPhase(t)],
         ask <- IF kind = "event" THEN ghost ELSE [t \in Threads |-> NoAsk],
         given <- [t \in Threads |-> IF EventPhase(t) = "granted" THEN call[t].bits ELSE {}]

\* rt_event_send answers receivers with flags they asked for, gives a flag that is
\* cleared to one of them, and leaves nobody waiting for flags that are set; an
\* answer stays as it is until its thread returns.
EventImplemented == Flags!Spec

SemPhase(t) == IF kind = "semaphore" THEN Sem!Phase(t) ELSE "out"

Tokens ==
  INSTANCE ResettableSemaphore
    WITH Sems <- {"semaphore"},
         tokens <- [s \in {"semaphore"} |-> IF kind = "semaphore" THEN obj ELSE 0],
         phase <- [t \in Threads |-> SemPhase(t)],
         on <- [t \in Threads |-> IF SemPhase(t) = "out" THEN None ELSE "semaphore"]

\* A semaphore that is reset or destroyed while threads wait for it keeps the
\* promise of a counting semaphore to those who were granted a token: a token goes to
\* one thread, and a wait ends with it or with an error.
SemaphoreImplemented == Tokens!ResettableSpec
=============================================================================
