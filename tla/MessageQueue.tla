---------------------------- MODULE MessageQueue ----------------------------
(***************************************************************************)
(* rt_mq_init, rt_mq_create, rt_mq_send_wait, rt_mq_urgent, rt_mq_recv,    *)
(* rt_mq_control, rt_mq_detach and rt_mq_delete of ipc.c.  A message is    *)
(* copied with interrupts enabled: a sender takes a block from the free    *)
(* list in one masked section and links it into the queue in another, a    *)
(* receiver unlinks it in one and frees it in another, and anything may    *)
(* happen in between.  A handler runs from the first section to the end    *)
(* of the second, since nothing interrupts it.                             *)
(* A call that gives up at once changes nothing and has no action; a       *)
(* message is never larger than a block; a queue of fewer than 65536       *)
(* blocks never meets RT_MQ_ENTRY_MAX.                                     *)
(***************************************************************************)
EXTENDS IpcOps

CONSTANTS
  Size,     \* mq->max_msgs
  Values,   \* the messages
  NoCall    \* the fields of a thread that is in no service

VARIABLES
  mq,       \* [next, data, head, tail, free, entry]: the pool of blocks and its lists
  call,     \* call[t]: [msg, blk, left], the message, the block in its hands and
            \* the remaining timeout of its call
  ghost     \* the message handed to a receiver last

vars == <<ipcVars, mq, call, ghost>>

\* A block is its number in the pool, from 1; a null pointer is 0.
Blocks == 1 .. Size

\* The pool after rt_mq_init: each block was put in front of the free list.
Fresh ==
  [next |-> [b \in Blocks |-> b - 1], data |-> [b \in Blocks |-> None],
   head |-> 0, tail |-> 0, free |-> Size, entry |-> 0]

Init ==
  /\ IpcInit
  /\ mq = Fresh
  /\ call = [t \in Threads |-> NoCall]
  /\ ghost = None

rt_mq_init == SetUp("static") /\ mq' = Fresh /\ UNCHANGED <<call, ghost>>

\* Either allocation may fail, and then nothing is left behind.
rt_mq_create == SetUp("heap") /\ mq' = Fresh /\ UNCHANGED <<call, ghost>>

-----------------------------------------------------------------------------
(* The pool: each operator is the part of a routine that works on it.      *)

IsFull(m) == m.free = 0

TakeBlock(m) == [m EXCEPT !.free = m.next[m.free]]

\* The payload is copied into a block that only the sender knows.
CopyIn(m, b, v) == [m EXCEPT !.data[b] = v]

Enqueue(m, b) ==
  [m EXCEPT !.next  = [i \in Blocks |-> IF i = b THEN 0 ELSE IF i = m.tail THEN b ELSE @[i]],
            !.tail  = b,
            !.head  = IF @ = 0 THEN b ELSE @,
            !.entry = @ + 1]

EnqueueFirst(m, b) ==
  [m EXCEPT !.next[b] = m.head,
            !.head    = b,
            !.tail    = IF @ = 0 THEN b ELSE @,
            !.entry   = @ + 1]

Dequeue(m) ==
  [m EXCEPT !.head  = m.next[m.head],
            !.tail  = IF @ = m.head THEN 0 ELSE @,
            !.entry = @ - 1]

FreeBlock(m, b) == [m EXCEPT !.next[b] = m.free, !.free = b]

\* The blocks from b on; a list that does not end shows as one that is too long.
ListFrom(m, b) ==
  LET at[i \in 0 .. Size] == IF i = 0 THEN b
                             ELSE IF at[i - 1] = 0 THEN 0 ELSE m.next[at[i - 1]]
      length == CHOOSE n \in 0 .. Size + 1 : \A i \in 0 .. Size : at[i] # 0 <=> i < n
  IN  [i \in 1 .. length |-> at[i - 1]]

Queue(m) == ListFrom(m, m.head)

\* The loop of rt_mq_control: every queued block goes to the free list.
FreeAll(m) ==
  LET q == Queue(m)
      after[i \in 0 .. Len(q)] == IF i = 0 THEN m ELSE FreeBlock(after[i - 1], q[i])
  IN  [after[Len(q)] EXCEPT !.head = 0, !.tail = 0, !.entry = 0]

-----------------------------------------------------------------------------
(* Services.                                                               *)

WaitOn(t, q, left) == th' = Suspend([th EXCEPT !.err[t] = "ok"], q, t, left)

Remaining(t) == IF call[t].left = "ticks" THEN {"ticks", "no"} ELSE {call[t].left}

Finish(t) == Goto(t, "run") /\ call' = [call EXCEPT ![t] = NoCall]

\* t takes a free block for the message v and goes on to copy it.
StartCopy(t, v, place) ==
  /\ mq' = TakeBlock(mq)
  /\ call' = [call EXCEPT ![t] = [NoCall EXCEPT !.msg = v, !.blk = mq.free]]
  /\ Goto(t, place)

\* rt_mq_send_wait and rt_mq_urgent, to the end of the first masked section.
SendTake(t, v) ==
  /\ Calls(t)
  /\ ~IsFull(mq)
  /\ StartCopy(t, v, "copyin")
  /\ UNCHANGED <<th, life, ghost>>

UrgentTake(t, v) ==
  /\ Calls(t)
  /\ ~IsFull(mq)
  /\ StartCopy(t, v, "urgent")
  /\ UNCHANGED <<th, life, ghost>>

\* rt_mq_send_wait when no block is free.
SendWait(t, v, patience) ==
  /\ Calls(t)
  /\ IsFull(mq)
  /\ WaitOn(t, "senders", patience)
  /\ Goto(t, "send")
  /\ call' = [call EXCEPT ![t] = [NoCall EXCEPT !.msg = v, !.left = patience]]
  /\ UNCHANGED <<life, mq, ghost>>

SendFailed(t) ==
  /\ Woken(t, "send")
  /\ th.err[t] # "ok"
  /\ Finish(t)
  /\ UNCHANGED <<th, life, mq, ghost>>

SendRetry(t) ==
  /\ Woken(t, "send")
  /\ th.err[t] = "ok"
  /\ \/ ~IsFull(mq) /\ StartCopy(t, call[t].msg, "copyin") /\ UNCHANGED th
     \/ /\ IsFull(mq)
        /\ \E left \in Remaining(t) :
             \/ left = "no" /\ Finish(t) /\ UNCHANGED th
             \/ /\ left # "no"
                /\ WaitOn(t, "senders", left)
                /\ call' = [call EXCEPT ![t].left = left]
                /\ UNCHANGED pc
        /\ UNCHANGED mq
  /\ UNCHANGED <<life, ghost>>

\* Mutant: the receivers are not told.
SendLinkSilently(t) ==
  /\ Woken(t, "copyin")
  /\ mq' = Enqueue(CopyIn(mq, call[t].blk, call[t].msg), call[t].blk)
  /\ Finish(t)
  /\ UNCHANGED <<th, life, ghost>>

\* The copy and the second masked section: the block goes behind the others.
SendLink(t) ==
  /\ Woken(t, "copyin")
  /\ mq' = Enqueue(CopyIn(mq, call[t].blk, call[t].msg), call[t].blk)
  /\ th' = WakeFirst(th, "receivers")
  /\ Finish(t)
  /\ UNCHANGED <<life, ghost>>

UrgentLink(t) ==
  /\ Woken(t, "urgent")
  /\ mq' = EnqueueFirst(CopyIn(mq, call[t].blk, call[t].msg), call[t].blk)
  /\ th' = WakeFirst(th, "receivers")
  /\ Finish(t)
  /\ UNCHANGED <<life, ghost>>

\* rt_mq_send by a handler.
rt_mq_send(v) ==
  /\ Live
  /\ ~IsFull(mq)
  /\ mq' = Enqueue(CopyIn(TakeBlock(mq), mq.free, v), mq.free)
  /\ th' = WakeFirst(th, "receivers")
  /\ UNCHANGED <<pc, life, call, ghost>>

\* t takes the first message out of the queue and goes on to copy it.
StartReceive(t) ==
  /\ mq' = Dequeue(mq)
  /\ call' = [call EXCEPT ![t] = [NoCall EXCEPT !.blk = mq.head]]
  /\ Goto(t, "copyout")

\* rt_mq_recv when there is a message, to the end of the first masked section.
RecvTake(t) ==
  /\ Calls(t)
  /\ mq.entry # 0
  /\ StartReceive(t)
  /\ UNCHANGED <<th, life, ghost>>

RecvWait(t, patience) ==
  /\ Calls(t)
  /\ mq.entry = 0
  /\ WaitOn(t, "receivers", patience)
  /\ Goto(t, "recv")
  /\ call' = [call EXCEPT ![t].left = patience]
  /\ UNCHANGED <<life, mq, ghost>>

RecvFailed(t) ==
  /\ Woken(t, "recv")
  /\ th.err[t] # "ok"
  /\ Finish(t)
  /\ UNCHANGED <<th, life, mq, ghost>>

RecvRetry(t) ==
  /\ Woken(t, "recv")
  /\ th.err[t] = "ok"
  /\ \/ mq.entry # 0 /\ StartReceive(t) /\ UNCHANGED th
     \/ /\ mq.entry = 0
        /\ \E left \in Remaining(t) :
             \/ left = "no" /\ Finish(t) /\ th' = [th EXCEPT !.err[t] = "timeout"]
             \/ /\ left # "no"
                /\ WaitOn(t, "receivers", left)
                /\ call' = [call EXCEPT ![t].left = left]
                /\ UNCHANGED pc
        /\ UNCHANGED mq
  /\ UNCHANGED <<life, ghost>>

\* The copy and the second masked section: the block is free again.
RecvFree(t) ==
  /\ Woken(t, "copyout")
  /\ ghost' = mq.data[call[t].blk]
  /\ mq' = FreeBlock(mq, call[t].blk)
  /\ th' = WakeFirst(th, "senders")
  /\ Finish(t)
  /\ UNCHANGED life

\* Mutant: the queue is forgotten and its blocks with it.
ResetForgets ==
  /\ Live
  /\ th' = _ipc_list_resume_all(_ipc_list_resume_all(th, "receivers"), "senders")
  /\ mq' = [mq EXCEPT !.head = 0, !.tail = 0, !.entry = 0]
  /\ UNCHANGED <<pc, life, call, ghost>>

\* rt_mq_control(RT_IPC_CMD_RESET): one masked section.
rt_mq_control ==
  /\ Live
  /\ th' = _ipc_list_resume_all(_ipc_list_resume_all(th, "receivers"), "senders")
  /\ mq' = FreeAll(mq)
  /\ UNCHANGED <<pc, life, call, ghost>>

rt_mq_detach == BeginClose("static") /\ UNCHANGED <<mq, call, ghost>>

rt_mq_delete == BeginClose("heap") /\ UNCHANGED <<mq, call, ghost>>

Next ==
  \/ rt_mq_init
  \/ rt_mq_create
  \/ rt_mq_control
  \/ rt_mq_detach
  \/ rt_mq_delete
  \/ (CloseStep \/ CloseEnd) /\ UNCHANGED <<mq, call, ghost>>
  \/ \E v \in Values : rt_mq_send(v)
  \/ \E t \in Threads :
       \/ \E v \in Values : SendTake(t, v) \/ UrgentTake(t, v)
       \/ \E v \in Values, p \in Waits : SendWait(t, v, p)
       \/ \E p \in Waits : RecvWait(t, p)
       \/ SendFailed(t) \/ SendRetry(t) \/ SendLink(t) \/ UrgentLink(t)
       \/ RecvTake(t) \/ RecvFailed(t) \/ RecvRetry(t) \/ RecvFree(t)
       \/ _thread_timeout(t) /\ UNCHANGED <<mq, call, ghost>>

Spec == Init /\ [][Next]_vars

-----------------------------------------------------------------------------
Places == {"run", "send", "copyin", "urgent", "recv", "copyout"}

TypeOK ==
  /\ ThreadsOK
  /\ pc \in [Threads -> Places]
  /\ mq \in [next : [Blocks -> 0 .. Size], data : [Blocks -> Values \cup {None}],
             head : 0 .. Size, tail : 0 .. Size, free : 0 .. Size, entry : 0 .. Size]
  /\ call \in [Threads -> [msg : Values \cup {None}, blk : 0 .. Size, left : Patience]]
  /\ ghost \in Values \cup {None}

\* The messages in the queue, the next one first.
Content == [i \in 1 .. Len(Queue(mq)) |-> mq.data[Queue(mq)[i]]]

Holders == {t \in Threads : call[t].blk # 0}

\* Every block of the pool is in one place: on the free list, in the queue, or in
\* the hands of one thread that copies.  No interleaving of the masked sections of
\* rt_mq_send_wait, rt_mq_urgent, rt_mq_recv and a reset loses one or frees it twice,
\* and entry and the tail pointer agree with the list.
BlocksConserved ==
  LET queue == Queue(mq)
      all   == queue \o ListFrom(mq, mq.free)
  IN  /\ IsInjective(all)
      /\ Len(all) + Cardinality(Holders) = Size
      /\ {call[t].blk : t \in Holders} \cup Range(all) = Blocks
      /\ mq.entry = Len(queue)
      /\ mq.tail = IF queue = <<>> THEN 0 ELSE Last(queue)

Awake(place) == {t \in Threads : Resumed(t, place) /\ th.err[t] = "ok"}

\* While receivers wait, every queued message has a receiver that was woken for it
\* and has not looked yet, and while senders wait, so has every free block a sender.
NobodyStranded ==
  /\ th.wait["receivers"] # <<>> => mq.entry <= Cardinality(Awake("recv"))
  /\ th.wait["senders"] # <<>> => Len(ListFrom(mq, mq.free)) <= Cardinality(Awake("send"))
=============================================================================
