------------------------------- MODULE Mailbox -------------------------------
(***************************************************************************)
(* rt_mb_init, rt_mb_create, rt_mb_send_wait, rt_mb_urgent, rt_mb_recv,    *)
(* rt_mb_control, rt_mb_detach and rt_mb_delete of ipc.c.  A call that     *)
(* need not wait is one masked section, so a thread and a handler make     *)
(* the same step; a call that gives up at once, because the mailbox is     *)
(* full or empty and the timeout is 0, changes nothing and has no action.  *)
(* A mailbox of fewer than 65536 slots never meets RT_MB_ENTRY_MAX.        *)
(***************************************************************************)
EXTENDS IpcOps

CONSTANTS
  Size,     \* mb->size
  Values,   \* the messages
  NoCall    \* the fields of a thread that is in no service

VARIABLES
  mb,       \* [pool, in, out, entry]: the ring
  call,     \* call[t]: [msg, left], the value and the remaining timeout of its call
  ghost     \* the value handed to a receiver last

vars == <<ipcVars, mb, call, ghost>>

Slots == 0 .. Size - 1

Empty == [pool |-> [i \in Slots |-> None], in |-> 0, out |-> 0, entry |-> 0]

Init ==
  /\ IpcInit
  /\ mb = Empty
  /\ call = [t \in Threads |-> NoCall]
  /\ ghost = None

rt_mb_init == SetUp("static") /\ mb' = Empty /\ UNCHANGED <<call, ghost>>

\* Either allocation may fail, and then nothing is left behind.
rt_mb_create == SetUp("heap") /\ mb' = Empty /\ UNCHANGED <<call, ghost>>

-----------------------------------------------------------------------------
(* The ring.                                                               *)

IsFull == mb.entry = Size
IsEmpty == mb.entry = 0

Store(m, v) ==
  [m EXCEPT !.pool[m.in] = v, !.in = IF m.in + 1 >= Size THEN 0 ELSE m.in + 1, !.entry = @ + 1]

StoreFirst(m, v) ==
  LET out == IF m.out > 0 THEN m.out - 1 ELSE Size - 1
  IN  [m EXCEPT !.out = out, !.pool[out] = v, !.entry = @ + 1]

Drop(m) ==
  [m EXCEPT !.out = IF m.out + 1 >= Size THEN 0 ELSE m.out + 1, !.entry = @ - 1]

-----------------------------------------------------------------------------
(* Services.                                                               *)

\* The tail of a send: the message is stored and a receiver woken.
PutMessage(v) == mb' = Store(mb, v) /\ th' = WakeFirst(th, "receivers")

\* The tail of a receive: a message is handed over and a sender woken.
GetMessage ==
  /\ ghost' = mb.pool[mb.out]
  /\ mb' = Drop(mb)
  /\ th' = WakeFirst(th, "senders")

\* t waits on the list q, for as long as left says.
WaitOn(t, q, left) == th' = Suspend([th EXCEPT !.err[t] = "ok"], q, t, left)

\* What is left of the timeout of t when it has been woken.
Remaining(t) == IF call[t].left = "ticks" THEN {"ticks", "no"} ELSE {call[t].left}

Finish(t) == Goto(t, "run") /\ call' = [call EXCEPT ![t] = NoCall]

\* rt_mb_send_wait when there is room.
SendNow(v) ==
  /\ Live
  /\ ~IsFull
  /\ PutMessage(v)
  /\ UNCHANGED <<pc, life, call, ghost>>

\* ... when there is none and the caller waits.
SendWait(t, v, patience) ==
  /\ Calls(t)
  /\ IsFull
  /\ WaitOn(t, "senders", patience)
  /\ Goto(t, "send")
  /\ call' = [call EXCEPT ![t] = [msg |-> v, left |-> patience]]
  /\ UNCHANGED <<life, mb, ghost>>

\* After the wait: an error, or another look at the mailbox.
SendFailed(t) ==
  /\ Woken(t, "send")
  /\ th.err[t] # "ok"
  /\ Finish(t)
  /\ UNCHANGED <<th, life, mb, ghost>>

\* Mutant: a sender that was woken does not look again.
SendRetryBlind(t) ==
  /\ Woken(t, "send")
  /\ th.err[t] = "ok"
  /\ PutMessage(call[t].msg)
  /\ Finish(t)
  /\ UNCHANGED <<life, ghost>>

SendRetry(t) ==
  /\ Woken(t, "send")
  /\ th.err[t] = "ok"
  /\ \/ /\ ~IsFull
        /\ PutMessage(call[t].msg)
        /\ Finish(t)
        /\ UNCHANGED ghost
     \/ /\ IsFull
        /\ \E left \in Remaining(t) :
             \/ left = "no" /\ Finish(t) /\ UNCHANGED th
             \/ /\ left # "no"
                /\ WaitOn(t, "senders", left)
                /\ call' = [call EXCEPT ![t].left = left]
                /\ UNCHANGED pc
        /\ UNCHANGED <<mb, ghost>>
  /\ UNCHANGED life

rt_mb_urgent(v) ==
  /\ Live
  /\ ~IsFull
  /\ mb' = StoreFirst(mb, v)
  /\ th' = WakeFirst(th, "receivers")
  /\ UNCHANGED <<pc, life, call, ghost>>

\* rt_mb_recv when there is a message.
RecvNow ==
  /\ Live
  /\ ~IsEmpty
  /\ GetMessage
  /\ UNCHANGED <<pc, life, call>>

\* ... when there is none and the caller waits.
RecvWait(t, patience) ==
  /\ Calls(t)
  /\ IsEmpty
  /\ WaitOn(t, "receivers", patience)
  /\ Goto(t, "recv")
  /\ call' = [call EXCEPT ![t].left = patience]
  /\ UNCHANGED <<life, mb, ghost>>

RecvFailed(t) ==
  /\ Woken(t, "recv")
  /\ th.err[t] # "ok"
  /\ Finish(t)
  /\ UNCHANGED <<th, life, mb, ghost>>

RecvRetry(t) ==
  /\ Woken(t, "recv")
  /\ th.err[t] = "ok"
  /\ \/ ~IsEmpty /\ GetMessage /\ Finish(t)
     \/ /\ IsEmpty
        /\ \E left \in Remaining(t) :
             \/ left = "no" /\ Finish(t) /\ th' = [th EXCEPT !.err[t] = "timeout"]
             \/ /\ left # "no"
                /\ WaitOn(t, "receivers", left)
                /\ call' = [call EXCEPT ![t].left = left]
                /\ UNCHANGED pc
        /\ UNCHANGED <<mb, ghost>>
  /\ UNCHANGED life

\* rt_mb_control(RT_IPC_CMD_RESET): one masked section.
rt_mb_control ==
  /\ Live
  /\ th' = _ipc_list_resume_all(_ipc_list_resume_all(th, "receivers"), "senders")
  /\ mb' = [Empty EXCEPT !.pool = mb.pool]
  /\ UNCHANGED <<pc, life, call, ghost>>

rt_mb_detach == BeginClose("static") /\ UNCHANGED <<mb, call, ghost>>

rt_mb_delete == BeginClose("heap") /\ UNCHANGED <<mb, call, ghost>>

Next ==
  \/ rt_mb_init
  \/ rt_mb_create
  \/ rt_mb_control
  \/ rt_mb_detach
  \/ rt_mb_delete
  \/ (CloseStep \/ CloseEnd) /\ UNCHANGED <<mb, call, ghost>>
  \/ RecvNow
  \/ \E v \in Values : SendNow(v) \/ rt_mb_urgent(v)
  \/ \E t \in Threads :
       \/ \E v \in Values, p \in Waits : SendWait(t, v, p)
       \/ \E p \in Waits : RecvWait(t, p)
       \/ SendFailed(t) \/ SendRetry(t) \/ RecvFailed(t) \/ RecvRetry(t)
       \/ _thread_timeout(t) /\ UNCHANGED <<mb, call, ghost>>

Spec == Init /\ [][Next]_vars

-----------------------------------------------------------------------------
TypeOK ==
  /\ ThreadsOK
  /\ pc \in [Threads -> {"run", "send", "recv"}]
  /\ mb \in [pool : [Slots -> Values \cup {None}], in : Slots, out : Slots, entry : 0 .. Size]
  /\ call \in [Threads -> [msg : Values \cup {None}, left : Patience]]
  /\ ghost \in Values \cup {None}

\* The messages in the ring, the next one first.
Content == [i \in 1 .. mb.entry |-> mb.pool[(mb.out + i - 1) % Size]]

\* The threads that were woken at place and have not looked yet.
Awake(place) == {t \in Threads : Resumed(t, place) /\ th.err[t] = "ok"}

\* While receivers wait, every message in the mailbox has a receiver that was
\* woken for it and has not looked yet, and while senders wait, so has every free
\* slot a sender: no wakeup of rt_mb_send_wait, rt_mb_urgent or rt_mb_recv is lost.
NobodyStranded ==
  /\ th.wait["receivers"] # <<>> => mb.entry <= Cardinality(Awake("recv"))
  /\ th.wait["senders"] # <<>> => Size - mb.entry <= Cardinality(Awake("send"))
=============================================================================
