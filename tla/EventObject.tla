----------------------------- MODULE EventObject -----------------------------
(***************************************************************************)
(* rt_event_init, rt_event_create, rt_event_send, rt_event_recv,           *)
(* rt_event_control, rt_event_detach and rt_event_delete of ipc.c.         *)
(* rt_event_send is one masked section, so a thread and an interrupt       *)
(* handler make the same step.  Options name RT_EVENT_FLAG_AND or _OR, as  *)
(* the assertion of rt_event_recv demands.                                 *)
(***************************************************************************)
EXTENDS IpcOps

CONSTANTS
  Bits,     \* the flags
  Asks,     \* what receivers ask for: [bits, all (RT_EVENT_FLAG_AND or _OR), clear]
  NoAsk     \* the fields of a thread that is in no rt_event_recv

VARIABLES
  event,    \* event->set
  call,     \* call[t]: thread->event_set (bits) and thread->event_info (all, clear)
  ghost     \* ghost[t]: what the rt_event_recv that t is in was asked for

vars == <<ipcVars, event, call, ghost>>

Init ==
  /\ IpcInit
  /\ event = {}
  /\ call = [t \in Threads |-> NoAsk]
  /\ ghost = [t \in Threads |-> NoAsk]

\* The flags S are an answer to r.
Matches(r, S) == IF r.all THEN r.bits \subseteq S ELSE r.bits \cap S # {}

rt_event_init == SetUp("static") /\ event' = {} /\ UNCHANGED <<call, ghost>>

\* The allocation may fail, and then nothing has changed.
rt_event_create == SetUp("heap") /\ event' = {} /\ UNCHANGED <<call, ghost>>

-----------------------------------------------------------------------------
\* Mutant: flags that a waiter clears stay set for those behind it.
VisitSharing(v, t) ==
  IF Matches(v.call[t], v.set)
  THEN [v EXCEPT !.call[t].bits = @ \cap v.set,
                 !.th = rt_thread_resume(@, t)]
  ELSE v

\* One waiter in the loop of rt_event_send: v is the event's set, the threads and
\* the fields of their calls so far.
Visit(v, t) ==
  IF Matches(v.call[t], v.set)
  THEN LET bits == v.call[t].bits \cap v.set
       IN  [v EXCEPT !.call[t].bits = bits,
                     !.set = IF v.call[t].clear THEN @ \ bits ELSE @,
                     !.th  = rt_thread_resume(@, t)]
  ELSE v

\* The loop over the waiters of the list q.
VisitAll(v, q) ==
  LET after[i \in 0 .. Len(q)] == IF i = 0 THEN v ELSE Visit(after[i - 1], q[i])
  IN  after[Len(q)]

rt_event_send(set) ==
  /\ Live
  /\ set # {}
  /\ LET v == VisitAll([set |-> event \cup set, call |-> call, th |-> th],
                       th.wait["receivers"])
     IN  event' = v.set /\ call' = v.call /\ th' = v.th
  /\ UNCHANGED <<pc, life, ghost>>

\* rt_event_recv when the flags are there.
RecvNow(t, r) ==
  /\ Calls(t)
  /\ Matches(r, event)
  /\ event' = IF r.clear THEN event \ r.bits ELSE event
  /\ th' = [th EXCEPT !.err[t] = "ok"]
  /\ UNCHANGED <<pc, life, call, ghost>>

\* ... when they are not and the timeout is 0.
RecvNo(t, r) ==
  /\ Calls(t)
  /\ ~Matches(r, event)
  /\ th' = [th EXCEPT !.err[t] = "timeout"]
  /\ UNCHANGED <<pc, life, event, call, ghost>>

\* ... when the caller waits.
RecvWait(t, r, patience) ==
  /\ Calls(t)
  /\ ~Matches(r, event)
  /\ call' = [call EXCEPT ![t] = r]
  /\ ghost' = [ghost EXCEPT ![t] = r]
  /\ th' = Suspend([th EXCEPT !.err[t] = "ok"], "receivers", t, patience)
  /\ Goto(t, "wait")
  /\ UNCHANGED <<life, event>>

\* The rest of a rt_event_recv that waited: thread->error, and event_set if it is
\* RT_EOK.
RecvReturn(t) ==
  /\ Woken(t, "wait")
  /\ Goto(t, "run")
  /\ call' = [call EXCEPT ![t] = NoAsk]
  /\ ghost' = [ghost EXCEPT ![t] = NoAsk]
  /\ UNCHANGED <<th, life, event>>

\* rt_event_control(RT_IPC_CMD_RESET): one masked section.
rt_event_control ==
  /\ Live
  /\ th' = _ipc_list_resume_all(th, "receivers")
  /\ event' = {}
  /\ UNCHANGED <<pc, life, call, ghost>>

rt_event_detach == BeginClose("static") /\ UNCHANGED <<event, call, ghost>>

rt_event_delete == BeginClose("heap") /\ UNCHANGED <<event, call, ghost>>

Next ==
  \/ rt_event_init
  \/ rt_event_create
  \/ rt_event_control
  \/ rt_event_detach
  \/ rt_event_delete
  \/ (CloseStep \/ CloseEnd) /\ UNCHANGED <<event, call, ghost>>
  \/ \E set \in SUBSET Bits : rt_event_send(set)
  \/ \E t \in Threads :
       \/ \E r \in Asks : RecvNow(t, r) \/ RecvNo(t, r) \/ \E p \in Waits : RecvWait(t, r, p)
       \/ RecvReturn(t)
       \/ _thread_timeout(t) /\ UNCHANGED <<event, call, ghost>>

Spec == Init /\ [][Next]_vars

-----------------------------------------------------------------------------
TypeOK ==
  /\ ThreadsOK
  /\ pc \in [Threads -> {"run", "wait"}]
  /\ event \in SUBSET Bits
  /\ call \in [Threads -> [bits : SUBSET Bits, all : BOOLEAN, clear : BOOLEAN]]
  /\ th.wait["senders"] = <<>>

\* How far the receive of t has come, for the abstract specification.
Phase(t) ==
  IF pc[t] # "wait" THEN "out"
  ELSE IF th.stat[t] = "suspend" THEN "waiting"
  ELSE IF th.err[t] = "ok" THEN "granted" ELSE "failed"
=============================================================================
