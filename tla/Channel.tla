------------------------------- MODULE Channel -------------------------------
(***************************************************************************)
(* What mailboxes and message queues promise: a bounded queue.  A message  *)
(* that is sent comes out once, behind those sent before it, and an urgent *)
(* one comes out next; a message leaves only to a receiver or to a reset.  *)
(***************************************************************************)
EXTENDS Naturals, Sequences

CONSTANTS Threads, Values, None, Capacity

VARIABLES
  chan,     \* the messages in the channel
  phase,    \* phase[t]: "out", "sending", "urging" (a message of its own), or
            \* "copying" (one that it has received)
  item,     \* item[t]: that message
  last      \* the message handed over last

vars == <<chan, phase, item, last>>

Init ==
  /\ chan = <<>>
  /\ phase = [t \in Threads |-> "out"]
  /\ item = [t \in Threads |-> None]
  /\ last = None

HasRoom == Len(chan) < Capacity

Enter(t, place, v) ==
  /\ phase' = [phase EXCEPT ![t] = place]
  /\ item' = [item EXCEPT ![t] = v]

Leave(t) == Enter(t, "out", None)

\* A message goes in, at the end or in front.
Put(v) == HasRoom /\ chan' = Append(chan, v) /\ UNCHANGED last
PutFirst(v) == HasRoom /\ chan' = <<v>> \o chan /\ UNCHANGED last

\* A call that takes one step.
Send(v) == (Put(v) \/ PutFirst(v)) /\ UNCHANGED <<phase, item>>
Receive ==
  /\ chan # <<>>
  /\ chan' = Tail(chan)
  /\ last' = Head(chan)
  /\ UNCHANGED <<phase, item>>

\* A call of several steps: the message goes in at one of them, or never.
Begin(t, v) ==
  /\ phase[t] = "out"
  /\ Enter(t, "sending", v) \/ Enter(t, "urging", v)
  /\ UNCHANGED <<chan, last>>
Deliver(t) ==
  /\ \/ phase[t] = "sending" /\ Put(item[t])
     \/ phase[t] = "urging" /\ PutFirst(item[t])
  /\ Leave(t)
Fail(t) == phase[t] = "sending" /\ Leave(t) /\ UNCHANGED <<chan, last>>

\* A receive that takes the message out and hands it over later.
Fetch(t) ==
  /\ phase[t] = "out"
  /\ chan # <<>>
  /\ chan' = Tail(chan)
  /\ Enter(t, "copying", Head(chan))
  /\ UNCHANGED last
HandOver(t) ==
  /\ phase[t] = "copying"
  /\ last' = item[t]
  /\ Leave(t)
  /\ UNCHANGED chan

Reset == chan' = <<>> /\ UNCHANGED <<phase, item, last>>

Next ==
  \/ Receive
  \/ Reset
  \/ \E v \in Values : Send(v)
  \/ \E t \in Threads :
       \/ \E v \in Values : Begin(t, v)
       \/ Deliver(t) \/ Fail(t) \/ Fetch(t) \/ HandOver(t)

Spec == Init /\ [][Next]_vars
=============================================================================
