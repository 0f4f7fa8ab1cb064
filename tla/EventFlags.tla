----------------------------- MODULE EventFlags -----------------------------
(***************************************************************************)
(* What rt_event_send and rt_event_recv promise: a set of flags, and       *)
(* receivers that each ask for all or for any of some flags, and may ask   *)
(* that the flags they are given be cleared.                               *)
(***************************************************************************)
CONSTANTS Threads, Bits, Asks, NoAsk

VARIABLES
  flags,    \* the flags that are set
  phase,    \* phase[t]: how far the rt_event_recv of thread t has come
  ask,      \* ask[t]: what it asks for
  given     \* given[t]: the flags it is given

vars == <<flags, phase, ask, given>>

\* The flags S are an answer to r.
Answers(S, r) == IF r.all THEN r.bits \subseteq S ELSE r.bits \cap S # {}

Waiting == {t \in Threads : phase[t] = "waiting"}

Init ==
  /\ flags = {}
  /\ phase = [t \in Threads |-> "out"]
  /\ ask = [t \in Threads |-> NoAsk]
  /\ given = [t \in Threads |-> {}]

\* The flags are there: the receiver returns at once.
Take(r) ==
  /\ Answers(flags, r)
  /\ flags' = IF r.clear THEN flags \ r.bits ELSE flags
  /\ UNCHANGED <<phase, ask, given>>

\* They are not: it waits.
Wait(t, r) ==
  /\ phase[t] = "out"
  /\ ~Answers(flags, r)
  /\ phase' = [phase EXCEPT ![t] = "waiting"]
  /\ ask' = [ask EXCEPT ![t] = r]
  /\ UNCHANGED <<flags, given>>

\* The flags S are set.  Some receivers are answered; a flag that one of them
\* clears is given to no other that clears it, nor left set; and nobody
\* is left waiting for what is there.
Post(S) ==
  \E G \in SUBSET Waiting :
    /\ phase' = [t \in Threads |-> IF t \in G THEN "granted" ELSE phase[t]]
    /\ \A t \in Threads \ G : given'[t] = given[t]
    /\ \A g \in G : Answers(given'[g], ask[g]) /\ given'[g] \subseteq ask[g].bits \cap (flags \cup S)
    /\ \A g, h \in G : g # h /\ ask[g].clear /\ ask[h].clear => given'[g] \cap given'[h] = {}
    /\ flags' = (flags \cup S) \ UNION {given'[g] : g \in {x \in G : ask[x].clear}}
    /\ \A w \in Waiting \ G : ~Answers(flags', ask[w])
    /\ UNCHANGED ask

\* The wait ends in an error: its timeout has passed, or the object is destroyed.
Fail(t) ==
  /\ phase[t] = "waiting"
  /\ phase' = [phase EXCEPT ![t] = "failed"]
  /\ UNCHANGED <<flags, ask, given>>

Reset ==
  /\ flags' = {}
  /\ phase' = [t \in Threads |-> IF phase[t] = "waiting" THEN "failed" ELSE phase[t]]
  /\ UNCHANGED <<ask, given>>

Return(t) ==
  /\ phase[t] \in {"granted", "failed"}
  /\ phase' = [phase EXCEPT ![t] = "out"]
  /\ ask' = [ask EXCEPT ![t] = NoAsk]
  /\ given' = [given EXCEPT ![t] = {}]
  /\ UNCHANGED flags

Next ==
  \/ Reset
  \/ \E r \in Asks : Take(r) \/ (\E t \in Threads : Wait(t, r))
  \/ \E S \in SUBSET Bits : Post(S)
  \/ \E t \in Threads : Fail(t) \/ Return(t)

Spec == Init /\ [][Next]_vars
=============================================================================
