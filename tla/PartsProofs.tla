---------------------------- MODULE PartsProofs ----------------------------
(***************************************************************************)
(* Proofs about MCParts: the switch between threads (ContextSwitch), the   *)
(* periodic delay (PeriodicDelay), the timers (TimerList) and the copies   *)
(* of the kernel service (MemoryOps), for any threads, timers, delays,     *)
(* width of the tick and of a word, and the copies for any memory.         *)
(***************************************************************************)
EXTENDS MCParts, ListProofs, FiniteSetTheorems, TLAPS

-----------------------------------------------------------------------------
(* The switch between threads.                                             *)

Values == [of : SwitchThreads \union {None}, n : {"old", "new", "junk", "code", "jr"}]
Words == [at : Switch!Places, regs : [Switch!Regs -> Values]]

\* The thread whose registers the CPU, or irq_vec, holds: the interrupted one while
\* the handler runs, whatever it has asked for.
Holder == IF flag THEN from ELSE current

\* The registers a thread that is to go on now would find: what irq_vec stored counts.
Present ==
  IF pc = "isr" THEN [r \in Switch!Regs |-> IF r \in Switch!Saved THEN irq_regs.regs[r] ELSE live_regs[r]]
  ELSE live_regs

\* The registers of t that it relies on are in regs; t1 is not among them.
Kept(regs, t) == \A r \in Switch!Regs \ {"t1"} : r \in dead[t] \/ regs[r] = own[t][r]

SwitchTypes ==
  /\ live_regs \in [Switch!Regs -> Values]
  /\ pc \in Switch!Places \union {"isr", "boot"}
  /\ frame \in [SwitchThreads -> Words]
  /\ irq_regs \in Words
  /\ flag \in BOOLEAN
  /\ own \in [SwitchThreads -> [Switch!Regs -> Values]]
  /\ dead \in [SwitchThreads -> SUBSET Switch!Regs]

\* Every thread's registers are in one place: of the holder in the CPU, partly moved
\* by irq_vec, of any other in its frame.
SwitchInv ==
  /\ SwitchTypes
  /\ pc # "isr" => ~flag
  /\ pc \in Switch!Places => ~masked
  /\ pc # "boot" => current \in SwitchThreads /\ Holder \in SwitchThreads /\ Kept(Present, Holder)
  /\ flag => to = current
  /\ \A t \in SwitchThreads : pc = "boot" \/ t # Holder => Kept(frame[t].regs, t)

LEMMA RegFacts ==
  /\ "t1" \in Switch!Regs /\ Switch!Saved \subseteq Switch!Regs
  /\ Switch!Scratch \subseteq Switch!Regs
  /\ "code" \in Switch!Places /\ "jr" \in Switch!Places
  /\ "isr" \notin Switch!Places /\ "boot" \notin Switch!Places
  BY DEF Switch!Regs, Switch!Saved, Switch!Scratch, Switch!Places

LEMMA ValueFacts ==
  /\ \A t \in SwitchThreads : \A n \in {"old", "new"} : Switch!Value(t, n) \in Values
  /\ \A n \in Switch!Places : Switch!Value(None, n) \in Values
  /\ Switch!Junk \in Values
  BY DEF Switch!Value, Switch!Junk, Values, Switch!Places

LEMMA StackTyped ==
  ASSUME NEW t \in SwitchThreads
  PROVE  Switch!StackInit(t) \in Words
<1> DEFINE rs == [r \in Switch!Regs |-> IF r \in {"ra", "a0"} THEN Switch!Value(t, "old")
                                        ELSE Switch!Junk]
<1>1. rs \in [Switch!Regs -> Values]
  BY ValueFacts
<1>2. Switch!StackInit(t) = [at |-> "code", regs |-> rs]
  BY DEF Switch!StackInit
<1> HIDE DEF rs
<1> QED
  BY <1>1, <1>2, RegFacts DEF Words

LEMMA InitSwitch == Switch!Init => SwitchInv
<1> SUFFICES ASSUME Switch!Init PROVE SwitchInv
  OBVIOUS
<1> DEFINE junk == [r \in Switch!Regs |-> Switch!Junk]
<1>1. junk \in [Switch!Regs -> Values]
  BY ValueFacts
<1> HIDE DEF junk
<1>2. /\ live_regs = junk /\ irq_regs = [at |-> "code", regs |-> junk]
      /\ pc = "boot" /\ flag = FALSE
      /\ frame = [t \in SwitchThreads |-> Switch!StackInit(t)]
      /\ own = [t \in SwitchThreads |-> Switch!StackInit(t).regs]
      /\ dead = [t \in SwitchThreads |-> {"t0", "t1", "s0", "s2"}]
  BY DEF Switch!Init, junk
<1>3. irq_regs \in Words /\ live_regs \in [Switch!Regs -> Values]
  BY <1>1, <1>2, RegFacts DEF Words
<1>4. frame \in [SwitchThreads -> Words]
  BY <1>2, StackTyped
<1>5. \A t \in SwitchThreads : Switch!StackInit(t).regs \in [Switch!Regs -> Values]
  BY StackTyped DEF Words
<1>6. own \in [SwitchThreads -> [Switch!Regs -> Values]]
  BY <1>2, <1>5
<1>7. {"t0", "t1", "s0", "s2"} \subseteq Switch!Regs
  BY DEF Switch!Regs
<1>8. dead \in [SwitchThreads -> SUBSET Switch!Regs]
  BY <1>2, <1>7
<1>9. SwitchTypes
  BY <1>2, <1>3, <1>4, <1>6, <1>8 DEF SwitchTypes
<1>10. \A t \in SwitchThreads : Kept(frame[t].regs, t)
  BY <1>2 DEF Kept
<1> QED
  BY <1>2, <1>9, <1>10, RegFacts DEF SwitchInv

-----------------------------------------------------------------------------
(* Loading a frame.                                                        *)

LEMMA PoppedFacts ==
  ASSUME NEW f \in [SwitchThreads -> Words], NEW t \in SwitchThreads
  PROVE  /\ Switch!Popped(f, t) \in [SwitchThreads -> Words]
         /\ \A u \in SwitchThreads \ {t} : Switch!Popped(f, t)[u] = f[u]
<1> DEFINE junk == [r \in Switch!Regs |-> Switch!Junk]
<1>1. [at |-> "code", regs |-> junk] \in Words
  BY ValueFacts, RegFacts DEF Words
<1>2. Switch!Popped(f, t) = [f EXCEPT ![t] = [at |-> "code", regs |-> junk]]
  BY DEF Switch!Popped
<1> HIDE DEF junk
<1> QED
  BY <1>1, <1>2

\* The exit to t: t is the holder, and every other thread's registers stay in f.
LEMMA ExitKeeps ==
  ASSUME SwitchTypes, NEW f \in [SwitchThreads -> Words], NEW t \in SwitchThreads,
         Switch!Exit(f, t), current' = t, UNCHANGED <<irq_regs, flag, own>>, ~flag,
         dead' \in [SwitchThreads -> SUBSET Switch!Regs],
         \A u \in SwitchThreads : Kept(f[u].regs, u)'
  PROVE  SwitchInv'
<1>1. /\ live_regs' = [f[t].regs EXCEPT !["t1"] = Switch!Value(None, f[t].at)]
      /\ frame' = Switch!Popped(f, t) /\ ~masked' /\ pc' = "jr" /\ current' = t
      /\ irq_regs' = irq_regs /\ flag' = flag /\ own' = own
  BY DEF Switch!Exit
<1>2. f[t].regs \in [Switch!Regs -> Values] /\ f[t].at \in Switch!Places
  BY DEF Words
<1>3. /\ live_regs' \in [Switch!Regs -> Values]
      /\ \A r \in Switch!Regs \ {"t1"} : live_regs'[r] = f[t].regs[r]
  BY <1>1, <1>2, ValueFacts, RegFacts
<1>4. /\ frame' \in [SwitchThreads -> Words]
      /\ \A u \in SwitchThreads \ {t} : frame'[u] = f[u]
  BY <1>1, PoppedFacts
<1>5. SwitchTypes'
  BY <1>1, <1>3, <1>4, RegFacts DEF SwitchTypes
<1>6. Holder' = t /\ Present' = live_regs'
  BY <1>1, RegFacts DEF Holder, Present
<1>7. Kept(live_regs, t)'
  BY <1>3 DEF Kept
<1>8. \A u \in SwitchThreads : u # t => Kept(frame[u].regs, u)'
  BY <1>4 DEF Kept
<1> QED
  BY <1>1, <1>5, <1>6, <1>7, <1>8, RegFacts DEF SwitchInv

LEMMA SwitchToKeeps ==
  ASSUME SwitchInv, NEW t \in SwitchThreads, Switch!rt_hw_context_switch_to(t)
  PROVE  SwitchInv'
<1>1. PICK f \in [SwitchThreads -> Words] : f = frame
  BY DEF SwitchInv, SwitchTypes
<1>2. /\ Switch!Exit(f, t) /\ current' = t /\ pc = "boot"
      /\ UNCHANGED <<irq_regs, flag, own, dead>>
  BY <1>1 DEF Switch!rt_hw_context_switch_to
<1>3. ~flag /\ \A u \in SwitchThreads : Kept(f[u].regs, u)
  BY <1>1, <1>2 DEF SwitchInv
<1>4. \A u \in SwitchThreads : Kept(f[u].regs, u)'
  BY <1>2, <1>3 DEF Kept
<1>5. SwitchTypes /\ dead' \in [SwitchThreads -> SUBSET Switch!Regs]
  BY <1>2 DEF SwitchInv, SwitchTypes
<1> QED
  BY <1>2, <1>3, <1>4, <1>5, ExitKeeps

\* The registers a call need not preserve are no longer relied on; the others are in
\* the words that rt_hw_context_switch pushes.
LEMMA SwitchKeeps ==
  ASSUME SwitchInv, NEW t \in SwitchThreads, Switch!rt_hw_context_switch(t)
  PROVE  SwitchInv'
<1>1. pc = "code" /\ ~flag /\ current \in SwitchThreads /\ Kept(live_regs, current) /\ Holder = current
  BY RegFacts DEF Switch!rt_hw_context_switch, SwitchInv, Present, Holder
<1>2. [at |-> "code", regs |-> live_regs] \in Words
  BY RegFacts DEF SwitchInv, SwitchTypes, Words
<1>3. PICK f \in [SwitchThreads -> Words] :
        f = [frame EXCEPT ![current] = [at |-> "code", regs |-> live_regs]]
  BY <1>1, <1>2 DEF SwitchInv, SwitchTypes
<1>4. /\ Switch!Exit(f, t) /\ current' = t
      /\ UNCHANGED <<irq_regs, flag, own>>
      /\ dead' = [dead EXCEPT ![current] = dead[current] \union Switch!Scratch]
  BY <1>3 DEF Switch!rt_hw_context_switch
<1>5. /\ dead' \in [SwitchThreads -> SUBSET Switch!Regs]
      /\ \A u \in SwitchThreads : dead[u] \subseteq dead'[u]
  BY <1>1, <1>4, RegFacts DEF SwitchInv, SwitchTypes
<1>6. \A u \in SwitchThreads : Kept(f[u].regs, u)
  <2> SUFFICES ASSUME NEW u \in SwitchThreads PROVE Kept(f[u].regs, u)
    OBVIOUS
  <2>1. CASE u = current
    <3>1. f[u].regs = live_regs
      BY <2>1, <1>1, <1>3 DEF SwitchInv, SwitchTypes
    <3> QED
      BY <3>1, <2>1, <1>1
  <2>2. CASE u # current
    <3>1. f[u] = frame[u]
      BY <2>2, <1>3 DEF SwitchInv, SwitchTypes
    <3> QED
      BY <3>1, <2>2, <1>1 DEF SwitchInv
  <2> QED
    BY <2>1, <2>2
<1>7. \A u \in SwitchThreads : Kept(f[u].regs, u)'
  BY <1>4, <1>5, <1>6 DEF Kept
<1> QED
  BY <1>1, <1>4, <1>5, <1>7, ExitKeeps DEF SwitchInv

-----------------------------------------------------------------------------
(* The thread and the interrupt.                                           *)

LEMMA JumpKeeps == SwitchInv /\ Switch!JumpT1 => SwitchInv'
<1> SUFFICES ASSUME SwitchInv, Switch!JumpT1 PROVE SwitchInv'
  OBVIOUS
<1>1. /\ pc = "jr" /\ pc' \in Switch!Places
      /\ UNCHANGED <<live_regs, masked, frame, current, irq_regs, flag, from, to, own, dead>>
  BY DEF Switch!JumpT1
<1>2. SwitchTypes'
  BY <1>1 DEF SwitchInv, SwitchTypes
<1>3. Holder' = Holder /\ Present' = Present
  BY <1>1, RegFacts DEF Holder, Present
<1>4. ~flag /\ ~masked /\ current \in SwitchThreads /\ Holder \in SwitchThreads
      /\ Kept(Present, Holder) /\ \A t \in SwitchThreads : t # Holder => Kept(frame[t].regs, t)
  BY <1>1, RegFacts DEF SwitchInv
<1>5. Kept(Present, Holder)' /\ \A t \in SwitchThreads : t # Holder' => Kept(frame[t].regs, t)'
  BY <1>1, <1>3, <1>4 DEF Kept
<1> QED
  BY <1>1, <1>2, <1>3, <1>4, <1>5, RegFacts DEF SwitchInv

LEMMA RunKeeps == SwitchInv /\ Switch!Run => SwitchInv'
<1> SUFFICES ASSUME SwitchInv, Switch!Run PROVE SwitchInv'
  OBVIOUS
<1>1. /\ pc = "code" /\ live_regs' = [r \in Switch!Regs |-> Switch!Value(current, "new")]
      /\ own' = [own EXCEPT ![current] = live_regs']
      /\ dead' = [dead EXCEPT ![current] = {}]
      /\ UNCHANGED <<pc, masked, frame, current, irq_regs, flag, from, to>>
  BY DEF Switch!Run
<1>2. /\ ~flag /\ ~masked /\ current \in SwitchThreads
      /\ \A t \in SwitchThreads : t # current => Kept(frame[t].regs, t)
  BY <1>1, RegFacts DEF SwitchInv, Holder
<1>3. live_regs' \in [Switch!Regs -> Values]
  BY <1>1, <1>2, ValueFacts
<1>4. /\ own' \in [SwitchThreads -> [Switch!Regs -> Values]]
      /\ own'[current] = live_regs' /\ \A t \in SwitchThreads \ {current} : own'[t] = own[t]
  BY <1>1, <1>2, <1>3 DEF SwitchInv, SwitchTypes
<1>5. /\ dead' \in [SwitchThreads -> SUBSET Switch!Regs]
      /\ \A t \in SwitchThreads \ {current} : dead'[t] = dead[t]
  BY <1>1, <1>2 DEF SwitchInv, SwitchTypes
<1>6. SwitchTypes'
  BY <1>1, <1>3, <1>4, <1>5 DEF SwitchInv, SwitchTypes
<1>7. Holder' = current /\ Present' = live_regs'
  BY <1>1, <1>2 DEF Holder, Present
<1>8. Kept(live_regs, current)'
  BY <1>1, <1>4 DEF Kept
<1>9. \A t \in SwitchThreads : t # current => Kept(frame[t].regs, t)'
  BY <1>1, <1>2, <1>4, <1>5 DEF Kept
<1> QED
  BY <1>1, <1>2, <1>6, <1>7, <1>8, <1>9, RegFacts DEF SwitchInv

LEMMA VecKeeps == SwitchInv /\ Switch!irq_vec => SwitchInv'
<1> SUFFICES ASSUME SwitchInv, Switch!irq_vec PROVE SwitchInv'
  OBVIOUS
<1> DEFINE Stored == [r \in Switch!Regs |-> IF r \in Switch!Saved THEN live_regs[r] ELSE irq_regs.regs[r]]
<1>1. /\ pc \in Switch!Places
      /\ irq_regs' = [at |-> pc, regs |-> Stored]
      /\ live_regs' = [r \in Switch!Regs |-> IF r \in Switch!Saved THEN Switch!Junk ELSE live_regs[r]]
      /\ pc' = "isr"
      /\ UNCHANGED <<frame, current, flag, from, to, own, dead>>
  BY DEF Switch!irq_vec
<1>2. /\ ~flag /\ current \in SwitchThreads /\ Kept(live_regs, current)
      /\ \A t \in SwitchThreads : t # current => Kept(frame[t].regs, t)
  BY <1>1, RegFacts DEF SwitchInv, Holder, Present
<1>3. Stored \in [Switch!Regs -> Values] /\ live_regs' \in [Switch!Regs -> Values]
  BY <1>1, ValueFacts DEF SwitchInv, SwitchTypes, Words
<1>4. \A r \in Switch!Regs : Stored[r] = IF r \in Switch!Saved THEN live_regs[r] ELSE irq_regs.regs[r]
  OBVIOUS
<1>5. \A r \in Switch!Regs : r \notin Switch!Saved => live_regs'[r] = live_regs[r]
  BY <1>1
<1> HIDE DEF Stored
<1>6. irq_regs' \in Words /\ irq_regs'.regs = Stored
  BY <1>1, <1>3 DEF Words
<1>7. SwitchTypes'
  BY <1>1, <1>3, <1>6 DEF SwitchInv, SwitchTypes
<1>8. Holder' = current
  BY <1>1, <1>2 DEF Holder
<1>9. \A r \in Switch!Regs : Present'[r] = live_regs[r]
  BY <1>1, <1>4, <1>5, <1>6 DEF Present
<1>10. Kept(Present, current)'
  BY <1>1, <1>2, <1>9 DEF Kept
<1>11. \A t \in SwitchThreads : t # current => Kept(frame[t].regs, t)'
  BY <1>1, <1>2 DEF Kept
<1> QED
  BY <1>1, <1>2, <1>7, <1>8, <1>10, <1>11, RegFacts DEF SwitchInv

\* The first call names the holder the one to save, the later ones leave it.
LEMMA AskKeeps ==
  ASSUME SwitchInv, NEW t \in SwitchThreads, Switch!rt_hw_context_switch_interrupt(t)
  PROVE  SwitchInv'
<1>1. /\ pc = "isr" /\ from' = IF flag THEN from ELSE current
      /\ to' = t /\ flag' = TRUE /\ current' = t
      /\ UNCHANGED <<live_regs, pc, masked, frame, irq_regs, own, dead>>
  BY DEF Switch!rt_hw_context_switch_interrupt
<1>2. Holder' = Holder /\ Present' = Present
  BY <1>1 DEF Holder, Present
<1>3. SwitchTypes'
  BY <1>1 DEF SwitchInv, SwitchTypes
<1>4. /\ Holder \in SwitchThreads /\ Kept(Present, Holder)
      /\ \A u \in SwitchThreads : u # Holder => Kept(frame[u].regs, u)
  BY <1>1, RegFacts DEF SwitchInv
<1>5. Kept(Present, Holder)' /\ \A u \in SwitchThreads : u # Holder' => Kept(frame[u].regs, u)'
  BY <1>1, <1>2, <1>4 DEF Kept
<1> QED
  BY <1>1, <1>2, <1>3, <1>4, <1>5, RegFacts DEF SwitchInv

LEMMA ReturnKeeps == SwitchInv /\ Switch!IrqReturn => SwitchInv'
<1> SUFFICES ASSUME SwitchInv, Switch!IrqReturn PROVE SwitchInv'
  OBVIOUS
<1>1. /\ pc = "isr" /\ ~flag
      /\ live_regs' = [r \in Switch!Regs |-> IF r \in Switch!Saved THEN irq_regs.regs[r] ELSE live_regs[r]]
      /\ pc' = irq_regs.at /\ ~masked'
      /\ UNCHANGED <<frame, current, irq_regs, flag, from, to, own, dead>>
  BY DEF Switch!IrqReturn
<1>2. live_regs' \in [Switch!Regs -> Values] /\ pc' \in Switch!Places
  BY <1>1 DEF SwitchInv, SwitchTypes, Words
<1>3. SwitchTypes'
  BY <1>1, <1>2 DEF SwitchInv, SwitchTypes
<1>4. Holder' = Holder /\ Present' = Present
  BY <1>1, <1>2, RegFacts DEF Holder, Present
<1>5. /\ current \in SwitchThreads /\ Holder \in SwitchThreads /\ Kept(Present, Holder)
      /\ \A t \in SwitchThreads : t # Holder => Kept(frame[t].regs, t)
  BY <1>1, RegFacts DEF SwitchInv
<1>6. Kept(Present, Holder)' /\ \A t \in SwitchThreads : t # Holder' => Kept(frame[t].regs, t)'
  BY <1>1, <1>4, <1>5 DEF Kept
<1> QED
  BY <1>1, <1>2, <1>3, <1>4, <1>5, <1>6, RegFacts DEF SwitchInv

\* rt_hw_irq_handle_switch: the holder's words go to its stack before the next
\* thread's take their place, so that the two may be the same thread.
LEMMA HandleKeeps == SwitchInv /\ Switch!IrqSwitch => SwitchInv'
<1> SUFFICES ASSUME SwitchInv, Switch!IrqSwitch PROVE SwitchInv'
  OBVIOUS
<1>1. /\ pc = "isr" /\ flag /\ to = current /\ from = Holder
      /\ from \in SwitchThreads /\ to \in SwitchThreads /\ Kept(Present, from)
      /\ \A t \in SwitchThreads : t # from => Kept(frame[t].regs, t)
  BY RegFacts DEF Switch!IrqSwitch, SwitchInv, Holder
<1> DEFINE saved == [irq_regs EXCEPT !.regs =
                       [r \in Switch!Regs |-> IF r \in Switch!Saved THEN irq_regs.regs[r] ELSE live_regs[r]]]
<1>2. saved \in Words /\ saved.regs = Present
  BY <1>1 DEF SwitchInv, SwitchTypes, Words, Present
<1> DEFINE frames == [frame EXCEPT ![from] = saved]
<1>3. /\ irq_regs' = frames[to] /\ frame' = Switch!Popped(frames, to)
      /\ live_regs' = irq_regs'.regs /\ pc' = irq_regs'.at /\ ~masked' /\ flag' = FALSE
      /\ UNCHANGED <<current, from, to, own, dead>>
  BY DEF Switch!IrqSwitch
<1> HIDE DEF saved
<1>4. /\ frames \in [SwitchThreads -> Words]
      /\ frames[from] = saved /\ \A t \in SwitchThreads \ {from} : frames[t] = frame[t]
  BY <1>1, <1>2 DEF SwitchInv, SwitchTypes
<1> HIDE DEF frames
<1>5. \A t \in SwitchThreads : Kept(frames[t].regs, t)
  BY <1>1, <1>2, <1>4
<1>6. /\ frame' \in [SwitchThreads -> Words]
      /\ \A t \in SwitchThreads \ {to} : frame'[t] = frames[t]
  BY <1>1, <1>3, <1>4, PoppedFacts
<1>7. irq_regs' \in Words /\ live_regs' \in [Switch!Regs -> Values] /\ pc' \in Switch!Places
  BY <1>1, <1>3, <1>4 DEF Words
<1>8. SwitchTypes'
  BY <1>3, <1>6, <1>7 DEF SwitchInv, SwitchTypes
<1>9. Holder' = to /\ Present' = frames[to].regs
  BY <1>1, <1>3, <1>7, RegFacts DEF Holder, Present
<1>10. Kept(Present, to)' /\ \A t \in SwitchThreads : t # to => Kept(frame[t].regs, t)'
  BY <1>1, <1>3, <1>5, <1>6, <1>9 DEF Kept
<1> QED
  BY <1>1, <1>3, <1>7, <1>8, <1>9, <1>10, RegFacts DEF SwitchInv

LEMMA NextSwitch == SwitchInv /\ [Switch!Next]_switchVars => SwitchInv'
<1> SUFFICES ASSUME SwitchInv, [Switch!Next]_switchVars PROVE SwitchInv'
  OBVIOUS
<1>1. CASE UNCHANGED switchVars
  BY <1>1 DEF switchVars, SwitchInv, SwitchTypes, Holder, Present, Kept
<1>2. ASSUME NEW t \in SwitchThreads,
             \/ Switch!rt_hw_context_switch_to(t) \/ Switch!rt_hw_context_switch(t)
             \/ Switch!rt_hw_context_switch_interrupt(t)
      PROVE  SwitchInv'
  BY <1>2, SwitchToKeeps, SwitchKeeps, AskKeeps
<1>3. CASE Switch!JumpT1 \/ Switch!Run \/ Switch!irq_vec \/ Switch!IrqReturn \/ Switch!IrqSwitch
  BY <1>3, JumpKeeps, RunKeeps, VecKeeps, ReturnKeeps, HandleKeeps
<1> QED
  BY <1>1, <1>2, <1>3 DEF Switch!Next

\* A thread that gets the CPU back goes on with its own registers and with interrupts
\* unmasked, for any number of threads, switches and requests of one handler.
THEOREM ResumedExactlyCorrect == PartsSpec => []ResumedExactly
<1>1. PartsInit => SwitchInv
  BY InitSwitch DEF PartsInit
<1>2. SwitchInv /\ [PartsNext]_allVars => SwitchInv'
  BY NextSwitch DEF PartsNext, allVars, switchVars
<1>3. SwitchInv => ResumedExactly
  <2> SUFFICES ASSUME SwitchInv, pc = "code"
               PROVE  ~masked /\ \A r \in (Switch!Regs \ {"t1"}) \ dead[current] :
                                   live_regs[r] = own[current][r]
    BY DEF ResumedExactly, Switch!ResumedExactly, Switch!Restored
  <2>1. Holder = current /\ Present = live_regs
    BY RegFacts DEF SwitchInv, Holder, Present
  <2> QED
    BY <2>1, RegFacts DEF SwitchInv, Kept
<1> QED
  BY <1>1, <1>2, <1>3, PTL DEF PartsSpec

-----------------------------------------------------------------------------
(* The periodic delay.                                                     *)

\* How long ago the deadline was.
Ago == clock - Service!Delay!Deadline

\* The difference of the ticks is that time but for one width.
DelayInv ==
  /\ rt_tick \in 0 .. Wrap - 1 /\ until \in 0 .. Wrap - 1 /\ timeout \in 0 .. Wrap - 1
  /\ inc_tick \in 0 .. Wrap - 1
  /\ asleep \in BOOLEAN
  /\ clock \in Int /\ anchor \in Int /\ periods \in Int
  /\ rt_tick - until \in {Ago - Wrap, Ago, Ago + Wrap}
  /\ asleep => timeout = until /\ -Wrap < Ago /\ Ago < 0
  /\ ~asleep => 0 <= Ago /\ Ago < Wrap

LEMMA TickKeeps ==
  ASSUME DelayInv, Service!Delay!rt_tick_increase
  PROVE  DelayInv' /\ Service!Delay!PeriodKept
<1> DEFINE d == Service!Delay!Deadline
<1>1. /\ asleep \/ Ago < Late
      /\ rt_tick' = (rt_tick + 1) % Wrap /\ clock' = clock + 1
      /\ asleep' = (asleep /\ timeout # rt_tick')
      /\ UNCHANGED <<until, inc_tick, timeout, anchor, periods>>
  BY DEF Service!Delay!rt_tick_increase, Ago
<1>2. d \in Int /\ d' = d /\ Ago = clock - d /\ Ago' = clock' - d' /\ Wrap \in Nat \ {0} /\ Late < Wrap
      /\ Late \in Int
  BY <1>1, DelayAssumption DEF DelayInv, Ago, Service!Delay!Deadline
<1>3. Ago' = Ago + 1 /\ Ago \in Int
  BY <1>1, <1>2 DEF DelayInv
<1>4. rt_tick' = IF rt_tick + 1 < Wrap THEN rt_tick + 1 ELSE rt_tick + 1 - Wrap
  <2>1. (rt_tick + 1) % Wrap = IF rt_tick + 1 < Wrap THEN rt_tick + 1 ELSE rt_tick + 1 - Wrap
    <3>1. rt_tick \in Int /\ rt_tick + 1 \in Int /\ -Wrap <= rt_tick + 1 /\ rt_tick + 1 <= Wrap /\ ~(rt_tick + 1 < 0)
      BY <1>2 DEF DelayInv
    <3>2. Rem(rt_tick + 1, Wrap) = IF rt_tick + 1 < Wrap THEN rt_tick + 1 ELSE rt_tick + 1 - Wrap
      BY <3>1, <1>2, ModOnce
    <3> QED
      BY <3>2 DEF Rem
  <2> QED
    BY <2>1, <1>1
<1>5. rt_tick' - until' \in {Ago' - Wrap, Ago', Ago' + Wrap}
  <2>1. rt_tick - until \in {Ago - Wrap, Ago, Ago + Wrap} /\ -Wrap < Ago /\ Ago < Wrap - 1
    BY <1>1, <1>2, <1>3 DEF DelayInv
  <2> QED
    BY <2>1, <1>1, <1>2, <1>3, <1>4 DEF DelayInv
<1>6. CASE asleep
  <2>0. timeout = until /\ until' = until /\ Ago' <= 0 /\ -Wrap < Ago'
        /\ rt_tick' \in 0 .. Wrap - 1 /\ until \in 0 .. Wrap - 1
    BY <1>1, <1>2, <1>3, <1>4, <1>6 DEF DelayInv
  <2>1. asleep' <=> Ago' # 0
    <3>1. rt_tick' = until <=> Ago' = 0
      BY <2>0, <1>2, <1>3, <1>5
    <3> QED
      BY <3>1, <2>0, <1>1, <1>6
  <2>2. asleep' \in BOOLEAN /\ (asleep' => timeout' = until' /\ -Wrap < Ago' /\ Ago' < 0)
        /\ (~asleep' => 0 <= Ago' /\ Ago' < Wrap)
    BY <2>1, <1>1, <1>2, <1>3, <1>6 DEF DelayInv
  <2>3. DelayInv'
    BY <2>2, <1>1, <1>2, <1>3, <1>4, <1>5 DEF DelayInv
  <2>4. Ago' = 0 => clock' = d
    BY <1>1, <1>2, <1>3 DEF DelayInv
  <2>5. asleep => clock < d
    BY <1>2, <1>6 DEF DelayInv
  <2> HIDE DEF d
  <2> QED
    BY <2>1, <2>3, <2>4, <2>5, <1>1 DEF Service!Delay!PeriodKept, d
<1>7. CASE ~asleep
  <2>1. ~asleep' /\ asleep' \in BOOLEAN
    BY <1>1, <1>7
  <2>2. 0 <= Ago' /\ Ago' < Wrap
    BY <1>1, <1>2, <1>3, <1>7 DEF DelayInv
  <2>3. DelayInv'
    BY <2>1, <2>2, <1>1, <1>2, <1>3, <1>4, <1>5 DEF DelayInv
  <2> QED
    BY <2>3, <1>1, <1>7 DEF Service!Delay!PeriodKept
<1> QED
  BY <1>6, <1>7

\* A call with the period not over: the deadline moves on by it, and the timer is set
\* to it.
LEMMA SleepKeeps ==
  ASSUME DelayInv, Service!Delay!rt_thread_delay_until
  PROVE  DelayInv' /\ Service!Delay!PeriodKept
<1> DEFINE d == Service!Delay!Deadline
<1>1. /\ ~asleep /\ UNCHANGED <<rt_tick, inc_tick, clock>>
      /\ \/ /\ (rt_tick - until) % Wrap < inc_tick
            /\ until' = (until + inc_tick) % Wrap
            /\ timeout' = (rt_tick + ((until' - rt_tick) % Wrap)) % Wrap
            /\ asleep' = TRUE /\ periods' = periods + 1 /\ anchor' = anchor
         \/ /\ ~((rt_tick - until) % Wrap < inc_tick)
            /\ until' = rt_tick
            /\ anchor' = clock /\ periods' = 0
            /\ UNCHANGED <<timeout, asleep>>
  BY DEF Service!Delay!rt_thread_delay_until
<1>2. d \in Int /\ Ago = clock - d /\ Ago' = clock' - d' /\ Wrap \in Nat \ {0} /\ Ago \in Int
  BY DelayAssumption DEF DelayInv, Ago, Service!Delay!Deadline
<1>3. 0 <= Ago /\ Ago < Wrap /\ rt_tick - until \in {Ago - Wrap, Ago}
  BY <1>1, <1>2 DEF DelayInv
<1>4. (rt_tick - until) % Wrap = Ago
  <2>1. (rt_tick - until) % Wrap = IF rt_tick < until THEN rt_tick - until + Wrap ELSE rt_tick - until
    <3>1. rt_tick \in Int /\ until \in Int /\ rt_tick - until \in Int /\ -Wrap <= rt_tick - until /\ rt_tick - until < Wrap
          /\ (rt_tick - until < 0 <=> rt_tick < until)
      BY <1>2 DEF DelayInv
    <3>2. Rem(rt_tick - until, Wrap) = IF rt_tick < until THEN rt_tick - until + Wrap ELSE rt_tick - until
      BY <3>1, <1>2, ModOnce
    <3> QED
      BY <3>2 DEF Rem
  <2> QED
    BY <2>1, <1>2, <1>3 DEF DelayInv
<1>5. CASE Ago < inc_tick
  <2>1. /\ until' = (until + inc_tick) % Wrap
        /\ timeout' = (rt_tick + ((until' - rt_tick) % Wrap)) % Wrap
        /\ asleep' = TRUE /\ periods' = periods + 1 /\ anchor' = anchor
    BY <1>1, <1>4, <1>5
  <2>2. d' = d + inc_tick
    BY <2>1, <1>1 DEF DelayInv, Service!Delay!Deadline
  <2>3. Ago' = Ago - inc_tick /\ -Wrap < Ago' /\ Ago' < 0
    BY <2>2, <1>1, <1>2, <1>3, <1>5 DEF DelayInv
  <2>4. until' = IF until + inc_tick < Wrap THEN until + inc_tick ELSE until + inc_tick - Wrap
    <3>1. (until + inc_tick) % Wrap = IF until + inc_tick < Wrap THEN until + inc_tick ELSE until + inc_tick - Wrap
      <4>1. until \in Int /\ inc_tick \in Int /\ until + inc_tick \in Int /\ 0 <= until + inc_tick /\ until + inc_tick < 2 * Wrap
        BY <1>2 DEF DelayInv
      <4>2. Rem(until + inc_tick, Wrap) = IF until + inc_tick < Wrap THEN until + inc_tick ELSE until + inc_tick - Wrap
        BY <4>1, <1>2, ModOnce
      <4> QED
        BY <4>2 DEF Rem
    <3> QED
      BY <3>1, <2>1
  <2>5. until' \in 0 .. Wrap - 1
    BY <2>4, <1>2 DEF DelayInv
  <2>6. PICK u \in 0 .. Wrap - 1 : u = until'
    BY <2>5
  <2>7. timeout' = u
    <3>1. rt_tick \in Int /\ u \in Int /\ u - rt_tick \in Int /\ -Wrap <= u - rt_tick /\ u - rt_tick < Wrap
          /\ (u - rt_tick < 0 <=> u < rt_tick)
      BY <1>2 DEF DelayInv
    <3>2. Rem(u - rt_tick, Wrap) = IF u < rt_tick THEN u - rt_tick + Wrap ELSE u - rt_tick
      BY <3>1, <1>2, ModOnce
    <3>3. PICK x \in Int : x = IF u < rt_tick THEN u + Wrap ELSE u
      BY <3>1, <1>2
    <3>4. rt_tick + Rem(u - rt_tick, Wrap) = x
      BY <3>1, <3>2, <3>3, <1>2
    <3>5. Rem(x, Wrap) = u
      BY <3>3, <1>2, ModOnce
    <3>6. timeout' = Rem(rt_tick + Rem(u - rt_tick, Wrap), Wrap)
      BY <2>1, <2>6 DEF Rem
    <3> QED
      BY <3>4, <3>5, <3>6
  <2>8. rt_tick' - until' \in {Ago' - Wrap, Ago', Ago' + Wrap}
    BY <2>3, <2>4, <1>1, <1>2, <1>3 DEF DelayInv
  <2>9. DelayInv'
    BY <2>1, <2>3, <2>6, <2>7, <2>8, <1>1 DEF DelayInv
  <2> QED
    BY <2>1, <2>9, <1>1 DEF Service!Delay!PeriodKept
<1>6. CASE ~(Ago < inc_tick)
  <2>1. until' = rt_tick /\ anchor' = clock /\ periods' = 0 /\ timeout' = timeout /\ asleep' = asleep
    BY <1>1, <1>4, <1>6
  <2>2. Ago' = 0
    BY <2>1, <1>1 DEF DelayInv, Ago, Service!Delay!Deadline
  <2>3. DelayInv'
    BY <2>1, <2>2, <1>1, <1>2 DEF DelayInv
  <2>4. clock >= d + inc_tick
    BY <1>2, <1>6 DEF DelayInv
  <2> QED
    BY <2>1, <2>3, <2>4, <1>1 DEF Service!Delay!PeriodKept
<1> QED
  BY <1>5, <1>6

\* What is not rt_thread_delay_until leaves the delay alone.
LEMMA OthersKeep ==
  ASSUME DelayInv, UNCHANGED Service!delayVars
  PROVE  DelayInv'
  BY DEF DelayInv, Service!delayVars, Ago, Service!Delay!Deadline

LEMMA InitDelay == PartsInit => DelayInv
<1>1. ASSUME Service!NoDelay PROVE DelayInv
  <2>1. /\ rt_tick = 0 /\ until = 0 /\ inc_tick = 0 /\ timeout = 0 /\ asleep = FALSE
        /\ clock = 0 /\ anchor = 0 /\ periods = 0
    BY <1>1 DEF Service!NoDelay
  <2>2. clock \in Int /\ anchor \in Int /\ periods \in Int /\ inc_tick \in Int /\ periods * inc_tick = 0
    BY <2>1
  <2>3. Ago = 0 /\ Ago \in Int
    BY <2>1, <2>2 DEF Ago, Service!Delay!Deadline
  <2> QED
    <3>1. rt_tick - until \in {Ago - Wrap, Ago, Ago + Wrap}
      BY <2>1, <2>3, DelayAssumption
    <3>2. 0 <= Ago /\ Ago < Wrap
      BY <2>1, <2>3, DelayAssumption
    <3>3. /\ rt_tick \in 0 .. Wrap - 1 /\ until \in 0 .. Wrap - 1 /\ timeout \in 0 .. Wrap - 1
          /\ inc_tick \in 0 .. Wrap - 1
      BY <2>1, DelayAssumption
    <3> QED
      BY <2>1, <2>2, <3>1, <3>2, <3>3 DEF DelayInv
<1>2. ASSUME Service!Delay!Init PROVE DelayInv
  <2>1. /\ rt_tick \in 0 .. Wrap - 1 /\ until = rt_tick /\ timeout = rt_tick /\ inc_tick \in Incs
        /\ asleep = FALSE /\ clock = 0 /\ anchor = 0 /\ periods = 0
    BY <1>2 DEF Service!Delay!Init
  <2>2. inc_tick \in 0 .. Wrap - 1
    BY <2>1, DelayAssumption
  <2>3. Ago = 0 /\ Ago \in Int
    <3>1. clock \in Int /\ anchor \in Int /\ periods \in Int /\ inc_tick \in Int /\ periods * inc_tick = 0
      BY <2>1, <2>2, DelayAssumption
    <3> QED
      BY <2>1, <3>1 DEF Ago, Service!Delay!Deadline
  <2> QED
    <3>1. rt_tick - until \in {Ago - Wrap, Ago, Ago + Wrap}
      BY <2>1, <2>3, DelayAssumption
    <3>2. 0 <= Ago /\ Ago < Wrap
      BY <2>1, <2>3, DelayAssumption
    <3>3. clock \in Int /\ anchor \in Int /\ periods \in Int
      BY <2>1
    <3> QED
      BY <2>1, <2>2, <3>1, <3>2, <3>3 DEF DelayInv
<1>3. Service!Init => Service!NoDelay \/ Service!Delay!Init
  BY DEF Service!Init
<1>4. Service!Idle => Service!NoDelay
  BY DEF Service!Idle
<1> QED
  BY <1>1, <1>2, <1>3, <1>4 DEF PartsInit

LEMMA NextDelay ==
  ASSUME DelayInv, [PartsNext]_allVars
  PROVE  /\ DelayInv'
         /\ part = "service" /\ call.fn = "rt_thread_delay_until" =>
              Service!Delay!PeriodKept \/ UNCHANGED Service!delayVars
<1>1. CASE UNCHANGED serviceVars
  BY <1>1, OthersKeep DEF serviceVars, Service!delayVars
<1>2. CASE Service!Next
  <2>1. Service!Next => Service!Delaying \/ UNCHANGED Service!delayVars
    BY DEF Service!Next, Service!Copy, Service!Compare, Service!Search, Service!Measure,
           Service!Printing, Service!Calls
  <2>2. Service!Delaying => Service!Delay!rt_tick_increase \/ Service!Delay!rt_thread_delay_until
    BY DEF Service!Delaying, Service!Delay!Next
  <2> QED
    BY <1>2, <2>1, <2>2, TickKeeps, SleepKeeps, OthersKeep
<1> QED
  BY <1>1, <1>2 DEF PartsNext, allVars, serviceVars

\* A thread that calls rt_thread_delay_until in time sleeps to the end of its period
\* and no longer, whatever the width of rt_tick and wherever it wraps.
THEOREM DelayKeepsPeriodsCorrect == PartsSpec => DelayKeepsPeriods
<1>1. DelayInv /\ UNCHANGED Service!delayVars => Service!Delay!PeriodKept
  BY DEF DelayInv, Service!delayVars, Ago, Service!Delay!Deadline, Service!Delay!PeriodKept
<1>2. DelayInv /\ [PartsNext]_allVars =>
        [part = "service" /\ call.fn = "rt_thread_delay_until" => Service!Delay!PeriodKept]_allVars
  BY <1>1, NextDelay
<1>3. DelayInv /\ [PartsNext]_allVars => DelayInv'
  BY NextDelay
<1> QED
  BY <1>2, <1>3, InitDelay, PTL DEF PartsSpec, DelayKeepsPeriods

-----------------------------------------------------------------------------
(* The list of timers.                                                     *)

PointerLists == [next : [Nodes -> Nodes], prev : [Nodes -> Nodes]]

\* The node at position i of the ring of ListHead and the timers q.
NodeAt(q, i) == IF i \in 1 .. Len(q) THEN q[i] ELSE ListHead

SelfLinked(l, n) == l.next[n] = n /\ l.prev[n] = n

\* In l the timers q are on the list, in this order; f is the one on Temp, or None;
\* every other node points at itself.
Linked(l, q, f) ==
  /\ l \in PointerLists
  /\ q \in Seq(Timers) /\ IsInjective(q)
  /\ \A i \in 0 .. Len(q) : /\ l.next[NodeAt(q, i)] = NodeAt(q, i + 1)
                            /\ l.prev[NodeAt(q, i + 1)] = NodeAt(q, i)
  /\ f = None => SelfLinked(l, Temp)
  /\ f # None => /\ f \in Timers /\ ~Contains(q, f)
                 /\ l.next[Temp] = f /\ l.prev[Temp] = f
                 /\ l.next[f] = Temp /\ l.prev[f] = Temp
  /\ \A n \in Nodes : n = ListHead \/ n = Temp \/ n = f \/ Contains(q, n) \/ SelfLinked(l, n)

LEMMA FourAtMost ==
  ASSUME NEW a, NEW b, NEW c, NEW d
  PROVE  IsFiniteSet({a, b, c, d}) /\ Cardinality({a, b, c, d}) <= 4
<1>1. IsFiniteSet({}) /\ Cardinality({}) = 0
  BY FS_EmptySet
<1>2. IsFiniteSet({a}) /\ Cardinality({a}) \in 0 .. 1
  <2>1. {a} = {} \cup {a}
    OBVIOUS
  <2> QED
    BY <1>1, <2>1, FS_AddElement
<1>3. IsFiniteSet({a, b}) /\ Cardinality({a, b}) \in 0 .. 2
  <2>1. {a, b} = {a} \cup {b}
    OBVIOUS
  <2> QED
    BY <1>2, <2>1, FS_AddElement
<1>4. IsFiniteSet({a, b, c}) /\ Cardinality({a, b, c}) \in 0 .. 3
  <2>1. {a, b, c} = {a, b} \cup {c}
    OBVIOUS
  <2> QED
    BY <1>3, <2>1, FS_AddElement
<1>5. {a, b, c, d} = {a, b, c} \cup {d}
  OBVIOUS
<1> QED
  BY <1>4, <1>5, FS_AddElement

LEMMA NodeFacts ==
  /\ ListHead \in Nodes /\ Temp \in Nodes /\ Timers \subseteq Nodes
  /\ ListHead \notin Timers /\ Temp \notin Timers /\ None \notin Nodes /\ None \notin Timers
  /\ ListHead # Temp /\ ListHead # None /\ Temp # None
<1>1. /\ ListHead # Temp /\ ListHead # None /\ Temp # None /\ Null # None /\ Wild # None
  <2> DEFINE five == {ListHead, Temp, Null, Wild, None}
  <2>0. Cardinality(five) = 5
    BY TimersAssumption
  <2>1. ASSUME NEW a, NEW b, NEW c, NEW d
        PROVE  five # {a, b, c, d}
    <3> HIDE DEF five
    <3>1. Cardinality({a, b, c, d}) <= 4 /\ Cardinality({a, b, c, d}) \in Nat
      BY FourAtMost, FS_CardinalityType
    <3> QED
      BY <2>0, <3>1
  <2>2. /\ five # {ListHead, Null, Wild, None} /\ five # {Temp, Null, Wild, ListHead}
        /\ five # {ListHead, Temp, Null, Wild}
    BY <2>1
  <2> QED
    BY <2>2
<1> QED
  BY <1>1, TimersAssumption DEF Nodes

-----------------------------------------------------------------------------
LEMMA NodeAtFacts ==
  ASSUME NEW q \in Seq(Timers), IsInjective(q)
  PROVE  /\ \A i \in 1 .. Len(q) : NodeAt(q, i) = q[i] /\ q[i] \in Timers
         /\ NodeAt(q, 0) = ListHead /\ NodeAt(q, Len(q) + 1) = ListHead
         /\ \A i \in Int : NodeAt(q, i) \in Nodes /\ NodeAt(q, i) # Temp
         /\ \A i, j \in 0 .. Len(q) : NodeAt(q, i) = NodeAt(q, j) => i = j
         /\ \A t \in Timers : (\A i \in 1 .. Len(q) : q[i] # t) => \A i \in Int : NodeAt(q, i) # t
         /\ \A t : Contains(q, t) <=> \E i \in 1 .. Len(q) : q[i] = t
<1>1. /\ Len(q) \in Nat /\ DOMAIN q = 1 .. Len(q)
      /\ \A i \in 1 .. Len(q) : NodeAt(q, i) = q[i] /\ q[i] \in Timers
  BY DEF NodeAt
<1>2. NodeAt(q, 0) = ListHead /\ NodeAt(q, Len(q) + 1) = ListHead
  BY <1>1 DEF NodeAt
<1>3. \A i \in Int : NodeAt(q, i) \in Nodes /\ NodeAt(q, i) # Temp
  BY <1>1, NodeFacts DEF NodeAt
<1>4. \A i, j \in 1 .. Len(q) : q[i] = q[j] => i = j
  BY <1>1 DEF IsInjective
<1>5. \A i, j \in 0 .. Len(q) : NodeAt(q, i) = NodeAt(q, j) => i = j
  BY <1>1, <1>4, NodeFacts DEF NodeAt
<1>6. \A t \in Timers : (\A i \in 1 .. Len(q) : q[i] # t) => \A i \in Int : NodeAt(q, i) # t
  BY NodeFacts DEF NodeAt
<1>7. \A t : Contains(q, t) <=> \E i \in 1 .. Len(q) : q[i] = t
  BY DEF Contains
<1> QED
  BY <1>1, <1>2, <1>3, <1>5, <1>6, <1>7

-----------------------------------------------------------------------------
(* The list routines, pointer by pointer.                                  *)

LEMMA RemovePointers ==
  ASSUME NEW l \in PointerLists, NEW n \in Nodes
  PROVE  /\ rt_list_remove(l, n) \in PointerLists
         /\ \A x \in Nodes :
              /\ rt_list_remove(l, n).next[x] =
                   IF x = n THEN n ELSE IF x = l.prev[n] THEN l.next[n] ELSE l.next[x]
              /\ rt_list_remove(l, n).prev[x] =
                   IF x = n THEN n ELSE IF x = l.next[n] THEN l.prev[n] ELSE l.prev[x]
BY DEF rt_list_remove, PointerLists

LEMMA InsertPointers ==
  ASSUME NEW l \in PointerLists, NEW at \in Nodes, NEW n \in Nodes, at # n
  PROVE  /\ rt_list_insert_after(l, at, n) \in PointerLists
         /\ \A x \in Nodes :
              /\ rt_list_insert_after(l, at, n).next[x] =
                   IF x = at THEN n ELSE IF x = n THEN l.next[at] ELSE l.next[x]
              /\ rt_list_insert_after(l, at, n).prev[x] =
                   IF x = n THEN at ELSE IF x = l.next[at] THEN n ELSE l.prev[x]
BY DEF rt_list_insert_after, PointerLists

\* Taking n off a ring at position k shifts those behind it.
LEMMA RemovedNodes ==
  ASSUME NEW q \in Seq(Timers), NEW k \in 1 .. Len(q)
  PROVE  /\ RemoveAt(q, k) \in Seq(Timers) /\ Len(RemoveAt(q, k)) = Len(q) - 1
         /\ \A j \in 0 .. Len(q) :
              NodeAt(RemoveAt(q, k), j) = IF j < k THEN NodeAt(q, j) ELSE NodeAt(q, j + 1)
<1> DEFINE r == RemoveAt(q, k)
<1>1. /\ r \in Seq(Timers) /\ Len(r) = Len(q) - 1 /\ Len(q) \in Nat
      /\ \A j \in 1 .. Len(q) - 1 : r[j] = IF j < k THEN q[j] ELSE q[j + 1]
  BY RemoveAtElements
<1> HIDE DEF r
<1>2. \A j \in 0 .. Len(q) : NodeAt(r, j) = IF j < k THEN NodeAt(q, j) ELSE NodeAt(q, j + 1)
  BY <1>1 DEF NodeAt
<1> QED
  BY <1>1, <1>2 DEF r

\* rt_list_remove takes a timer off the list or off Temp, and one that is on neither
\* stays as it is.
LEMMA RemoveLinked ==
  ASSUME NEW l, NEW q, NEW f, Linked(l, q, f), NEW n \in Timers
  PROVE  /\ Linked(rt_list_remove(l, n), Unlink(q, n), IF n = f THEN None ELSE f)
         /\ SelfLinked(rt_list_remove(l, n), n)
<1> DEFINE r == rt_list_remove(l, n)
<1>1. /\ l \in PointerLists /\ n \in Nodes /\ q \in Seq(Timers) /\ IsInjective(q)
  BY NodeFacts DEF Linked
<1>2. /\ r \in PointerLists
      /\ \A x \in Nodes :
           /\ r.next[x] = IF x = n THEN n ELSE IF x = l.prev[n] THEN l.next[n] ELSE l.next[x]
           /\ r.prev[x] = IF x = n THEN n ELSE IF x = l.next[n] THEN l.prev[n] ELSE l.prev[x]
  BY <1>1, RemovePointers
<1> HIDE DEF r
<1>3. SelfLinked(r, n)
  BY <1>1, <1>2 DEF SelfLinked
<1>4. /\ Len(q) \in Nat
      /\ \A i \in Int : NodeAt(q, i) \in Nodes /\ NodeAt(q, i) # Temp
      /\ \A i, j \in 0 .. Len(q) : NodeAt(q, i) = NodeAt(q, j) => i = j
      /\ NodeAt(q, 0) = ListHead /\ NodeAt(q, Len(q) + 1) = ListHead
      /\ \A i \in 1 .. Len(q) : NodeAt(q, i) = q[i] /\ q[i] \in Timers
      /\ \A i \in 0 .. Len(q) : l.next[NodeAt(q, i)] = NodeAt(q, i + 1)
                                /\ l.prev[NodeAt(q, i + 1)] = NodeAt(q, i)
  BY <1>1, NodeAtFacts DEF Linked
<1>5. ~Contains(q, n) => \A i \in Int : NodeAt(q, i) # n
  BY <1>1, NodeAtFacts
<1>6. CASE n = f
  <2>1. /\ ~Contains(q, n) /\ Unlink(q, n) = q
        /\ l.next[n] = Temp /\ l.prev[n] = Temp /\ n # None
    BY <1>1, <1>6, UnlinkElements, NodeFacts DEF Linked
  <2>2. \A i \in 0 .. Len(q) : /\ r.next[NodeAt(q, i)] = NodeAt(q, i + 1)
                               /\ r.prev[NodeAt(q, i + 1)] = NodeAt(q, i)
    BY <1>2, <1>4, <1>5, <2>1
  <2>3. SelfLinked(r, Temp)
    BY <1>2, <2>1, NodeFacts DEF SelfLinked
  <2>4. \A x \in Nodes : x = ListHead \/ x = Temp \/ x = None \/ Contains(q, x) \/ SelfLinked(r, x)
    BY <1>2, <1>3, <1>6, <2>1 DEF Linked, SelfLinked
  <2>5. Linked(r, q, None)
    BY <1>1, <1>2, <2>2, <2>3, <2>4 DEF Linked
  <2> QED
    BY <1>3, <1>6, <2>1, <2>5 DEF r
<1>7. CASE n # f /\ ~Contains(q, n)
  <2>1. Unlink(q, n) = q /\ SelfLinked(l, n)
    BY <1>1, <1>7, UnlinkElements, NodeFacts DEF Linked
  <2>2. \A x \in Nodes : r.next[x] = l.next[x] /\ r.prev[x] = l.prev[x]
    BY <1>2, <2>1 DEF SelfLinked
  <2>3. r = l
    <3>1. /\ r.next \in [Nodes -> Nodes] /\ r.prev \in [Nodes -> Nodes]
          /\ l.next \in [Nodes -> Nodes] /\ l.prev \in [Nodes -> Nodes]
          /\ r = [next |-> r.next, prev |-> r.prev] /\ l = [next |-> l.next, prev |-> l.prev]
      BY <1>1, <1>2 DEF PointerLists
    <3>2. r.next = l.next /\ r.prev = l.prev
      BY <2>2, <3>1
    <3> QED
      BY <3>1, <3>2
  <2> QED
    BY <1>3, <1>7, <2>1, <2>3 DEF r
<1>8. CASE Contains(q, n)
  <2> DEFINE k == CHOOSE i \in 1 .. Len(q) : q[i] = n
             s == RemoveAt(q, k)
  <2>1. k \in 1 .. Len(q) /\ q[k] = n /\ Unlink(q, n) = s
    BY <1>8 DEF Contains, Unlink
  <2> HIDE DEF k
  <2>2. /\ s \in Seq(Timers) /\ Len(s) = Len(q) - 1
        /\ \A j \in 0 .. Len(q) : NodeAt(s, j) = IF j < k THEN NodeAt(q, j) ELSE NodeAt(q, j + 1)
    BY <1>1, <2>1, RemovedNodes
  <2>3. IsInjective(s) /\ \A u : Contains(s, u) <=> Contains(q, u) /\ u # n
    BY <1>1, <2>1, UnlinkElements
  <2> HIDE DEF s
  <2>4. n # f /\ n = NodeAt(q, k)
    BY <1>4, <1>8, <2>1, NodeFacts DEF Linked
  <2>5. l.next[n] = NodeAt(q, k + 1) /\ l.prev[n] = NodeAt(q, k - 1)
    <3>1. k \in 0 .. Len(q) /\ k - 1 \in 0 .. Len(q) /\ (k - 1) + 1 = k
      BY <1>4, <2>1
    <3>2. l.prev[NodeAt(q, (k - 1) + 1)] = NodeAt(q, k - 1)
      BY <1>4, <3>1
    <3> QED
      BY <1>4, <2>4, <3>1, <3>2
  <2>6. \A i \in 0 .. Len(q) : i # k => NodeAt(q, i) # n
    BY <1>4, <2>1, <2>4
  <2>7. \A i \in 0 .. Len(q) : i # k - 1 /\ i # k => NodeAt(q, i) # NodeAt(q, k - 1)
    BY <1>4, <2>1
  <2>8. \A i \in 0 .. Len(q) : NodeAt(q, i + 1) = NodeAt(q, k + 1) => i = k
    <3>1. \A i \in 0 .. Len(q) : NodeAt(q, i + 1) = NodeAt(q, IF i = Len(q) THEN 0 ELSE i + 1)
      BY <1>4
    <3> QED
      BY <1>4, <2>1, <3>1
  <2>9. \A i \in 0 .. Len(q) : i # k - 1 => NodeAt(q, i + 1) # n
    <3>1. \A i \in 0 .. Len(q) : NodeAt(q, i + 1) = NodeAt(q, IF i = Len(q) THEN 0 ELSE i + 1)
      BY <1>4
    <3> QED
      BY <1>4, <2>1, <2>4, <3>1
  <2>10. \A i \in 0 .. Len(q) : i # k /\ i # k - 1 =>
            /\ r.next[NodeAt(q, i)] = NodeAt(q, i + 1) /\ r.prev[NodeAt(q, i + 1)] = NodeAt(q, i)
    <3> SUFFICES ASSUME NEW i \in 0 .. Len(q), i # k, i # k - 1
                 PROVE  /\ r.next[NodeAt(q, i)] = NodeAt(q, i + 1)
                        /\ r.prev[NodeAt(q, i + 1)] = NodeAt(q, i)
      OBVIOUS
    <3>1. /\ NodeAt(q, i) \in Nodes /\ NodeAt(q, i + 1) \in Nodes
          /\ l.next[NodeAt(q, i)] = NodeAt(q, i + 1) /\ l.prev[NodeAt(q, i + 1)] = NodeAt(q, i)
      BY <1>4
    <3>2. /\ NodeAt(q, i) # n /\ NodeAt(q, i) # l.prev[n]
          /\ NodeAt(q, i + 1) # n /\ NodeAt(q, i + 1) # l.next[n]
      BY <2>5, <2>6, <2>7, <2>8, <2>9
    <3> QED
      BY <1>2, <3>1, <3>2
  <2>11. /\ r.next[NodeAt(q, k - 1)] = NodeAt(q, k + 1)
         /\ r.prev[NodeAt(q, k + 1)] = NodeAt(q, k - 1)
    BY <1>2, <1>4, <2>1, <2>5, <2>6, <2>9
  <2>12. \A i \in 0 .. Len(s) : /\ r.next[NodeAt(s, i)] = NodeAt(s, i + 1)
                                /\ r.prev[NodeAt(s, i + 1)] = NodeAt(s, i)
    <3> SUFFICES ASSUME NEW i \in 0 .. Len(s)
                 PROVE  /\ r.next[NodeAt(s, i)] = NodeAt(s, i + 1)
                        /\ r.prev[NodeAt(s, i + 1)] = NodeAt(s, i)
      OBVIOUS
    <3>0. i \in 0 .. Len(q) /\ i + 1 \in 0 .. Len(q) /\ i \in Int /\ k \in Int
      BY <1>4, <2>1, <2>2
    <3>1. CASE i + 1 < k
      <4>1. NodeAt(s, i) = NodeAt(q, i) /\ NodeAt(s, i + 1) = NodeAt(q, i + 1) /\ i # k /\ i # k - 1
        BY <2>2, <3>0, <3>1
      <4> QED
        BY <2>10, <3>0, <4>1
    <3>2. CASE i + 1 = k
      <4>1. /\ NodeAt(s, i) = NodeAt(q, k - 1) /\ NodeAt(s, i + 1) = NodeAt(q, (i + 1) + 1)
            /\ i + 1 = k
        BY <2>2, <3>0, <3>2
      <4> QED
        BY <2>11, <4>1
    <3>3. CASE i + 1 > k
      <4>1. /\ NodeAt(s, i) = NodeAt(q, i + 1) /\ NodeAt(s, i + 1) = NodeAt(q, (i + 1) + 1)
            /\ i + 1 # k /\ i + 1 # k - 1
        BY <2>2, <3>0, <3>3
      <4> QED
        BY <2>10, <3>0, <4>1
    <3> QED
      BY <1>4, <2>1, <3>1, <3>2, <3>3
  <2>13. \A x \in Nodes \ {ListHead} : x # n /\ ~Contains(q, x) =>
           r.next[x] = l.next[x] /\ r.prev[x] = l.prev[x]
    <3>1. \A x \in Nodes \ {ListHead} : ~Contains(q, x) => \A i \in Int : NodeAt(q, i) # x
      BY <1>1, NodeAtFacts DEF NodeAt
    <3> QED
      BY <1>2, <2>1, <2>5, <3>1, <1>4
  <2>14. Linked(r, s, f)
    <3>1. f = None => SelfLinked(r, Temp)
      <4>1. ~Contains(q, Temp) /\ Temp # n
        BY <1>1, NodeAtFacts, NodeFacts
      <4> QED
        BY <2>13, <4>1, NodeFacts DEF Linked, SelfLinked
    <3>2. f # None => /\ f \in Timers /\ ~Contains(s, f)
                      /\ r.next[Temp] = f /\ r.prev[Temp] = f
                      /\ r.next[f] = Temp /\ r.prev[f] = Temp
      <4>1. ~Contains(q, Temp) /\ Temp # n
        BY <1>1, NodeAtFacts, NodeFacts
      <4> QED
        BY <2>3, <2>4, <2>13, <4>1, NodeFacts DEF Linked
    <3>3. \A x \in Nodes : x = ListHead \/ x = Temp \/ x = f \/ Contains(s, x) \/ SelfLinked(r, x)
      BY <1>3, <2>3, <2>13 DEF Linked, SelfLinked
    <3> QED
      BY <1>2, <2>2, <2>3, <2>12, <3>1, <3>2, <3>3 DEF Linked
  <2> QED
    BY <1>3, <2>1, <2>4, <2>14 DEF r
<1> QED
  BY <1>6, <1>7, <1>8

\* The sequence q with t behind its first i elements.
PutBehind(q, i, t) == IF i = Len(q) THEN Append(q, t) ELSE InsertAt(q, i + 1, t)

LEMMA InsertedNodes ==
  ASSUME NEW q \in Seq(Timers), IsInjective(q), NEW i \in 0 .. Len(q), NEW t \in Timers,
         ~Contains(q, t)
  PROVE  /\ PutBehind(q, i, t) \in Seq(Timers) /\ Len(PutBehind(q, i, t)) = Len(q) + 1
         /\ IsInjective(PutBehind(q, i, t))
         /\ \A u : Contains(PutBehind(q, i, t), u) <=> Contains(q, u) \/ u = t
         /\ \A j \in 0 .. Len(q) + 2 :
              NodeAt(PutBehind(q, i, t), j) =
                IF j <= i THEN NodeAt(q, j) ELSE IF j = i + 1 THEN t ELSE NodeAt(q, j - 1)
<1> DEFINE r == PutBehind(q, i, t)
<1>1. /\ r \in Seq(Timers) /\ IsInjective(r)
      /\ \A u : Contains(r, u) <=> Contains(q, u) \/ u = t
  <2>1. CASE i = Len(q)
    <3>1. r = Append(q, t)
      BY <2>1 DEF PutBehind
    <3> HIDE DEF r
    <3>2. r = Append(q, t) \/ r = <<t>> \o q
      BY <3>1
    <3>3. /\ r \in Seq(Timers)
          /\ \A u : Contains(r, u) <=> Contains(q, u) \/ u = t
          /\ IsInjective(q) /\ ~Contains(q, t) => IsInjective(r)
      BY <3>2, AddElements
    <3> QED
      BY <3>3
  <2>2. CASE i # Len(q)
    <3>1. r = InsertAt(q, i + 1, t) /\ i + 1 \in 1 .. Len(q)
      BY <2>2 DEF PutBehind
    <3> HIDE DEF r
    <3> QED
      BY <3>1, InsertElements
  <2> QED
    BY <2>1, <2>2
<1>2. /\ Len(r) = Len(q) + 1
      /\ \A j \in 1 .. Len(q) + 1 :
           r[j] = IF j <= i THEN q[j] ELSE IF j = i + 1 THEN t ELSE q[j - 1]
  <2>1. CASE i = Len(q)
    BY <2>1 DEF PutBehind
  <2>2. CASE i # Len(q)
    <3>1. i + 1 \in 1 .. Len(q) /\ r = InsertAt(q, i + 1, t)
      BY <2>2 DEF PutBehind
    <3>2. /\ Len(r) = Len(q) + 1
          /\ \A j \in 1 .. Len(q) + 1 :
               r[j] = IF j < i + 1 THEN q[j] ELSE IF j = i + 1 THEN t ELSE q[j - 1]
      <4> HIDE DEF r
      <4>1. /\ Len(r) = Len(q) + 1
            /\ \A j \in 1 .. Len(q) + 1 :
                 r[j] = IF j < i + 1 THEN q[j] ELSE IF j = i + 1 THEN t ELSE q[j - 1]
        BY <3>1, Inserted
      <4> QED
        BY <4>1
    <3> HIDE DEF r
    <3> QED
      BY <3>2
  <2> QED
    BY <2>1, <2>2
<1> HIDE DEF r
<1>3. Len(q) \in Nat
  OBVIOUS
<1>4. \A j \in 0 .. Len(q) + 2 :
        NodeAt(r, j) = IF j <= i THEN NodeAt(q, j) ELSE IF j = i + 1 THEN t ELSE NodeAt(q, j - 1)
  BY <1>2, <1>3 DEF NodeAt
<1> QED
  BY <1>1, <1>2, <1>4 DEF r

\* rt_list_insert_after puts a timer that is on neither list behind the i-th node.
LEMMA InsertLinked ==
  ASSUME NEW l, NEW q, NEW f, Linked(l, q, f), NEW t \in Timers, ~Contains(q, t), t # f,
         NEW i \in 0 .. Len(q)
  PROVE  Linked(rt_list_insert_after(l, NodeAt(q, i), t), PutBehind(q, i, t), f)
<1> DEFINE at == NodeAt(q, i)
           r == rt_list_insert_after(l, at, t)
           s == PutBehind(q, i, t)
<1>1. /\ l \in PointerLists /\ t \in Nodes /\ q \in Seq(Timers) /\ IsInjective(q)
  BY NodeFacts DEF Linked
<1>2. /\ Len(q) \in Nat
      /\ \A j \in Int : NodeAt(q, j) \in Nodes /\ NodeAt(q, j) # Temp /\ NodeAt(q, j) # t
      /\ \A j, k \in 0 .. Len(q) : NodeAt(q, j) = NodeAt(q, k) => j = k
      /\ NodeAt(q, 0) = ListHead /\ NodeAt(q, Len(q) + 1) = ListHead
      /\ \A j \in 0 .. Len(q) : l.next[NodeAt(q, j)] = NodeAt(q, j + 1)
                                /\ l.prev[NodeAt(q, j + 1)] = NodeAt(q, j)
  BY <1>1, NodeAtFacts DEF Linked
<1>3. /\ r \in PointerLists
      /\ \A x \in Nodes :
           /\ r.next[x] = IF x = at THEN t ELSE IF x = t THEN NodeAt(q, i + 1) ELSE l.next[x]
           /\ r.prev[x] = IF x = t THEN at ELSE IF x = NodeAt(q, i + 1) THEN t ELSE l.prev[x]
  <2>1. at \in Nodes /\ at # t /\ l.next[at] = NodeAt(q, i + 1)
    BY <1>2
  <2> HIDE DEF at
  <2> QED
    BY <1>1, <2>1, InsertPointers
<1> HIDE DEF r
<1>4. /\ s \in Seq(Timers) /\ Len(s) = Len(q) + 1 /\ IsInjective(s)
      /\ \A u : Contains(s, u) <=> Contains(q, u) \/ u = t
      /\ \A j \in 0 .. Len(q) + 2 :
           NodeAt(s, j) = IF j <= i THEN NodeAt(q, j) ELSE IF j = i + 1 THEN t ELSE NodeAt(q, j - 1)
  BY <1>1, InsertedNodes
<1> HIDE DEF s
<1>5. \A j \in 0 .. Len(q) : NodeAt(q, j + 1) = NodeAt(q, i + 1) => j = i
  <2>1. \A j \in 0 .. Len(q) : NodeAt(q, j + 1) = NodeAt(q, IF j = Len(q) THEN 0 ELSE j + 1)
    BY <1>2
  <2> QED
    BY <1>2, <2>1
<1>6. \A j \in 0 .. Len(q) : j # i =>
        /\ r.next[NodeAt(q, j)] = NodeAt(q, j + 1) /\ r.prev[NodeAt(q, j + 1)] = NodeAt(q, j)
  <2> SUFFICES ASSUME NEW j \in 0 .. Len(q), j # i
               PROVE  /\ r.next[NodeAt(q, j)] = NodeAt(q, j + 1)
                      /\ r.prev[NodeAt(q, j + 1)] = NodeAt(q, j)
    OBVIOUS
  <2>1. /\ NodeAt(q, j) \in Nodes /\ NodeAt(q, j + 1) \in Nodes
        /\ l.next[NodeAt(q, j)] = NodeAt(q, j + 1) /\ l.prev[NodeAt(q, j + 1)] = NodeAt(q, j)
        /\ NodeAt(q, j) # t /\ NodeAt(q, j + 1) # t
    BY <1>2
  <2>2. NodeAt(q, j) # at /\ NodeAt(q, j + 1) # NodeAt(q, i + 1)
    BY <1>2, <1>5
  <2> QED
    BY <1>3, <2>1, <2>2
<1>7. /\ r.next[at] = t /\ r.prev[t] = at
      /\ r.next[t] = NodeAt(q, i + 1) /\ r.prev[NodeAt(q, i + 1)] = t
  BY <1>1, <1>2, <1>3
<1>8. \A j \in 0 .. Len(s) : /\ r.next[NodeAt(s, j)] = NodeAt(s, j + 1)
                             /\ r.prev[NodeAt(s, j + 1)] = NodeAt(s, j)
  <2> SUFFICES ASSUME NEW j \in 0 .. Len(s)
               PROVE  /\ r.next[NodeAt(s, j)] = NodeAt(s, j + 1)
                      /\ r.prev[NodeAt(s, j + 1)] = NodeAt(s, j)
    OBVIOUS
  <2>1. CASE j < i
    <3>1. NodeAt(s, j) = NodeAt(q, j) /\ NodeAt(s, j + 1) = NodeAt(q, j + 1)
      BY <1>2, <1>4, <2>1
    <3> QED
      BY <1>6, <2>1, <3>1
  <2>2. CASE j = i
    <3>1. NodeAt(s, j) = at /\ NodeAt(s, j + 1) = t
      BY <1>2, <1>4, <2>2
    <3> QED
      BY <1>7, <3>1
  <2>3. CASE j = i + 1
    <3>1. NodeAt(s, j) = t /\ NodeAt(s, j + 1) = NodeAt(q, i + 1)
      BY <1>2, <1>4, <2>3
    <3> QED
      BY <1>7, <3>1
  <2>4. CASE j > i + 1
    <3>1. NodeAt(s, j) = NodeAt(q, j - 1) /\ NodeAt(s, j + 1) = NodeAt(q, (j - 1) + 1)
      BY <1>2, <1>4, <2>4
    <3>2. j - 1 \in 0 .. Len(q) /\ j - 1 # i
      BY <1>2, <1>4, <2>4
    <3> QED
      BY <1>6, <3>1, <3>2
  <2> QED
    BY <2>1, <2>2, <2>3, <2>4
<1>9. \A x \in Nodes : x # t /\ x # ListHead /\ ~Contains(q, x) =>
        r.next[x] = l.next[x] /\ r.prev[x] = l.prev[x]
  <2>1. \A x \in Nodes : x # ListHead /\ ~Contains(q, x) => \A j \in Int : NodeAt(q, j) # x
    BY <1>1, NodeAtFacts DEF NodeAt
  <2> QED
    BY <1>2, <1>3, <2>1
<1>10. ~Contains(q, Temp) /\ Temp # t /\ Temp \in Nodes /\ Temp # ListHead
  BY <1>1, NodeAtFacts, NodeFacts
<1>11. f = None => SelfLinked(r, Temp)
  BY <1>9, <1>10 DEF Linked, SelfLinked
<1>12. f # None => /\ f \in Timers /\ ~Contains(s, f)
                   /\ r.next[Temp] = f /\ r.prev[Temp] = f
                   /\ r.next[f] = Temp /\ r.prev[f] = Temp
  BY <1>4, <1>9, <1>10, NodeFacts DEF Linked
<1>13. \A x \in Nodes : x = ListHead \/ x = Temp \/ x = f \/ Contains(s, x) \/ SelfLinked(r, x)
  BY <1>4, <1>9 DEF Linked, SelfLinked
<1> QED
  BY <1>3, <1>4, <1>8, <1>11, <1>12, <1>13 DEF Linked, r, s

\* rt_timer_check puts a timer that it has taken off the list on Temp.
LEMMA TempLinked ==
  ASSUME NEW l, NEW q, Linked(l, q, None), NEW t \in Timers, ~Contains(q, t)
  PROVE  Linked(rt_list_insert_after(l, Temp, t), q, t)
<1> DEFINE r == rt_list_insert_after(l, Temp, t)
<1>1. /\ l \in PointerLists /\ t \in Nodes /\ q \in Seq(Timers) /\ IsInjective(q)
      /\ Temp \in Nodes /\ Temp # t /\ t # None /\ t # ListHead /\ Temp # ListHead
      /\ l.next[Temp] = Temp /\ l.prev[Temp] = Temp
  BY NodeFacts DEF Linked, SelfLinked
<1>2. /\ r \in PointerLists
      /\ \A x \in Nodes :
           /\ r.next[x] = IF x = Temp THEN t ELSE IF x = t THEN Temp ELSE l.next[x]
           /\ r.prev[x] = IF x = t THEN Temp ELSE IF x = Temp THEN t ELSE l.prev[x]
  BY <1>1, InsertPointers
<1> HIDE DEF r
<1>3. \A j \in Int : NodeAt(q, j) \in Nodes /\ NodeAt(q, j) # Temp /\ NodeAt(q, j) # t
  BY <1>1, NodeAtFacts
<1>4. \A j \in 0 .. Len(q) : /\ r.next[NodeAt(q, j)] = NodeAt(q, j + 1)
                             /\ r.prev[NodeAt(q, j + 1)] = NodeAt(q, j)
  <2>1. \A j \in 0 .. Len(q) : /\ j \in Int /\ j + 1 \in Int
                               /\ l.next[NodeAt(q, j)] = NodeAt(q, j + 1)
                               /\ l.prev[NodeAt(q, j + 1)] = NodeAt(q, j)
    BY <1>1 DEF Linked
  <2> QED
    BY <1>2, <1>3, <2>1
<1>5. /\ r.next[Temp] = t /\ r.prev[Temp] = t /\ r.next[t] = Temp /\ r.prev[t] = Temp
  BY <1>1, <1>2
<1>6. \A x \in Nodes : x = ListHead \/ x = Temp \/ x = t \/ Contains(q, x) \/ SelfLinked(r, x)
  <2>1. \A x \in Nodes : x = ListHead \/ x = Temp \/ x = t \/ Contains(q, x) \/ SelfLinked(l, x)
    BY NodeFacts DEF Linked
  <2> QED
    BY <1>2, <2>1 DEF SelfLinked
<1> QED
  BY <1>1, <1>2, <1>4, <1>5, <1>6 DEF Linked, r

-----------------------------------------------------------------------------
(* Going through the list.                                                 *)

OnRing(q, n) == n = ListHead \/ Contains(q, n)

LEMMA RingFacts ==
  ASSUME NEW l, NEW q, NEW f, Linked(l, q, f)
  PROVE  /\ \A n \in Nodes : OnRing(q, n) => \E i \in 0 .. Len(q) : n = NodeAt(q, i)
         /\ \A i \in Int : OnRing(q, NodeAt(q, i))
         /\ \A n \in Nodes : ~OnRing(q, n) => /\ l.next[n] \in Nodes /\ ~OnRing(q, l.next[n])
                                              /\ l.next[l.next[n]] = n
<1>1. q \in Seq(Timers) /\ IsInjective(q) /\ Len(q) \in Nat
  BY DEF Linked
<1>2. /\ \A n \in Nodes : OnRing(q, n) => \E i \in 0 .. Len(q) : n = NodeAt(q, i)
      /\ \A i \in Int : OnRing(q, NodeAt(q, i))
  BY <1>1, NodeAtFacts DEF OnRing, NodeAt
<1>3. ~Contains(q, Temp)
  BY <1>1, NodeAtFacts, NodeFacts
<1>4. ASSUME NEW n \in Nodes, ~OnRing(q, n)
      PROVE  l.next[n] \in Nodes /\ ~OnRing(q, l.next[n]) /\ l.next[l.next[n]] = n
  <2>1. SelfLinked(l, n) \/ (f # None /\ n \in {f, Temp})
    BY <1>4, NodeFacts DEF Linked, OnRing
  <2> QED
    BY <1>3, <1>4, <2>1, NodeFacts DEF Linked, OnRing, SelfLinked
<1> QED
  BY <1>2, <1>4

\* A walk from node to node that stops in the set Stop ends at the first such node of
\* the ring, ...
LEMMA WalkEnds ==
  ASSUME NEW l, NEW q, NEW f, Linked(l, q, f), NEW Stop, NodeAt(q, Len(q)) \in Stop,
         NEW w, \A n \in Nodes : w[n] = IF n \in Stop THEN n ELSE w[l.next[n]]
  PROVE  \E i \in 0 .. Len(q) : /\ w[ListHead] = NodeAt(q, i) /\ NodeAt(q, i) \in Stop
                                /\ \A j \in 0 .. i - 1 : NodeAt(q, j) \notin Stop
<1>1. /\ q \in Seq(Timers) /\ IsInjective(q) /\ Len(q) \in Nat
      /\ NodeAt(q, 0) = ListHead /\ \A i \in Int : NodeAt(q, i) \in Nodes
      /\ \A i \in 0 .. Len(q) : l.next[NodeAt(q, i)] = NodeAt(q, i + 1)
  BY NodeAtFacts DEF Linked
<1> DEFINE T == {j \in 0 .. Len(q) : NodeAt(q, j) \in Stop}
<1>2. T \subseteq Nat /\ T # {}
  BY <1>1
<1>3. PICK i \in T : \A j \in T : i <= j
  BY <1>2, LeastNatural
<1>4. i \in 0 .. Len(q) /\ NodeAt(q, i) \in Stop /\ \A j \in 0 .. i - 1 : NodeAt(q, j) \notin Stop
  BY <1>1, <1>3
<1> DEFINE B == {m \in 0 .. i : w[NodeAt(q, i - m)] # NodeAt(q, i)}
<1>5. B = {}
  <2> SUFFICES ASSUME B # {}
               PROVE  FALSE
    OBVIOUS
  <2>1. B \subseteq Nat
    OBVIOUS
  <2>2. PICK m \in B : \A k \in B : m <= k
    BY <2>1, LeastNatural
  <2>3. m \in 0 .. i /\ w[NodeAt(q, i - m)] # NodeAt(q, i) /\ NodeAt(q, i - m) \in Nodes
    BY <1>1, <1>4, <2>2
  <2>4. CASE m = 0
    <3>1. i - m = i
      BY <1>4, <2>4
    <3> QED
      BY <1>4, <2>3, <3>1
  <2>5. CASE m > 0
    <3>1. m - 1 \in 0 .. i /\ m - 1 \notin B
      BY <1>4, <2>2, <2>3, <2>5
    <3>2. w[NodeAt(q, i - (m - 1))] = NodeAt(q, i)
      BY <3>1
    <3>3. i - m \in 0 .. i - 1 /\ i - (m - 1) = (i - m) + 1 /\ i - m \in 0 .. Len(q)
      BY <1>1, <1>4, <2>3, <2>5
    <3>4. NodeAt(q, i - m) \notin Stop /\ l.next[NodeAt(q, i - m)] = NodeAt(q, (i - m) + 1)
      BY <1>1, <1>4, <3>3
    <3>5. w[NodeAt(q, i - m)] = w[NodeAt(q, (i - m) + 1)]
      BY <2>3, <3>4
    <3> QED
      BY <2>3, <3>2, <3>3, <3>5
  <2> QED
    BY <1>4, <2>3, <2>4, <2>5
<1>6. i \in 0 .. i /\ i - i = 0
  BY <1>4
<1>7. w[ListHead] = NodeAt(q, i)
  BY <1>1, <1>5, <1>6
<1> QED
  BY <1>4, <1>7

\* ... and there is such a walk.
LEMMA WalkExists ==
  ASSUME NEW l, NEW q, NEW f, Linked(l, q, f), NEW Stop, NodeAt(q, Len(q)) \in Stop
  PROVE  \E w : /\ w = [n \in Nodes |-> w[n]]
                /\ \A n \in Nodes : w[n] = IF n \in Stop THEN n ELSE w[l.next[n]]
<1>1. /\ q \in Seq(Timers) /\ IsInjective(q) /\ Len(q) \in Nat /\ l \in PointerLists
      /\ \A i \in Int : NodeAt(q, i) \in Nodes
      /\ \A i, j \in 0 .. Len(q) : NodeAt(q, i) = NodeAt(q, j) => i = j
      /\ \A i \in 0 .. Len(q) : l.next[NodeAt(q, i)] = NodeAt(q, i + 1)
  BY NodeAtFacts DEF Linked
<1> DEFINE Ends(n, m) == \E i, j \in 0 .. Len(q) :
                           /\ i <= j /\ n = NodeAt(q, i) /\ m = NodeAt(q, j) /\ m \in Stop
                           /\ \A k \in i .. j - 1 : NodeAt(q, k) \notin Stop
           w == [n \in Nodes |->
                   IF n \in Stop THEN n
                   ELSE IF OnRing(q, n) THEN CHOOSE m : Ends(n, m)
                   ELSE IF l.next[n] \in Stop THEN l.next[n] ELSE Temp]
<1>2. ASSUME NEW n \in Nodes, n \notin Stop, OnRing(q, n)
      PROVE  /\ OnRing(q, l.next[n]) /\ l.next[n] \in Nodes
             /\ \A m : Ends(n, m) <=> Ends(l.next[n], m)
  <2>1. PICK i \in 0 .. Len(q) : n = NodeAt(q, i)
    BY <1>2, RingFacts
  <2>2. i + 1 \in 0 .. Len(q)
    BY <1>1, <1>2, <2>1
  <2>3. l.next[n] = NodeAt(q, i + 1) /\ OnRing(q, l.next[n]) /\ l.next[n] \in Nodes
    <3>1. l.next[n] = NodeAt(q, i + 1)
      BY <1>1, <2>1
    <3>2. i + 1 \in Int /\ NodeAt(q, i + 1) \in Nodes
      BY <1>1
    <3>3. OnRing(q, NodeAt(q, i + 1))
      BY <3>2, RingFacts
    <3> QED
      BY <3>1, <3>2, <3>3
  <2>4. ASSUME NEW m, Ends(n, m)
        PROVE  Ends(l.next[n], m)
    <3>1. PICK ii, j \in 0 .. Len(q) :
                 /\ ii <= j /\ n = NodeAt(q, ii) /\ m = NodeAt(q, j) /\ m \in Stop
                 /\ \A k \in ii .. j - 1 : NodeAt(q, k) \notin Stop
      BY <2>4
    <3>2. ii = i /\ j # i
      BY <1>1, <1>2, <2>1, <3>1
    <3>3. i + 1 <= j /\ \A k \in i + 1 .. j - 1 : NodeAt(q, k) \notin Stop
      BY <1>1, <3>1, <3>2
    <3> QED
      BY <2>2, <2>3, <3>1, <3>3
  <2>5. ASSUME NEW m, Ends(l.next[n], m)
        PROVE  Ends(n, m)
    <3>1. PICK ii, j \in 0 .. Len(q) :
                 /\ ii <= j /\ l.next[n] = NodeAt(q, ii) /\ m = NodeAt(q, j) /\ m \in Stop
                 /\ \A k \in ii .. j - 1 : NodeAt(q, k) \notin Stop
      BY <2>5
    <3>2. ii = i + 1
      BY <1>1, <2>2, <2>3, <3>1
    <3>3. NodeAt(q, i) \notin Stop /\ i <= j
      BY <1>2, <2>1, <3>1, <3>2
    <3>4. \A k \in i .. j - 1 : k = i \/ k \in ii .. j - 1
      BY <3>2
    <3>5. i <= j /\ \A k \in i .. j - 1 : NodeAt(q, k) \notin Stop
      BY <3>1, <3>3, <3>4
    <3> QED
      BY <2>1, <3>1, <3>5
  <2> QED
    BY <2>3, <2>4, <2>5
<1>3. \A n \in Nodes \cap Stop : OnRing(q, n) => \A m : Ends(n, m) <=> m = n
  <2> SUFFICES ASSUME NEW n \in Nodes \cap Stop, OnRing(q, n), NEW m
               PROVE  Ends(n, m) <=> m = n
    OBVIOUS
  <2>1. PICK i \in 0 .. Len(q) : n = NodeAt(q, i)
    BY RingFacts
  <2>2. Ends(n, m) => m = n
    <3> SUFFICES ASSUME Ends(n, m)
                 PROVE  m = n
      OBVIOUS
    <3>1. PICK ii, j \in 0 .. Len(q) :
                 /\ ii <= j /\ n = NodeAt(q, ii) /\ m = NodeAt(q, j) /\ m \in Stop
                 /\ \A k \in ii .. j - 1 : NodeAt(q, k) \notin Stop
      OBVIOUS
    <3>2. ~(ii < j)
      BY <1>1, <3>1
    <3> QED
      BY <1>1, <3>1, <3>2
  <2>3. Ends(n, n)
    <3>1. i <= i /\ \A k \in i .. i - 1 : NodeAt(q, k) \notin Stop
      BY <1>1
    <3> QED
      BY <2>1, <3>1
  <2> QED
    BY <2>2, <2>3
<1> HIDE DEF Ends
<1>4. ASSUME NEW n \in Nodes
      PROVE  w[n] = IF n \in Stop THEN n ELSE w[l.next[n]]
  <2>1. CASE n \in Stop
    BY <2>1
  <2>2. CASE n \notin Stop /\ OnRing(q, n)
    <3> DEFINE x == l.next[n]
    <3>1. x \in Nodes /\ OnRing(q, x) /\ \A m : Ends(n, m) <=> Ends(x, m)
      BY <1>2, <2>2
    <3>2. w[n] = CHOOSE m : Ends(n, m)
      BY <2>2
    <3>3. w[x] = CHOOSE m : Ends(x, m)
      <4>1. CASE x \notin Stop
        BY <3>1, <4>1
      <4>2. CASE x \in Stop
        <5>1. \A m : Ends(x, m) <=> m = x
          BY <1>3, <3>1, <4>2
        <5>2. w[x] = x
          BY <3>1, <4>2
        <5> HIDE DEF w, x
        <5> QED
          BY <5>1, <5>2
      <4> QED
        BY <4>1, <4>2
    <3>4. (CHOOSE m : Ends(n, m)) = (CHOOSE m : Ends(x, m))
      BY <3>1
    <3> QED
      BY <2>2, <3>2, <3>3, <3>4
  <2>3. CASE n \notin Stop /\ ~OnRing(q, n)
    <3>1. l.next[n] \in Nodes /\ ~OnRing(q, l.next[n]) /\ l.next[l.next[n]] = n
      BY <2>3, RingFacts
    <3> QED
      BY <2>3, <3>1
  <2> QED
    BY <2>1, <2>2, <2>3
<1>5. w = [n \in Nodes |-> w[n]]
  OBVIOUS
<1> HIDE DEF w
<1> QED
  BY <1>4, <1>5

\* Where rt_timer_start inserts: before the first timer that is to go off later.
LEMMA PlaceFacts ==
  ASSUME NEW l, NEW q, NEW f, Linked(l, q, f), NEW timeouts, NEW due
  PROVE  \E i \in 0 .. Len(q) :
           /\ Place(l, timeouts, due) = NodeAt(q, i)
           /\ \A j \in 1 .. i : ~Later(timeouts[q[j]], due)
           /\ i < Len(q) => Later(timeouts[q[i + 1]], due)
<1> DEFINE Stop == {n \in Nodes : n = l.prev[ListHead] \/ Later(Timeout(timeouts, l.next[n]), due)}
<1>1. /\ q \in Seq(Timers) /\ IsInjective(q) /\ Len(q) \in Nat
      /\ NodeAt(q, 0) = ListHead /\ NodeAt(q, Len(q) + 1) = ListHead
      /\ \A i \in Int : NodeAt(q, i) \in Nodes
      /\ \A i, j \in 0 .. Len(q) : NodeAt(q, i) = NodeAt(q, j) => i = j
      /\ \A i \in 0 .. Len(q) : l.next[NodeAt(q, i)] = NodeAt(q, i + 1)
      /\ l.prev[NodeAt(q, Len(q) + 1)] = NodeAt(q, Len(q))
      /\ \A i \in 1 .. Len(q) : NodeAt(q, i) = q[i] /\ q[i] \in Timers
  BY NodeAtFacts DEF Linked
<1>2. NodeAt(q, Len(q)) \in Stop
  BY <1>1
<1>3. \A i \in 0 .. Len(q) - 1 : NodeAt(q, i) \in Stop <=> Later(timeouts[q[i + 1]], due)
  BY <1>1 DEF Timeout
<1> DEFINE w == CHOOSE v : v = [n \in Nodes |-> IF n \in Stop THEN n ELSE v[l.next[n]]]
<1>4. Place(l, timeouts, due) = w[ListHead]
  BY DEF Place
<1> HIDE DEF Stop
<1>5. w = [n \in Nodes |-> IF n \in Stop THEN n ELSE w[l.next[n]]]
  <2>1. PICK v : /\ v = [n \in Nodes |-> v[n]]
                 /\ \A n \in Nodes : v[n] = IF n \in Stop THEN n ELSE v[l.next[n]]
    BY <1>2, WalkExists
  <2>2. v = [n \in Nodes |-> IF n \in Stop THEN n ELSE v[l.next[n]]]
    BY <2>1
  <2> QED
    BY <2>2, Zenon
<1> HIDE DEF w
<1>9. \A n \in Nodes : w[n] = IF n \in Stop THEN n ELSE w[l.next[n]]
  <2> DEFINE v == [n \in Nodes |-> IF n \in Stop THEN n ELSE w[l.next[n]]]
  <2>1. \A n \in Nodes : v[n] = IF n \in Stop THEN n ELSE w[l.next[n]]
    OBVIOUS
  <2>2. w = v
    BY <1>5
  <2> HIDE DEF v
  <2> QED
    BY <2>1, <2>2
<1>6. PICK i \in 0 .. Len(q) : /\ w[ListHead] = NodeAt(q, i) /\ NodeAt(q, i) \in Stop
                               /\ \A j \in 0 .. i - 1 : NodeAt(q, j) \notin Stop
  BY <1>2, <1>9, WalkEnds
<1>7. \A j \in 1 .. i : ~Later(timeouts[q[j]], due)
  <2> SUFFICES ASSUME NEW j \in 1 .. i
               PROVE  ~Later(timeouts[q[j]], due)
    OBVIOUS
  <2>1. j - 1 \in 0 .. Len(q) - 1 /\ j - 1 \in 0 .. i - 1 /\ (j - 1) + 1 = j
    BY <1>1
  <2> QED
    BY <1>3, <1>6, <2>1
<1>8. i < Len(q) => Later(timeouts[q[i + 1]], due)
  BY <1>1, <1>3, <1>6
<1> QED
  BY <1>4, <1>6, <1>7, <1>8

LEMMA StepsExist ==
  ASSUME NEW next, NEW n \in Nat
  PROVE  \E w : /\ w = [i \in 0 .. n |-> w[i]]
                /\ \A i \in 0 .. n : w[i] = IF i = 0 THEN ListHead ELSE next[w[i - 1]]
<1> DEFINE Steps(w, m) == /\ w = [i \in 0 .. m |-> w[i]]
                          /\ \A i \in 0 .. m : w[i] = IF i = 0 THEN ListHead ELSE next[w[i - 1]]
           B == {m \in Nat : \A w : ~Steps(w, m)}
<1>1. B = {}
  <2> SUFFICES ASSUME B # {}
               PROVE  FALSE
    OBVIOUS
  <2>1. B \subseteq Nat
    OBVIOUS
  <2>2. PICK m \in B : \A k \in B : m <= k
    BY <2>1, LeastNatural
  <2>3. CASE m = 0
    <3> DEFINE w == [i \in 0 .. 0 |-> ListHead]
    <3>1. Steps(w, 0)
      OBVIOUS
    <3> HIDE DEF w, Steps
    <3> QED
      BY <2>2, <2>3, <3>1
  <2>4. CASE m # 0
    <3>1. m - 1 \in Nat /\ m - 1 \notin B
      BY <2>2, <2>4
    <3>2. PICK v : Steps(v, m - 1)
      BY <3>1
    <3> DEFINE w == [i \in 0 .. m |-> IF i = m THEN next[v[m - 1]] ELSE v[i]]
    <3>3. \A i \in 0 .. m : w[i] = IF i = 0 THEN ListHead ELSE next[w[i - 1]]
      <4> SUFFICES ASSUME NEW i \in 0 .. m
                   PROVE  w[i] = IF i = 0 THEN ListHead ELSE next[w[i - 1]]
        OBVIOUS
      <4>1. CASE i = m
        BY <2>4, <3>1, <4>1
      <4>2. CASE i # m
        <5>1. i \in 0 .. m - 1 /\ w[i] = v[i] /\ (i # 0 => i - 1 \in 0 .. m - 1 /\ w[i - 1] = v[i - 1])
          BY <3>1, <4>2
        <5>2. v[i] = IF i = 0 THEN ListHead ELSE next[v[i - 1]]
          BY <3>2, <5>1
        <5> HIDE DEF w, Steps
        <5> QED
          BY <5>1, <5>2
      <4> QED
        BY <4>1, <4>2
    <3>4. w = [i \in 0 .. m |-> w[i]]
      OBVIOUS
    <3> HIDE DEF w
    <3>5. Steps(w, m)
      BY <3>3, <3>4
    <3> HIDE DEF Steps
    <3> QED
      BY <2>2, <3>5
  <2> QED
    BY <2>3, <2>4
<1>2. n \notin B
  BY <1>1
<1>3. PICK w : Steps(w, n)
  BY <1>2
<1> QED
  BY <1>3

LEMMA ReachedSteps ==
  /\ Reached[0] = ListHead
  /\ \A i \in 1 .. Cardinality(Timers) + 1 : Reached[i] = list.next[Reached[i - 1]]
<1>1. Cardinality(Timers) \in Nat
  BY TimersAssumption, FS_CardinalityType
<1> DEFINE n == Cardinality(Timers) + 1
           w == CHOOSE v : v = [i \in 0 .. n |-> IF i = 0 THEN ListHead ELSE list.next[v[i - 1]]]
<1>2. Reached = w
  BY DEF Reached
<1>3. n \in Nat
  BY <1>1
<1> HIDE DEF n
<1>4. w = [i \in 0 .. n |-> IF i = 0 THEN ListHead ELSE list.next[w[i - 1]]]
  <2>1. PICK next : next = list.next
    OBVIOUS
  <2>2. PICK v : /\ v = [i \in 0 .. n |-> v[i]]
                 /\ \A i \in 0 .. n : v[i] = IF i = 0 THEN ListHead ELSE next[v[i - 1]]
    BY <1>3, StepsExist
  <2>3. v = [i \in 0 .. n |-> IF i = 0 THEN ListHead ELSE list.next[v[i - 1]]]
    BY <2>1, <2>2
  <2> QED
    BY <2>3, Zenon
<1> HIDE DEF w
<1>5. \A i \in 0 .. n : w[i] = IF i = 0 THEN ListHead ELSE list.next[w[i - 1]]
  <2> DEFINE v == [i \in 0 .. n |-> IF i = 0 THEN ListHead ELSE list.next[w[i - 1]]]
  <2>1. \A i \in 0 .. n : v[i] = IF i = 0 THEN ListHead ELSE list.next[w[i - 1]]
    OBVIOUS
  <2>2. w = v
    BY <1>4
  <2> HIDE DEF v
  <2> QED
    BY <2>1, <2>2
<1> QED
  BY <1>2, <1>3, <1>5 DEF n

LEMMA ReachedRing ==
  ASSUME NEW q, NEW f, Linked(list, q, f)
  PROVE  /\ Len(q) <= Cardinality(Timers) /\ Cardinality(Timers) \in Nat
         /\ \A i \in 0 .. Len(q) + 1 : Reached[i] = NodeAt(q, i)
<1>1. /\ q \in Seq(Timers) /\ IsInjective(q) /\ Len(q) \in Nat
      /\ NodeAt(q, 0) = ListHead
      /\ \A i \in 0 .. Len(q) : list.next[NodeAt(q, i)] = NodeAt(q, i + 1)
  BY NodeAtFacts DEF Linked
<1>2. Cardinality(Timers) \in Nat
  BY TimersAssumption, FS_CardinalityType
<1>3. Len(q) <= Cardinality(Timers)
  <2>1. q \in Injection(1 .. Len(q), Timers)
    BY <1>1 DEF Injection, IsInjective
  <2>2. Cardinality(1 .. Len(q)) <= Cardinality(Timers)
    BY <2>1, TimersAssumption, FS_Injection
  <2>3. Cardinality(1 .. Len(q)) = Len(q)
    BY <1>1, FS_Interval
  <2> QED
    BY <2>2, <2>3
<1>4. \A i \in 1 .. Len(q) + 1 : Reached[i] = list.next[Reached[i - 1]]
  BY <1>1, <1>2, <1>3, ReachedSteps
<1> DEFINE B == {i \in 0 .. Len(q) + 1 : Reached[i] # NodeAt(q, i)}
<1>5. B = {}
  <2> SUFFICES ASSUME B # {}
               PROVE  FALSE
    OBVIOUS
  <2>1. B \subseteq Nat
    OBVIOUS
  <2>2. PICK m \in B : \A k \in B : m <= k
    BY <2>1, LeastNatural
  <2>3. CASE m = 0
    BY <1>1, <2>2, <2>3, ReachedSteps
  <2>4. CASE m # 0
    <3>1. m - 1 \in 0 .. Len(q) /\ m \in 1 .. Len(q) + 1 /\ (m - 1) + 1 = m /\ m - 1 \notin B
      BY <1>1, <2>2, <2>4
    <3>2. Reached[m - 1] = NodeAt(q, m - 1)
      BY <3>1
    <3>3. list.next[NodeAt(q, m - 1)] = NodeAt(q, m)
      BY <1>1, <3>1
    <3> QED
      BY <1>4, <2>2, <3>1, <3>2, <3>3
  <2> QED
    BY <2>3, <2>4
<1> QED
  BY <1>2, <1>3, <1>5

\* Queue is the sequence of the timers on the list.
LEMMA QueueIs ==
  ASSUME NEW q, NEW f, Linked(list, q, f)
  PROVE  Queue = q
<1>1. /\ q \in Seq(Timers) /\ IsInjective(q) /\ Len(q) \in Nat
      /\ NodeAt(q, Len(q) + 1) = ListHead /\ ListHead \notin Timers
      /\ \A i \in 1 .. Len(q) : NodeAt(q, i) = q[i] /\ q[i] \in Timers
  BY NodeAtFacts, NodeFacts DEF Linked
<1>2. /\ Len(q) <= Cardinality(Timers) /\ Cardinality(Timers) \in Nat
      /\ \A i \in 0 .. Len(q) + 1 : Reached[i] = NodeAt(q, i)
  BY ReachedRing
<1> DEFINE Ends(i) == /\ i = Cardinality(Timers) \/ Reached[i + 1] \notin Timers
                      /\ \A j \in 1 .. i : Reached[j] \in Timers
           last == CHOOSE i \in 0 .. Cardinality(Timers) : Ends(i)
<1>3. Queue = [i \in 1 .. last |-> Reached[i]]
  BY DEF Queue
<1>4. Len(q) \in 0 .. Cardinality(Timers) /\ Ends(Len(q))
  BY <1>1, <1>2
<1>5. \A i \in 0 .. Cardinality(Timers) : Ends(i) => i = Len(q)
  <2> SUFFICES ASSUME NEW i \in 0 .. Cardinality(Timers), Ends(i)
               PROVE  i = Len(q)
    OBVIOUS
  <2>1. ~(i < Len(q))
    BY <1>1, <1>2
  <2>2. ~(i > Len(q))
    BY <1>1, <1>2
  <2> QED
    BY <1>1, <2>1, <2>2
<1> HIDE DEF Ends
<1>6. last = Len(q)
  BY <1>4, <1>5
<1> HIDE DEF last
<1>7. [i \in 1 .. Len(q) |-> Reached[i]] = [i \in 1 .. Len(q) |-> q[i]]
  BY <1>1, <1>2
<1>8. q = [i \in 1 .. Len(q) |-> q[i]]
  BY <1>1
<1> QED
  BY <1>3, <1>6, <1>7, <1>8

-----------------------------------------------------------------------------
(* The tick, and the ticks until a timeout.                                *)

Width == RT_TICK_MAX + 1

\* The ticks from the tick at to the timeout, -1 for a timeout of the last tick.
Offset(timeout_at, at) == Minus(timeout_at + 1, at) - 1

LEMMA WidthFacts ==
  /\ Width \in Nat \ {0} /\ Half \in Nat /\ Half >= 3 /\ Width >= 2 * Half + 1
  /\ Ticks = 0 .. Width - 1
BY TicksAssumption DEF Width, Half, Ticks

LEMMA MinusIs ==
  ASSUME NEW x \in Int, NEW y \in Int, -Width <= x - y, x - y < 2 * Width
  PROVE  Minus(x, y) = IF x - y < 0 THEN x - y + Width ELSE IF x - y < Width THEN x - y ELSE x - y - Width
<1> DEFINE z == x - y
<1>1. z \in Int /\ -Width <= z /\ z < 2 * Width
  OBVIOUS
<1>2. Minus(x, y) = Rem(z, Width)
  BY DEF Minus, Rem, Width
<1> HIDE DEF z
<1>3. Rem(z, Width) = IF z < 0 THEN z + Width ELSE IF z < Width THEN z ELSE z - Width
  BY <1>1, ModOnce, WidthFacts
<1> QED
  BY <1>2, <1>3 DEF z

LEMMA MinusTicks ==
  ASSUME NEW x \in Ticks, NEW y \in Ticks
  PROVE  /\ Minus(x, y) = IF x < y THEN x - y + Width ELSE x - y
         /\ Minus(x + 1, y) = IF x + 1 < y THEN x + 1 - y + Width
                              ELSE IF x + 1 - y < Width THEN x + 1 - y ELSE 0
<1>1. x \in 0 .. Width - 1 /\ y \in 0 .. Width - 1 /\ Width \in Nat
  BY WidthFacts
<1>2. Minus(x, y) = IF x - y < 0 THEN x - y + Width ELSE IF x - y < Width THEN x - y ELSE x - y - Width
  <2>1. x \in Int /\ y \in Int /\ -Width <= x - y /\ x - y < 2 * Width
    BY <1>1
  <2> QED
    BY <2>1, MinusIs
<1>3. Minus(x + 1, y) = IF x + 1 - y < 0 THEN x + 1 - y + Width
                        ELSE IF x + 1 - y < Width THEN x + 1 - y ELSE x + 1 - y - Width
  <2> DEFINE z == x + 1
  <2>1. z \in Int /\ y \in Int /\ -Width <= z - y /\ z - y < 2 * Width
    BY <1>1
  <2> HIDE DEF z
  <2>2. Minus(z, y) = IF z - y < 0 THEN z - y + Width
                      ELSE IF z - y < Width THEN z - y ELSE z - y - Width
    BY <2>1, MinusIs
  <2> QED
    BY <1>1, <2>2, WidthFacts DEF z, Minus
<1> QED
  BY <1>1, <1>2, <1>3

\* The offset of a timeout is the ticks to it but for one width.
LEMMA OffsetRange ==
  ASSUME NEW x \in Ticks, NEW at \in Ticks, NEW d, d = Offset(x, at)
  PROVE  d \in -1 .. Width - 2 /\ x - at \in {d, d - Width, d + Width}
<1>1. x \in 0 .. Width - 1 /\ at \in 0 .. Width - 1 /\ Width \in Nat
  BY WidthFacts
<1> QED
  BY <1>1, MinusTicks DEF Offset

\* A timer is due when its timeout is this tick or the last.
LEMMA OffsetDue ==
  ASSUME NEW x \in Ticks, NEW at \in Ticks, NEW d, d = Offset(x, at), d < Half
  PROVE  /\ Minus(at, x) < Half <=> d <= 0
         /\ d > 0 => Minus(x, at) = d
<1>1. d \in -1 .. Width - 2 /\ x - at \in {d, d - Width, d + Width}
  BY OffsetRange
<1>2. x \in 0 .. Width - 1 /\ at \in 0 .. Width - 1
  BY WidthFacts
<1>3. /\ Minus(x, at) = IF x < at THEN x - at + Width ELSE x - at
      /\ Minus(at, x) = IF at < x THEN at - x + Width ELSE at - x
  BY MinusTicks
<1> QED
  BY <1>1, <1>2, <1>3, WidthFacts

\* The timeout of a timer that is started for n ticks.
LEMMA OffsetStart ==
  ASSUME NEW at \in Ticks, NEW n \in 0 .. Half - 1
  PROVE  /\ (at + n) % (RT_TICK_MAX + 1) \in Ticks
         /\ Offset((at + n) % (RT_TICK_MAX + 1), at) = n
<1> DEFINE x == (at + n) % (RT_TICK_MAX + 1)
<1>1. x = Rem(at + n, Width)
  BY DEF Rem, Width
<1>2. at \in 0 .. Width - 1
  BY WidthFacts
<1>3. x = IF at + n < Width THEN at + n ELSE at + n - Width
  BY <1>1, <1>2, ModOnce, WidthFacts
<1> HIDE DEF x
<1>4. x \in Ticks
  BY <1>2, <1>3, WidthFacts
<1>5. Minus(x + 1, at) = IF x + 1 < at THEN x + 1 - at + Width
                         ELSE IF x + 1 - at < Width THEN x + 1 - at ELSE 0
  BY <1>4, MinusTicks
<1>6. Offset(x, at) = n
  BY <1>2, <1>3, <1>5, WidthFacts DEF Offset
<1> QED
  BY <1>4, <1>6 DEF x

\* A timer that is to go off later than in n ticks.
LEMMA OffsetLater ==
  ASSUME NEW at \in Ticks, NEW x \in Ticks, NEW d, d = Offset(x, at), d < Half,
         NEW y \in Ticks, NEW n \in 0 .. Half - 1, n = Offset(y, at)
  PROVE  Later(x, y) <=> n < d
<1>1. /\ d \in -1 .. Width - 2 /\ x - at \in {d, d - Width, d + Width}
      /\ y - at \in {n, n - Width, n + Width}
  BY OffsetRange
<1>2. x \in 0 .. Width - 1 /\ y \in 0 .. Width - 1 /\ at \in 0 .. Width - 1
  BY WidthFacts
<1>3. Minus(x, y) = IF x < y THEN x - y + Width ELSE x - y
  BY MinusTicks
<1> QED
  <2>1. Width \in Int /\ Half \in Int /\ Half >= 3 /\ Width >= 2 * Half + 1
    BY WidthFacts
  <2>2. Minus(x, y) \in 0 .. Width - 1
    BY <1>2, <1>3, <2>1
  <2>3. Minus(x, y) \in {d - n, d - n - Width, d - n + Width, d - n - 2 * Width, d - n + 2 * Width,
                         d - n - 3 * Width, d - n + 3 * Width}
    BY <1>1, <1>2, <1>3, <2>1
  <2>4. d - n \in -Half .. Half - 1
    BY <1>1, <2>1
  <2>5. Minus(x, y) = IF d < n THEN d - n + Width ELSE d - n
    BY <1>1, <2>1, <2>2, <2>3, <2>4
  <2> QED
    BY <1>1, <2>1, <2>4, <2>5 DEF Later

\* A tick brings every timeout nearer.
LEMMA OffsetTick ==
  ASSUME NEW x \in Ticks, NEW at \in Ticks, NEW d \in 0 .. Half - 1, d = Offset(x, at),
         NEW next, next = (at + 1) % (RT_TICK_MAX + 1)
  PROVE  Offset(x, next) = d - 1
<1>1. next = Rem(at + 1, Width)
  BY DEF Rem, Width
<1>2. x \in 0 .. Width - 1 /\ at \in 0 .. Width - 1
  BY WidthFacts
<1>3. next = IF at + 1 < Width THEN at + 1 ELSE at + 1 - Width
  BY <1>1, <1>2, ModOnce, WidthFacts
<1>4. next \in Ticks
  BY <1>2, <1>3, WidthFacts
<1>5. x - at \in {d, d - Width, d + Width}
  BY OffsetRange
<1>6. Minus(x + 1, next) = IF x + 1 < next THEN x + 1 - next + Width
                           ELSE IF x + 1 - next < Width THEN x + 1 - next ELSE 0
  BY <1>4, MinusTicks
<1> QED
  <2>1. Width \in Int /\ Half \in Int /\ Half >= 3 /\ Width >= 2 * Half + 1
    BY WidthFacts
  <2>2. next \in 0 .. Width - 1
    BY <1>2, <1>3, <2>1
  <2>3. x + 1 - next \in {d, d - Width, d + Width, d - 2 * Width, d + 2 * Width}
    BY <1>2, <1>3, <1>5, <2>1
  <2>4. Minus(x + 1, next) = d
    BY <1>2, <1>6, <2>1, <2>2, <2>3
  <2> QED
    BY <2>4 DEF Offset

LEMMA TickTicks ==
  ASSUME NEW at \in Ticks
  PROVE  (at + 1) % (RT_TICK_MAX + 1) \in Ticks
<1> DEFINE x == (at + 1) % (RT_TICK_MAX + 1)
<1>1. x = Rem(at + 1, Width) /\ at \in 0 .. Width - 1
  BY WidthFacts DEF Rem, Width
<1>2. x = IF at + 1 < Width THEN at + 1 ELSE at + 1 - Width
  BY <1>1, ModOnce, WidthFacts
<1> QED
  BY <1>1, <1>2, WidthFacts

-----------------------------------------------------------------------------
(* The order of the list.                                                  *)

Offsets(timeouts, at) == [t \in Timers |-> Offset(timeouts[t], at)]

\* The timers of q go off one after the other, in less than half the width of the tick.
InTime(q, offs) == InOrder(q, offs) /\ \A t \in Timers : Contains(q, t) => offs[t] < Half

LEMMA OffsetsFacts ==
  ASSUME NEW timeouts \in [Timers -> Ticks], NEW at \in Ticks
  PROVE  \A t \in Timers : /\ Offsets(timeouts, at)[t] = Offset(timeouts[t], at)
                           /\ Offsets(timeouts, at)[t] \in -1 .. Width - 2
                           /\ Offsets(timeouts, at)[t] \in Int
<1>1. \A t \in Timers : Offsets(timeouts, at)[t] = Offset(timeouts[t], at)
  BY DEF Offsets
<1>2. \A t \in Timers : Offset(timeouts[t], at) \in -1 .. Width - 2
  BY OffsetRange
<1> QED
  BY <1>1, <1>2, WidthFacts

\* InsertSorted puts t where a search from the front finds it.
LEMMA InsertSortedIs ==
  ASSUME NEW q \in Seq(Timers), NEW t, NEW key, NEW i \in 0 .. Len(q),
         \A j \in 1 .. i : ~(key[t] < key[q[j]]),
         i < Len(q) => key[t] < key[q[i + 1]]
  PROVE  InsertSorted(q, t, key) = PutBehind(q, i, t)
<1>1. Len(q) \in Nat
  OBVIOUS
<1>2. CASE i = Len(q)
  BY <1>1, <1>2 DEF InsertSorted, PutBehind
<1>3. CASE i < Len(q)
  <2>1. i + 1 \in 1 .. Len(q) /\ key[t] < key[q[i + 1]]
    BY <1>1, <1>3
  <2>2. /\ FirstLater(q, t, key) \in 1 .. Len(q)
        /\ key[t] < key[q[FirstLater(q, t, key)]]
        /\ \A j \in 1 .. FirstLater(q, t, key) - 1 : ~(key[t] < key[q[j]])
    BY <1>1, <2>1, FirstLaterPosition
  <2>3. FirstLater(q, t, key) = i + 1
    <3> DEFINE k == FirstLater(q, t, key)
    <3> HIDE DEF k
    <3>1. k \in 1 .. Len(q) /\ key[t] < key[q[k]] /\ \A j \in 1 .. k - 1 : ~(key[t] < key[q[j]])
      BY <2>2 DEF k
    <3>2. ~(k < i + 1)
      BY <1>1, <3>1
    <3>3. ~(k > i + 1)
      BY <1>1, <2>1, <3>1
    <3> QED
      BY <1>1, <3>1, <3>2, <3>3 DEF k
  <2> QED
    BY <1>3, <2>1, <2>3 DEF InsertSorted, PutBehind
<1> QED
  BY <1>1, <1>2, <1>3

Put(fun, t, n) == [fun EXCEPT ![t] = n]

\* What rt_timer_start makes of the list.
LEMMA StartFacts ==
  ASSUME NEW l, NEW q, NEW f, Linked(l, q, f), NEW t \in Timers,
         NEW timeouts \in [Timers -> Ticks], NEW at \in Ticks, NEW n \in 0 .. Half - 1,
         InTime(q, Offsets(timeouts, at)),
         NEW due, due = (at + n) % (RT_TICK_MAX + 1),
         NEW w, w = rt_list_remove(l, t),
         NEW later, later = Put(timeouts, t, due)
  PROVE  /\ due \in Ticks /\ later \in [Timers -> Ticks]
         /\ Offsets(later, at) = Put(Offsets(timeouts, at), t, n)
         /\ Linked(rt_list_insert_after(w, Place(w, timeouts, due), t),
                   InsertSorted(Unlink(q, t), t, Offsets(later, at)), IF t = f THEN None ELSE f)
         /\ InTime(InsertSorted(Unlink(q, t), t, Offsets(later, at)), Offsets(later, at))
<1> DEFINE q0 == Unlink(q, t)
           f0 == IF t = f THEN None ELSE f
           offs == Offsets(timeouts, at)
           offs2 == Offsets(later, at)
<1>0. later = [timeouts EXCEPT ![t] = due]
  BY DEF Put
<1>1. due \in Ticks /\ Offset(due, at) = n
  BY OffsetStart
<1>2. later \in [Timers -> Ticks]
  BY <1>0, <1>1
<1>3. \A u \in Timers : /\ offs[u] = Offset(timeouts[u], at) /\ offs[u] \in Int
                        /\ offs2[u] = Offset(later[u], at) /\ offs2[u] \in Int
  BY <1>0, <1>2, OffsetsFacts
<1>4. offs2 = [offs EXCEPT ![t] = n]
  <2>1. \A u \in Timers : offs2[u] = [offs EXCEPT ![t] = n][u]
    BY <1>0, <1>1, <1>3 DEF Offsets
  <2> QED
    BY <2>1 DEF Offsets
<1>5. q \in Seq(Timers) /\ IsInjective(q)
  BY DEF Linked
<1>6. Linked(w, q0, f0)
  BY RemoveLinked
<1>7. /\ q0 \in Seq(Timers) /\ IsInjective(q0)
      /\ \A u : Contains(q0, u) <=> Contains(q, u) /\ u # t
  BY <1>5, UnlinkElements
<1>8. t # f0
  BY NodeFacts
<1>9. InOrder(q0, offs) /\ \A u \in Timers : Contains(q0, u) => offs[u] < Half
  BY <1>5, <1>7, UnlinkInOrder DEF InTime
<1> HIDE DEF q0, f0, offs, offs2
<1>10. PICK i \in 0 .. Len(q0) :
         /\ Place(w, timeouts, due) = NodeAt(q0, i)
         /\ \A j \in 1 .. i : ~Later(timeouts[q0[j]], due)
         /\ i < Len(q0) => Later(timeouts[q0[i + 1]], due)
  BY <1>6, PlaceFacts
<1>11. Linked(rt_list_insert_after(w, Place(w, timeouts, due), t), PutBehind(q0, i, t), f0)
  BY <1>6, <1>7, <1>8, <1>10, InsertLinked
<1>12. \A j \in 1 .. Len(q0) :
         /\ q0[j] \in Timers /\ q0[j] # t
         /\ Later(timeouts[q0[j]], due) <=> n < offs[q0[j]]
         /\ offs2[q0[j]] = offs[q0[j]]
  <2> SUFFICES ASSUME NEW j \in 1 .. Len(q0)
               PROVE  /\ q0[j] \in Timers /\ q0[j] # t
                      /\ Later(timeouts[q0[j]], due) <=> n < offs[q0[j]]
                      /\ offs2[q0[j]] = offs[q0[j]]
    OBVIOUS
  <2>1. q0[j] \in Timers /\ Contains(q0, q0[j])
    BY <1>7 DEF Contains
  <2>2. q0[j] # t /\ offs[q0[j]] < Half
    BY <1>7, <1>9, <2>1
  <2>3. offs[q0[j]] = Offset(timeouts[q0[j]], at) /\ timeouts[q0[j]] \in Ticks
    BY <1>3, <2>1
  <2>4. Later(timeouts[q0[j]], due) <=> n < offs[q0[j]]
    BY <1>1, <2>2, <2>3, OffsetLater
  <2>5. offs2[q0[j]] = offs[q0[j]]
    BY <1>0, <1>3, <2>1, <2>2
  <2> QED
    BY <2>1, <2>2, <2>4, <2>5
<1>13. offs2[t] = n
  BY <1>0, <1>1, <1>3
<1>14. InsertSorted(q0, t, offs2) = PutBehind(q0, i, t)
  <2>1. \A j \in 1 .. i : ~(offs2[t] < offs2[q0[j]])
    BY <1>7, <1>10, <1>12, <1>13
  <2>2. i < Len(q0) => offs2[t] < offs2[q0[i + 1]]
    BY <1>7, <1>10, <1>12, <1>13
  <2> QED
    BY <1>7, <2>1, <2>2, InsertSortedIs
<1>15. InTime(InsertSorted(q0, t, offs2), offs2)
  <2>1. InOrder(q0, offs2)
    BY <1>7, <1>9, <1>12 DEF InOrder
  <2>2. InOrder(InsertSorted(q0, t, offs2), offs2)
    BY <1>3, <1>7, <2>1, InsertSortedInOrder
  <2>3. \A u : Contains(InsertSorted(q0, t, offs2), u) <=> Contains(q0, u) \/ u = t
    BY <1>7, InsertSortedElements
  <2>4. \A u \in Timers : u # t => offs2[u] = offs[u]
    BY <1>0, <1>3
  <2> QED
    <3>1. \A u \in Timers : Contains(InsertSorted(q0, t, offs2), u) => offs2[u] < Half
      <4> SUFFICES ASSUME NEW u \in Timers, Contains(InsertSorted(q0, t, offs2), u)
                   PROVE  offs2[u] < Half
        OBVIOUS
      <4>1. CASE u = t
        BY <1>13, <4>1, WidthFacts
      <4>2. CASE u # t
        BY <1>9, <2>3, <2>4, <4>2
      <4> QED
        BY <4>1, <4>2
    <3> QED
      BY <2>2, <3>1 DEF InTime
<1> QED
  BY <1>1, <1>2, <1>4, <1>11, <1>14, <1>15 DEF q0, f0, offs, offs2, Put

-----------------------------------------------------------------------------
(* The invariant of the timers.                                            *)

Offs == Offsets(timeout_tick, tick)

\* The timers q are on _timer_list, those and maybe f, the one on Temp, are to expire.
TimersAt(q, f) ==
  /\ Linked(list, q, f)
  /\ f # None => f = firing /\ f \in live
  /\ \A t \in Timers : Contains(q, t) => t \in armed
  /\ \A t \in armed : Contains(q, t) \/ t = f
  /\ InTime(q, Offs)
  /\ phase = "threads" => \A t \in Timers : Contains(q, t) => Offs[t] >= 0

TimerTypes ==
  /\ active \in [Timers -> BOOLEAN] /\ periodic \in [Timers -> BOOLEAN]
  /\ init_tick \in [Timers -> Delays] /\ timeout_tick \in [Timers -> Ticks]
  /\ live \subseteq Timers /\ armed \subseteq live
  /\ tick \in Ticks
  /\ phase \in {"threads", "check"}
  /\ firing \in Timers \cup {None}
  /\ stopping \in Timers \cup {None}
  /\ phase = "threads" => firing = None

TimerInv == TimerTypes /\ \E q, f : TimersAt(q, f)

\* The ticks the alarms have left.
LeftOf(q, offs) ==
  [t \in Timers |-> IF Contains(q, t) /\ offs[t] > 0 THEN offs[t] ELSE 0]

LEMMA AlarmsSame ==
  /\ \A q, t : AlarmsOf!Unlink(q, t) = Unlink(q, t)
  /\ \A q, t : AlarmsOf!Contains(q, t) = Contains(q, t)
  /\ \A q, t, key : AlarmsOf!InsertSorted(q, t, key) = InsertSorted(q, t, key)
<1>1. \A q, t : AlarmsOf!Unlink(q, t) = Unlink(q, t)
  BY DEF AlarmsOf!Unlink, Unlink, AlarmsOf!Contains, Contains, AlarmsOf!RemoveAt, RemoveAt
<1>2. \A q, t : AlarmsOf!Contains(q, t) = Contains(q, t)
  BY DEF AlarmsOf!Contains, Contains
<1>3. \A q, t, key : AlarmsOf!InsertSorted(q, t, key) = InsertSorted(q, t, key)
  BY DEF AlarmsOf!InsertSorted, AlarmsOf!FirstLater, AlarmsOf!InsertAt, InsertSorted, FirstLater, InsertAt
<1> QED
  BY <1>1, <1>2, <1>3

LEMMA OffsFacts ==
  ASSUME TimerTypes
  PROVE  /\ timeout_tick \in [Timers -> Ticks] /\ tick \in Ticks
         /\ \A t \in Timers : /\ Offs[t] = Offset(timeout_tick[t], tick)
                              /\ Offs[t] \in -1 .. Width - 2 /\ Offs[t] \in Int
         /\ DOMAIN Offs = Timers
<1>1. timeout_tick \in [Timers -> Ticks] /\ tick \in Ticks
  BY DEF TimerTypes
<1> QED
  BY <1>1, OffsetsFacts DEF Offs, Offsets

\* What the alarms of the abstract specification are.
LEMMA AlarmsAre == \A q, f : TimerTypes /\ TimersAt(q, f) => Queue = q /\ Left = LeftOf(q, Offs)
<1> SUFFICES ASSUME NEW q, NEW f, TimerTypes, TimersAt(q, f)
             PROVE  Queue = q /\ Left = LeftOf(q, Offs)
  OBVIOUS
<1>1. Linked(list, q, f) /\ Queue = q /\ q \in Seq(Timers)
  BY QueueIs DEF TimersAt, Linked
<1>2. \A t : t \in {q[i] : i \in DOMAIN q} <=> Contains(q, t)
  BY <1>1 DEF Contains
<1>3. \A t \in Timers : Contains(q, t) => Remaining(t) = IF Offs[t] > 0 THEN Offs[t] ELSE 0
  <2> SUFFICES ASSUME NEW t \in Timers, Contains(q, t)
               PROVE  Remaining(t) = IF Offs[t] > 0 THEN Offs[t] ELSE 0
    OBVIOUS
  <2>1. /\ timeout_tick[t] \in Ticks /\ tick \in Ticks
        /\ Offs[t] = Offset(timeout_tick[t], tick) /\ Offs[t] \in Int
    BY OffsFacts
  <2>2. Offs[t] < Half
    BY DEF TimersAt, InTime
  <2>3. /\ Minus(tick, timeout_tick[t]) < Half <=> Offs[t] <= 0
        /\ Offs[t] > 0 => Minus(timeout_tick[t], tick) = Offs[t]
    BY <2>1, <2>2, OffsetDue
  <2> QED
    BY <2>1, <2>3 DEF Remaining
<1>4. Left = [t \in Timers |-> IF t \in {q[i] : i \in DOMAIN q} THEN Remaining(t) ELSE 0]
  BY <1>1 DEF Left
<1>5. Left = LeftOf(q, Offs)
  BY <1>2, <1>3, <1>4 DEF LeftOf
<1> QED
  BY <1>1, <1>5

LEMMA AlarmsAreNext ==
  (\A q, f : TimerTypes /\ TimersAt(q, f) => Queue = q /\ Left = LeftOf(q, Offs))'
BY AlarmsAre, PTL

\* InsertSorted looks only at whom t is before.
Behind(q, t, key) == {j \in 1 .. Len(q) : key[t] < key[q[j]]}

LEMMA SameInsert ==
  ASSUME NEW q \in Seq(Timers), NEW t, NEW key1, NEW key2, Behind(q, t, key1) = Behind(q, t, key2)
  PROVE  InsertSorted(q, t, key1) = InsertSorted(q, t, key2)
<1>0. \A j \in 1 .. Len(q) : key1[t] < key1[q[j]] <=> key2[t] < key2[q[j]]
  BY DEF Behind
<1>1. Len(q) \in Nat
  OBVIOUS
<1>2. CASE \E i \in 1 .. Len(q) : key1[t] < key1[q[i]]
  <2>1. /\ FirstLater(q, t, key1) \in 1 .. Len(q) /\ key1[t] < key1[q[FirstLater(q, t, key1)]]
        /\ \A j \in 1 .. FirstLater(q, t, key1) - 1 : ~(key1[t] < key1[q[j]])
    BY <1>1, <1>2, FirstLaterPosition
  <2>2. PICK k : k = FirstLater(q, t, key1)
    OBVIOUS
  <2>3. /\ k \in 1 .. Len(q) /\ key2[t] < key2[q[k]]
        /\ \A j \in 1 .. k - 1 : ~(key2[t] < key2[q[j]])
    <3>1. k \in 1 .. Len(q) /\ key1[t] < key1[q[k]] /\ \A j \in 1 .. k - 1 : ~(key1[t] < key1[q[j]])
      BY <2>1, <2>2
    <3>2. \A j \in 1 .. k - 1 : j \in 1 .. Len(q)
      BY <1>1, <3>1
    <3> QED
      BY <1>0, <3>1, <3>2
  <2>4. k - 1 \in 0 .. Len(q) /\ k - 1 < Len(q) /\ (k - 1) + 1 = k
    BY <1>1, <2>3
  <2>5. InsertSorted(q, t, key2) = PutBehind(q, k - 1, t)
    BY <2>3, <2>4, InsertSortedIs
  <2>6. InsertSorted(q, t, key1) = PutBehind(q, k - 1, t)
    BY <2>1, <2>2, <2>4, InsertSortedIs
  <2> QED
    BY <2>5, <2>6
<1>3. CASE ~\E i \in 1 .. Len(q) : key1[t] < key1[q[i]]
  BY <1>0, <1>3 DEF InsertSorted
<1> QED
  BY <1>2, <1>3

\* Started for n ticks, t is set for n ticks.
LEMMA StartLeft ==
  ASSUME NEW q \in Seq(Timers), IsInjective(q), NEW t \in Timers, NEW n \in Nat,
         NEW offs, DOMAIN offs = Timers, \A u \in Timers : offs[u] \in Int,
         NEW offs2, offs2 = Put(offs, t, n),
         NEW q2, q2 = InsertSorted(Unlink(q, t), t, offs2)
  PROVE  /\ LeftOf(q2, offs2) = Put(LeftOf(q, offs), t, n)
         /\ q2 = InsertSorted(Unlink(q, t), t, LeftOf(q2, offs2))
<1> DEFINE q0 == Unlink(q, t)
           left == LeftOf(q2, offs2)
<1>1. /\ q0 \in Seq(Timers) /\ \A u : Contains(q0, u) <=> Contains(q, u) /\ u # t
  BY UnlinkElements
<1> HIDE DEF q0
<1>2. \A u : Contains(q2, u) <=> Contains(q, u) \/ u = t
  BY <1>1, InsertSortedElements DEF q0
<1>3. \A u \in Timers : offs2[u] = IF u = t THEN n ELSE offs[u]
  BY DEF Put
<1>4. left = [LeftOf(q, offs) EXCEPT ![t] = n]
  <2> DEFINE set == [LeftOf(q, offs) EXCEPT ![t] = n]
  <2>1. \A u \in Timers : left[u] = IF u = t THEN n ELSE LeftOf(q, offs)[u]
    <3> SUFFICES ASSUME NEW u \in Timers
                 PROVE  left[u] = IF u = t THEN n ELSE LeftOf(q, offs)[u]
      OBVIOUS
    <3>1. left[u] = IF Contains(q2, u) /\ offs2[u] > 0 THEN offs2[u] ELSE 0
      BY DEF LeftOf
    <3>2. LeftOf(q, offs)[u] = IF Contains(q, u) /\ offs[u] > 0 THEN offs[u] ELSE 0
      BY DEF LeftOf
    <3> HIDE DEF left
    <3>3. CASE u = t
      <4>1. Contains(q2, u)
        BY <1>2, <3>3
      <4>2. offs2[u] = n
        BY <1>3, <3>3
      <4>3. left[u] = n
        BY <3>1, <4>1, <4>2
      <4> QED
        BY <3>3, <4>3
    <3>4. CASE u # t
      BY <1>2, <1>3, <3>1, <3>2, <3>4
    <3> QED
      BY <3>3, <3>4
  <2>2. set = [u \in Timers |-> IF u = t THEN n ELSE LeftOf(q, offs)[u]]
    BY DEF LeftOf
  <2>3. left = [u \in Timers |-> left[u]]
    BY DEF LeftOf
  <2> HIDE DEF left, set
  <2>4. [u \in Timers |-> left[u]] = [u \in Timers |-> IF u = t THEN n ELSE LeftOf(q, offs)[u]]
    BY <2>1
  <2> QED
    BY <2>2, <2>3, <2>4 DEF set
<1>5. \A j \in 1 .. Len(q0) : offs2[t] < offs2[q0[j]] <=> left[t] < left[q0[j]]
  <2> SUFFICES ASSUME NEW j \in 1 .. Len(q0)
               PROVE  offs2[t] < offs2[q0[j]] <=> left[t] < left[q0[j]]
    OBVIOUS
  <2>1. q0[j] \in Timers /\ Contains(q0, q0[j])
    BY <1>1 DEF Contains
  <2>2. Contains(q2, q0[j]) /\ q0[j] # t /\ Contains(q2, t)
    BY <1>1, <1>2, <2>1
  <2>3. left[q0[j]] = (IF offs2[q0[j]] > 0 THEN offs2[q0[j]] ELSE 0) /\ left[t] = n /\ offs2[t] = n
    BY <1>3, <1>4, <2>1, <2>2 DEF LeftOf
  <2>4. offs2[q0[j]] \in Int
    BY <1>3, <2>1
  <2> QED
    BY <2>3, <2>4
<1> HIDE DEF left
<1>6. InsertSorted(q0, t, offs2) = InsertSorted(q0, t, left)
  <2>1. Behind(q0, t, offs2) = Behind(q0, t, left)
    BY <1>5 DEF Behind
  <2> QED
    BY <1>1, <2>1, SameInsert
<1> QED
  BY <1>4, <1>6 DEF q0, left, Put

\* What the alarms are after a step.
LEMMA AlarmsBecome ==
  ASSUME TimerTypes', NEW q, NEW f, TimersAt(q, f)'
  PROVE  Queue' = q /\ Left' = LeftOf(q, Offs')
BY AlarmsAreNext

\* A step that leaves the list and the timeouts of the timers on it.
LEMMA StayStep ==
  ASSUME TimerTypes, TimerTypes', NEW q, NEW f, TimersAt(q, f),
         UNCHANGED <<list, tick, phase, firing, armed>>,
         \A t \in Timers : Contains(q, t) => timeout_tick'[t] = timeout_tick[t],
         f # None => f \in live'
  PROVE  TimersAt(q, f)' /\ Queue' = Queue /\ Left' = Left
<1>1. \A t \in Timers : Contains(q, t) => Offs'[t] = Offs[t]
  BY DEF Offs, Offsets
<1>2. Linked(list, q, f) /\ Linked(list, q, f)'
  BY DEF TimersAt
<1>3. q \in Seq(Timers)
  BY <1>2 DEF Linked
<1>4. InTime(q, Offs')
  <2>1. \A i \in 1 .. Len(q) : q[i] \in Timers /\ Offs'[q[i]] = Offs[q[i]]
    BY <1>1, <1>3 DEF Contains
  <2>2. InOrder(q, Offs')
    BY <2>1 DEF TimersAt, InTime, InOrder
  <2> QED
    BY <1>1, <2>2 DEF TimersAt, InTime
<1>5. TimersAt(q, f)'
  BY <1>1, <1>2, <1>4 DEF TimersAt
<1>6. LeftOf(q, Offs') = LeftOf(q, Offs)
  BY <1>1 DEF LeftOf
<1> QED
  BY <1>5, <1>6, AlarmsAre, AlarmsBecome

\* rt_timer_start, from a list l that has been prepared for it.
LEMMA StartStep ==
  ASSUME TimerTypes, TimerTypes', NEW l, NEW q, NEW f, Linked(l, q, f), NEW t \in live,
         \A u \in Timers : Contains(q, u) => u \in armed,
         \A u \in armed : Contains(q, u) \/ u = f \/ u = t,
         InTime(q, Offs),
         phase = "threads" => \A u \in Timers : Contains(q, u) => Offs[u] >= 0,
         StartIn(l, t), UNCHANGED <<tick, phase>>,
         f # None /\ f # t => f = firing' /\ f \in live'
  PROVE  /\ \E q2, f2 : TimersAt(q2, f2)'
         /\ Left' = [LeftOf(q, Offs) EXCEPT ![t] = init_tick[t]]
         /\ Queue' = InsertSorted(Unlink(q, t), t, Left')
<1>1. /\ t \in Timers /\ init_tick[t] \in 0 .. Half - 1 /\ init_tick[t] \in Nat
      /\ timeout_tick \in [Timers -> Ticks] /\ tick \in Ticks
  <2>1. t \in Timers /\ timeout_tick \in [Timers -> Ticks] /\ tick \in Ticks
    BY DEF TimerTypes
  <2>2. init_tick[t] \in 0 .. Half - 1
    BY <2>1, DelaysAssumption DEF TimerTypes
  <2> QED
    BY <2>1, <2>2, WidthFacts
<1>2. PICK n : n = init_tick[t]
  OBVIOUS
<1>3. PICK due : due = (tick + n) % (RT_TICK_MAX + 1)
  OBVIOUS
<1>4. PICK w : w = rt_list_remove(l, t)
  OBVIOUS
<1>5. PICK later : later = Put(timeout_tick, t, due)
  OBVIOUS
<1>6. PICK offs : offs = Offs
  OBVIOUS
<1>7. PICK offs2 : offs2 = Offsets(later, tick)
  OBVIOUS
<1>8. PICK q2 : q2 = InsertSorted(Unlink(q, t), t, offs2)
  OBVIOUS
<1>9. PICK f2 : f2 = IF t = f THEN None ELSE f
  OBVIOUS
<1>10. /\ list' = rt_list_insert_after(w, Place(w, timeout_tick, due), t)
       /\ timeout_tick' = later /\ armed' = armed \cup {t}
  BY <1>2, <1>3, <1>4, <1>5 DEF StartIn, Put
<1>11. /\ offs2 = Put(offs, t, n)
       /\ Linked(list', q2, f2)
       /\ InTime(q2, offs2)
  <2>1. n \in 0 .. Half - 1 /\ InTime(q, Offsets(timeout_tick, tick))
    BY <1>1, <1>2 DEF Offs
  <2>2. /\ Offsets(later, tick) = Put(Offsets(timeout_tick, tick), t, n)
        /\ Linked(rt_list_insert_after(w, Place(w, timeout_tick, due), t),
                  InsertSorted(Unlink(q, t), t, Offsets(later, tick)), IF t = f THEN None ELSE f)
        /\ InTime(InsertSorted(Unlink(q, t), t, Offsets(later, tick)), Offsets(later, tick))
    BY <1>1, <1>3, <1>4, <1>5, <2>1, StartFacts
  <2> QED
    BY <1>6, <1>7, <1>8, <1>9, <1>10, <2>2 DEF Offs
<1>12. Offs' = offs2
  BY <1>7, <1>10 DEF Offs
<1>13. /\ q \in Seq(Timers) /\ IsInjective(q)
       /\ DOMAIN offs = Timers /\ \A u \in Timers : offs[u] \in Int
  BY <1>6, OffsFacts DEF Linked
<1>14. \A u : Contains(q2, u) <=> Contains(q, u) \/ u = t
  <2>1. Unlink(q, t) \in Seq(Timers) /\ \A u : Contains(Unlink(q, t), u) <=> Contains(q, u) /\ u # t
    BY <1>13, UnlinkElements
  <2> QED
    BY <1>1, <1>8, <2>1, InsertSortedElements
<1>15. TimersAt(q2, f2)'
  <2>1. f2 # None => f2 = firing' /\ f2 \in live'
    BY <1>9
  <2>2. \A u \in Timers : Contains(q2, u) => u \in armed'
    BY <1>10, <1>14
  <2>3. \A u \in armed' : Contains(q2, u) \/ u = f2
    BY <1>9, <1>10, <1>14
  <2>4. phase' = "threads" => \A u \in Timers : Contains(q2, u) => Offs'[u] >= 0
    <3> SUFFICES ASSUME phase' = "threads", NEW u \in Timers, Contains(q2, u)
                 PROVE  offs2[u] >= 0
      BY <1>12
    <3>1. CASE u = t
      <4>1. offs2[u] = n /\ n \in Nat
        BY <1>1, <1>2, <1>11, <1>13, <3>1 DEF Put
      <4> QED
        BY <4>1
    <3>2. CASE u # t
      BY <1>6, <1>11, <1>13, <1>14, <3>2 DEF Put
    <3> QED
      BY <3>1, <3>2
  <2> QED
    BY <1>11, <1>12, <2>1, <2>2, <2>3, <2>4 DEF TimersAt
<1>16. Queue' = q2 /\ Left' = LeftOf(q2, offs2)
  BY <1>12, <1>15, AlarmsBecome
<1>17. /\ LeftOf(q2, offs2) = Put(LeftOf(q, offs), t, n)
       /\ q2 = InsertSorted(Unlink(q, t), t, LeftOf(q2, offs2))
  <2>1. n \in Nat
    BY <1>1, <1>2
  <2> QED
    BY <1>1, <1>8, <1>11, <1>13, <2>1, StartLeft
<1> QED
  BY <1>2, <1>6, <1>15, <1>16, <1>17 DEF Put

\* rt_timer_stop and rt_timer_detach, and the end of a callback.
LEMMA UnarmStep ==
  ASSUME TimerTypes, TimerTypes', NEW q, NEW f, TimersAt(q, f), NEW t \in Timers,
         list' = rt_list_remove(list, t), armed' = armed \ {t},
         UNCHANGED <<timeout_tick, tick, phase>>,
         f # None /\ f # t => f = firing' /\ f \in live'
  PROVE  /\ \E q2, f2 : TimersAt(q2, f2)'
         /\ Left' = [LeftOf(q, Offs) EXCEPT ![t] = 0]
         /\ Queue' = Unlink(q, t)
<1>1. PICK q2 : q2 = Unlink(q, t)
  OBVIOUS
<1>2. PICK f2 : f2 = IF t = f THEN None ELSE f
  OBVIOUS
<1>3. q \in Seq(Timers) /\ IsInjective(q) /\ Linked(list, q, f)
  BY DEF TimersAt, Linked
<1>4. Linked(list', q2, f2)
  <2>1. Linked(rt_list_remove(list, t), Unlink(q, t), IF t = f THEN None ELSE f)
    BY <1>3, RemoveLinked
  <2> QED
    BY <1>1, <1>2, <2>1
<1>5. Offs' = Offs
  BY DEF Offs
<1>6. \A u : Contains(q2, u) <=> Contains(q, u) /\ u # t
  BY <1>1, <1>3, UnlinkElements
<1>7. InTime(q2, Offs)
  <2>1. InOrder(q2, Offs)
    BY <1>1, <1>3, UnlinkInOrder DEF TimersAt, InTime
  <2> QED
    BY <1>6, <2>1 DEF TimersAt, InTime
<1>8. TimersAt(q2, f2)'
  <2>1. f2 # None => f2 = firing' /\ f2 \in live'
    BY <1>2
  <2>2. \A u \in Timers : Contains(q2, u) => u \in armed'
    BY <1>6 DEF TimersAt
  <2>3. \A u \in armed' : Contains(q2, u) \/ u = f2
    BY <1>2, <1>6 DEF TimersAt
  <2>4. phase' = "threads" => \A u \in Timers : Contains(q2, u) => Offs'[u] >= 0
    BY <1>5, <1>6 DEF TimersAt
  <2> QED
    BY <1>4, <1>5, <1>7, <2>1, <2>2, <2>3, <2>4 DEF TimersAt
<1>9. Queue' = q2 /\ Left' = LeftOf(q2, Offs)
  BY <1>5, <1>8, AlarmsBecome
<1>10. LeftOf(q2, Offs) = [LeftOf(q, Offs) EXCEPT ![t] = 0]
  BY <1>6 DEF LeftOf
<1> QED
  BY <1>1, <1>8, <1>9, <1>10

-----------------------------------------------------------------------------
(* The steps of the timers.                                                *)

\* What holds of every step.
StepKept ==
  /\ TimerInv'
  /\ AlarmsOf!Next \/ UNCHANGED <<Queue, Left, phase, firing>>
  /\ firing' # firing => firing' \in armed \cup {None}

LEMMA StartTypes ==
  ASSUME TimerTypes, NEW t \in live, NEW l, StartIn(l, t)
  PROVE  /\ timeout_tick' \in [Timers -> Ticks] /\ active' \in [Timers -> BOOLEAN]
         /\ armed' \subseteq live
<1>1. t \in Timers /\ init_tick[t] \in 0 .. Half - 1 /\ tick \in Ticks
  <2>1. t \in Timers /\ init_tick[t] \in Delays /\ tick \in Ticks
    BY DEF TimerTypes
  <2> QED
    BY <2>1, DelaysAssumption
<1>2. (tick + init_tick[t]) % (RT_TICK_MAX + 1) \in Ticks
  BY <1>1, OffsetStart
<1> QED
  BY <1>2 DEF StartIn, TimerTypes

LEMMA SetKept ==
  ASSUME TimerTypes, NEW q, NEW f, TimersAt(q, f), NEW t \in Timers, rt_timer_start(t)
  PROVE  StepKept
<1>1. TimerTypes'
  BY StartTypes DEF TimerTypes, rt_timer_start
<1>2. /\ \E q2, f2 : TimersAt(q2, f2)'
      /\ Left' = [LeftOf(q, Offs) EXCEPT ![t] = init_tick[t]]
      /\ Queue' = InsertSorted(Unlink(q, t), t, Left')
  <2>1. /\ t \in live /\ StartIn(list, t) /\ UNCHANGED <<tick, phase, firing, live>>
    BY DEF rt_timer_start
  <2>2. /\ Linked(list, q, f) /\ InTime(q, Offs)
        /\ \A u \in Timers : Contains(q, u) => u \in armed
        /\ \A u \in armed : Contains(q, u) \/ u = f \/ u = t
        /\ phase = "threads" => \A u \in Timers : Contains(q, u) => Offs[u] >= 0
        /\ f # None => f = firing /\ f \in live
    BY DEF TimersAt
  <2> QED
    BY <1>1, <2>1, <2>2, StartStep
<1>3. Queue = q /\ Left = LeftOf(q, Offs)
  BY AlarmsAre
<1>4. AlarmsOf!Set(t, init_tick[t])
  <2>1. AlarmsOf!CodeRuns
    BY NodeFacts DEF rt_timer_start, InThread, InCallback, AlarmsOf!CodeRuns
  <2>2. AlarmsOf!Schedule(t, init_tick[t])
    BY <1>2, <1>3, AlarmsSame DEF AlarmsOf!Schedule
  <2> QED
    BY <2>1, <2>2 DEF AlarmsOf!Set, rt_timer_start
<1>5. init_tick[t] \in Delays
  BY DEF TimerTypes
<1> QED
  BY <1>1, <1>2, <1>4, <1>5 DEF StepKept, TimerInv, AlarmsOf!Next, rt_timer_start

LEMMA CancelKept ==
  ASSUME TimerTypes, NEW q, NEW f, TimersAt(q, f), NEW t \in Timers, InThread \/ InCallback,
         Unarm(t), TimerTypes', UNCHANGED <<timeout_tick, tick, phase, firing>>,
         f # None /\ f # t => f \in live'
  PROVE  StepKept
<1>1. /\ \E q2, f2 : TimersAt(q2, f2)'
      /\ Left' = [LeftOf(q, Offs) EXCEPT ![t] = 0]
      /\ Queue' = Unlink(q, t)
  <2>1. list' = rt_list_remove(list, t) /\ armed' = armed \ {t}
    BY DEF Unarm
  <2>2. f # None /\ f # t => f = firing' /\ f \in live'
    BY DEF TimersAt
  <2> QED
    BY <2>1, <2>2, UnarmStep
<1>2. Queue = q /\ Left = LeftOf(q, Offs)
  BY AlarmsAre
<1>3. AlarmsOf!Cancel(t)
  BY <1>1, <1>2, AlarmsSame, NodeFacts DEF AlarmsOf!Cancel, AlarmsOf!CodeRuns, InThread, InCallback
<1> QED
  BY <1>1, <1>3 DEF StepKept, TimerInv, AlarmsOf!Next

LEMMA StopKept ==
  ASSUME TimerTypes, NEW q, NEW f, TimersAt(q, f), NEW t \in Timers,
         (StopRemove /\ stopping = t) \/ CallbackStop(t) \/ rt_timer_detach(t)
  PROVE  StepKept
<1>1. TimerTypes'
  BY DEF TimerTypes, StopRemove, CallbackStop, rt_timer_detach, Unarm
<1>2. /\ Unarm(t) /\ UNCHANGED <<timeout_tick, tick, phase, firing>>
      /\ InThread \/ InCallback
      /\ live \ {t} \subseteq live'
  BY DEF StopRemove, CallbackStop, rt_timer_detach
<1>3. f # None /\ f # t => f \in live'
  BY <1>2 DEF TimersAt
<1> QED
  BY <1>1, <1>2, <1>3, CancelKept

LEMMA StayKept ==
  ASSUME TimerTypes, NEW q, NEW f, TimersAt(q, f), NEW t \in Timers,
         \/ StopTest(t)
         \/ \E time \in Delays, flag_ \in BOOLEAN : rt_timer_init(t, time, flag_)
         \/ \E time \in Delays : SetTime(t, time)
         \/ \E flag_ \in BOOLEAN : SetPeriodic(t, flag_)
  PROVE  StepKept
<1>1. TimerTypes'
  <2>1. 0 \in Ticks
    BY WidthFacts
  <2>2. CASE StopTest(t)
    BY <2>2 DEF TimerTypes, StopTest, timers
  <2>3. CASE \E time \in Delays, flag_ \in BOOLEAN : rt_timer_init(t, time, flag_)
    BY <2>1, <2>3 DEF TimerTypes, rt_timer_init
  <2>4. CASE \E time \in Delays : SetTime(t, time)
    BY <2>4 DEF TimerTypes, SetTime
  <2>5. CASE \E flag_ \in BOOLEAN : SetPeriodic(t, flag_)
    BY <2>5 DEF TimerTypes, SetPeriodic
  <2> QED
    BY <2>2, <2>3, <2>4, <2>5
<1>2. UNCHANGED <<tick, phase, firing, armed>> /\ live \subseteq live'
  BY DEF StopTest, timers, rt_timer_init, SetTime, SetPeriodic
<1>3. /\ list' = list
      /\ \A u \in Timers : Contains(q, u) => timeout_tick'[u] = timeout_tick[u]
  <2>1. CASE \E time \in Delays, flag_ \in BOOLEAN : rt_timer_init(t, time, flag_)
    <3>1. /\ t \notin live /\ phase = "threads"
          /\ timeout_tick' = [timeout_tick EXCEPT ![t] = 0]
          /\ list' = [next |-> [list.next EXCEPT ![t] = t], prev |-> [list.prev EXCEPT ![t] = t]]
      BY <2>1 DEF rt_timer_init, InThread
    <3>2. ~Contains(q, t) /\ f = None
      BY <3>1 DEF TimersAt, TimerTypes
    <3>3. list \in PointerLists /\ list.next[t] = t /\ list.prev[t] = t
      BY <3>2, NodeFacts DEF TimersAt, Linked, SelfLinked
    <3>4. list' = list
      BY <3>1, <3>3 DEF PointerLists
    <3> QED
      BY <3>1, <3>2, <3>4 DEF TimerTypes
  <2> QED
    BY <2>1 DEF StopTest, timers, SetTime, SetPeriodic
<1>4. TimersAt(q, f)' /\ Queue' = Queue /\ Left' = Left
  <2>1. f # None => f \in live'
    BY <1>2 DEF TimersAt
  <2> QED
    BY <1>1, <1>2, <1>3, <2>1, StayStep
<1> QED
  BY <1>1, <1>2, <1>4 DEF StepKept, TimerInv

LEMMA TickKept ==
  ASSUME TimerTypes, NEW q, NEW f, TimersAt(q, f), Tick
  PROVE  StepKept
<1>1. TimerTypes'
  <2>1. tick' \in Ticks
    BY TickTicks DEF TimerTypes, Tick
  <2> QED
    BY <2>1 DEF TimerTypes, Tick, timers
<1>2. f = None /\ phase = "threads" /\ phase' = "check"
  BY DEF TimersAt, TimerTypes, Tick, InThread
<1>3. q \in Seq(Timers) /\ Linked(list, q, f)
  BY DEF TimersAt, Linked
<1>4. \A t \in Timers : Contains(q, t) => Offs[t] \in 0 .. Half - 1 /\ Offs'[t] = Offs[t] - 1
  <2> SUFFICES ASSUME NEW t \in Timers, Contains(q, t)
               PROVE  Offs[t] \in 0 .. Half - 1 /\ Offs'[t] = Offs[t] - 1
    OBVIOUS
  <2>1. /\ timeout_tick[t] \in Ticks /\ tick \in Ticks
        /\ Offs[t] = Offset(timeout_tick[t], tick) /\ Offs[t] \in Int
    BY OffsFacts
  <2>2. Offs[t] >= 0 /\ Offs[t] < Half
    BY <1>2 DEF TimersAt, InTime
  <2>3. Offs[t] \in 0 .. Half - 1
    BY <2>1, <2>2, WidthFacts
  <2>4. tick' = (tick + 1) % (RT_TICK_MAX + 1) /\ timeout_tick' = timeout_tick
    BY DEF Tick, timers
  <2>5. Offset(timeout_tick[t], tick') = Offs[t] - 1
    BY <2>1, <2>3, <2>4, OffsetTick
  <2>6. Offs'[t] = Offset(timeout_tick'[t], tick')
    BY DEF Offs, Offsets
  <2> QED
    BY <2>3, <2>4, <2>5, <2>6
<1>5. InTime(q, Offs')
  <2>1. \A i \in 1 .. Len(q) : /\ q[i] \in Timers /\ Offs[q[i]] \in Int
                               /\ Offs'[q[i]] = Offs[q[i]] - 1
    BY <1>3, <1>4, OffsFacts DEF Contains
  <2>2. InOrder(q, Offs')
    <3>1. InOrder(q, Offs) /\ DOMAIN q = 1 .. Len(q)
      BY <1>3 DEF TimersAt, InTime
    <3> SUFFICES ASSUME NEW i \in 1 .. Len(q), NEW j \in 1 .. Len(q), i < j
                 PROVE  Offs'[q[i]] <= Offs'[q[j]]
      BY <3>1 DEF InOrder
    <3>2. Offs[q[i]] <= Offs[q[j]]
      BY <3>1 DEF InOrder
    <3> QED
      BY <2>1, <3>2
  <2>3. \A t \in Timers : Contains(q, t) => Offs'[t] < Half
    BY <1>4, WidthFacts
  <2> QED
    BY <2>2, <2>3 DEF InTime
<1>6. TimersAt(q, f)'
  BY <1>2, <1>5 DEF TimersAt, Tick, timers
<1>7. Queue = q /\ Left = LeftOf(q, Offs) /\ Queue' = q /\ Left' = LeftOf(q, Offs')
  BY <1>1, <1>6, AlarmsAre, AlarmsBecome
<1>8. LeftOf(q, Offs') = [t \in Timers |-> IF LeftOf(q, Offs)[t] > 0 THEN LeftOf(q, Offs)[t] - 1 ELSE 0]
  <2>1. \A t \in Timers : LeftOf(q, Offs')[t] = IF Contains(q, t) /\ Offs'[t] > 0 THEN Offs'[t] ELSE 0
    BY DEF LeftOf
  <2>2. \A t \in Timers : LeftOf(q, Offs)[t] = IF Contains(q, t) /\ Offs[t] > 0 THEN Offs[t] ELSE 0
    BY DEF LeftOf
  <2>3. \A t \in Timers : LeftOf(q, Offs')[t] = IF LeftOf(q, Offs)[t] > 0 THEN LeftOf(q, Offs)[t] - 1 ELSE 0
    BY <1>4, <2>1, <2>2, WidthFacts
  <2>4. LeftOf(q, Offs') = [t \in Timers |-> LeftOf(q, Offs')[t]]
    BY DEF LeftOf
  <2> QED
    BY <2>3, <2>4
<1>9. AlarmsOf!Tick
  BY <1>2, <1>7, <1>8 DEF AlarmsOf!Tick, Tick
<1> QED
  BY <1>1, <1>6, <1>9 DEF StepKept, TimerInv, AlarmsOf!Next, Tick

\* What rt_timer_check looks at.
LEMMA HeadFacts ==
  ASSUME TimerTypes, NEW q, NEW f, TimersAt(q, f)
  PROVE  /\ rt_list_isempty(list, ListHead) <=> q = <<>>
         /\ q # <<>> => /\ list.next[ListHead] = Head(q) /\ Head(q) \in Timers /\ Contains(q, Head(q))
                        /\ Due(Head(q)) <=> LeftOf(q, Offs)[Head(q)] = 0
                        /\ LeftOf(q, Offs)[Head(q)] \in Nat
<1>1. /\ q \in Seq(Timers) /\ IsInjective(q) /\ Len(q) \in Nat
      /\ list.next[ListHead] = NodeAt(q, 1) /\ ListHead \notin Timers
  <2>1. Linked(list, q, f)
    BY DEF TimersAt
  <2>2. q \in Seq(Timers) /\ IsInjective(q) /\ Len(q) \in Nat
    BY <2>1 DEF Linked
  <2>3. list.next[NodeAt(q, 0)] = NodeAt(q, 0 + 1)
    BY <2>1, <2>2 DEF Linked
  <2> QED
    BY <2>2, <2>3, NodeAtFacts, NodeFacts
<1>2. CASE q = <<>>
  BY <1>1, <1>2 DEF NodeAt, rt_list_isempty
<1>3. CASE q # <<>>
  <2>1. Head(q) \in Timers /\ Contains(q, Head(q)) /\ Head(q) = q[1] /\ 1 \in 1 .. Len(q)
    BY <1>1, <1>3, TailElements
  <2>2. list.next[ListHead] = Head(q)
    BY <1>1, <2>1 DEF NodeAt
  <2>3. PICK n : n = Head(q)
    OBVIOUS
  <2>4. /\ timeout_tick[n] \in Ticks /\ tick \in Ticks /\ n \in Timers
        /\ Offs[n] = Offset(timeout_tick[n], tick) /\ Offs[n] \in Int
    BY <2>1, <2>3, OffsFacts
  <2>5. Offs[n] < Half
    BY <2>1, <2>3 DEF TimersAt, InTime
  <2>6. Minus(tick, timeout_tick[n]) < Half <=> Offs[n] <= 0
    BY <2>4, <2>5, OffsetDue
  <2>7. Due(n) <=> Offs[n] <= 0
    BY <2>4, <2>6 DEF Due, Timeout
  <2>8. LeftOf(q, Offs)[n] = IF Offs[n] > 0 THEN Offs[n] ELSE 0
    BY <2>1, <2>3 DEF LeftOf
  <2>9. (Due(n) <=> LeftOf(q, Offs)[n] = 0) /\ LeftOf(q, Offs)[n] \in Nat
    BY <2>4, <2>7, <2>8
  <2> QED
    BY <1>1, <1>3, <2>1, <2>2, <2>3, <2>9 DEF rt_list_isempty
<1> QED
  BY <1>2, <1>3

LEMMA DoneKept ==
  ASSUME TimerTypes, NEW q, NEW f, TimersAt(q, f), CheckDone
  PROVE  StepKept
<1>1. TimerTypes'
  BY DEF TimerTypes, CheckDone, timers
<1>2. Queue = q /\ Left = LeftOf(q, Offs)
  BY AlarmsAre
<1>3. q = <<>> \/ LeftOf(q, Offs)[Head(q)] > 0
  BY HeadFacts DEF CheckDone
<1>4. \A t \in Timers : Contains(q, t) => Offs[t] >= 0
  <2> SUFFICES ASSUME NEW t \in Timers, Contains(q, t)
               PROVE  Offs[t] >= 0
    OBVIOUS
  <2>1. q \in Seq(Timers)
    BY DEF TimersAt, Linked
  <2>2. PICK i \in 1 .. Len(q) : q[i] = t
    BY DEF Contains
  <2>3. q # <<>> /\ Head(q) = q[1] /\ 1 \in 1 .. Len(q) /\ i >= 1 /\ q[1] \in Timers
    BY <2>1, <2>2
  <2>4. Offs[q[1]] > 0
    BY <1>3, <2>3 DEF LeftOf
  <2>5. Offs[q[1]] <= Offs[t]
    BY <2>2, <2>3, OffsFacts DEF TimersAt, InTime, InOrder
  <2> QED
    BY <2>3, <2>4, <2>5, OffsFacts
<1>5. TimersAt(q, f)'
  <2>1. Offs' = Offs
    BY DEF Offs, CheckDone, timers
  <2> QED
    BY <1>4, <2>1 DEF TimersAt, CheckDone, timers
<1>6. Queue' = Queue /\ Left' = Left
  <2>1. Offs' = Offs
    BY DEF Offs, CheckDone, timers
  <2> QED
    BY <1>1, <1>2, <1>5, <2>1, AlarmsBecome
<1>7. AlarmsOf!Done
  BY <1>2, <1>3, <1>6 DEF AlarmsOf!Done, CheckDone
<1> QED
  BY <1>1, <1>5, <1>7 DEF StepKept, TimerInv, AlarmsOf!Next, CheckDone

\* The first of a list goes.
LEMMA UnlinkHead ==
  ASSUME NEW q \in Seq(Timers), q # <<>>, IsInjective(q)
  PROVE  Unlink(q, Head(q)) = Tail(q)
<1>1. /\ Head(q) = q[1] /\ 1 \in 1 .. Len(q) /\ Contains(q, Head(q)) /\ Len(q) \in Nat
      /\ \A i \in 1 .. Len(q) : q[i] = q[1] => i = 1
  BY TailElements DEF IsInjective
<1>2. (CHOOSE i \in 1 .. Len(q) : q[i] = Head(q)) = 1
  BY <1>1
<1>3. Unlink(q, Head(q)) = RemoveAt(q, 1)
  BY <1>1, <1>2 DEF Unlink
<1>4. /\ RemoveAt(q, 1) \in Seq(Timers) /\ Len(RemoveAt(q, 1)) = Len(q) - 1
      /\ \A j \in 1 .. Len(q) - 1 : RemoveAt(q, 1)[j] = q[j + 1]
  BY <1>1, RemoveAtElements
<1>5. /\ Tail(q) \in Seq(Timers) /\ Len(Tail(q)) = Len(q) - 1
      /\ \A j \in 1 .. Len(q) - 1 : Tail(q)[j] = q[j + 1]
  OBVIOUS
<1> QED
  BY <1>3, <1>4, <1>5, SeqEqual

LEMMA ExpireKept ==
  ASSUME TimerTypes, NEW q, NEW f, TimersAt(q, f), Expire
  PROVE  StepKept
<1>1. PICK n : n = list.next[ListHead]
  OBVIOUS
<1>2. /\ phase = "check" /\ firing = None
      /\ ~rt_list_isempty(list, ListHead) /\ Due(n)
      /\ list' = rt_list_insert_after(rt_list_remove(list, n), Temp, n)
      /\ active' = [t \in Timers |-> active[t] /\ (t = n => periodic[t])]
      /\ armed' = {t \in armed : t = n => periodic[t]}
      /\ firing' = n
      /\ UNCHANGED <<periodic, init_tick, timeout_tick, live, tick, phase, stopping>>
  BY <1>1 DEF Expire
<1>3. /\ q # <<>> /\ n = Head(q) /\ n \in Timers /\ Contains(q, n) /\ n \in armed /\ n \in live
      /\ LeftOf(q, Offs)[n] = 0 /\ n # None /\ f = None
  <2>1. q # <<>> /\ n = Head(q) /\ n \in Timers /\ Contains(q, n) /\ LeftOf(q, Offs)[n] = 0
    BY <1>1, <1>2, HeadFacts
  <2>2. n \in armed /\ f = None
    BY <1>2, <2>1 DEF TimersAt
  <2> QED
    BY <2>1, <2>2, NodeFacts DEF TimerTypes
<1>4. TimerTypes'
  <2>1. \A t \in Timers : (active[t] /\ (t = n => periodic[t])) \in BOOLEAN
    OBVIOUS
  <2>2. active' \in [Timers -> BOOLEAN]
    BY <1>2, <2>1
  <2>3. armed' \subseteq live'
    BY <1>2 DEF TimerTypes
  <2> QED
    BY <1>2, <1>3, <2>2, <2>3 DEF TimerTypes
<1>5. /\ q \in Seq(Timers) /\ IsInjective(q) /\ Linked(list, q, None)
  BY <1>3 DEF TimersAt, Linked
<1>6. PICK q2 : q2 = Tail(q)
  OBVIOUS
<1>7. q2 = Unlink(q, n) /\ \A u : Contains(q2, u) <=> Contains(q, u) /\ u # n
  BY <1>3, <1>5, <1>6, UnlinkHead, TailElements
<1>8. Linked(list', q2, n)
  <2>1. PICK l : l = rt_list_remove(list, n)
    OBVIOUS
  <2>2. Linked(l, q2, None)
    BY <1>3, <1>5, <1>7, <2>1, RemoveLinked
  <2>3. Linked(rt_list_insert_after(l, Temp, n), q2, n)
    BY <1>3, <1>7, <2>2, TempLinked
  <2> QED
    BY <1>2, <2>1, <2>3
<1>9. Offs' = Offs
  BY <1>2 DEF Offs
<1>10. InTime(q2, Offs)
  <2>1. InOrder(q2, Offs)
    BY <1>5, <1>7, UnlinkInOrder DEF TimersAt, InTime
  <2> QED
    BY <1>7, <2>1 DEF TimersAt, InTime
<1>11. TimersAt(q2, n)'
  <2>1. \A u \in Timers : Contains(q2, u) => u \in armed'
    BY <1>2, <1>7 DEF TimersAt
  <2>2. \A u \in armed' : Contains(q2, u) \/ u = n
    <3>1. \A u \in armed : Contains(q, u)
      BY <1>2, <1>3, NodeFacts DEF TimersAt, TimerTypes
    <3>2. armed' \subseteq armed
      BY <1>2
    <3> QED
      BY <1>7, <3>1, <3>2
  <2> QED
    BY <1>2, <1>3, <1>8, <1>9, <1>10, <2>1, <2>2 DEF TimersAt
<1>12. Queue = q /\ Left = LeftOf(q, Offs) /\ Queue' = q2 /\ Left' = LeftOf(q2, Offs)
  BY <1>4, <1>9, <1>11, AlarmsAre, AlarmsBecome
<1>13. LeftOf(q2, Offs) = LeftOf(q, Offs)
  <2>1. \A t \in Timers : LeftOf(q2, Offs)[t] = LeftOf(q, Offs)[t]
    BY <1>3, <1>7 DEF LeftOf
  <2>2. /\ LeftOf(q2, Offs) = [t \in Timers |-> LeftOf(q2, Offs)[t]]
        /\ LeftOf(q, Offs) = [t \in Timers |-> LeftOf(q, Offs)[t]]
    BY DEF LeftOf
  <2> QED
    BY <2>1, <2>2
<1>14. AlarmsOf!GoOff
  BY <1>2, <1>3, <1>6, <1>12, <1>13 DEF AlarmsOf!GoOff
<1> QED
  BY <1>2, <1>3, <1>4, <1>11, <1>14 DEF StepKept, TimerInv, AlarmsOf!Next

LEMMA ReturnKept ==
  ASSUME TimerTypes, NEW q, NEW f, TimersAt(q, f), CallbackReturn
  PROVE  StepKept
<1>1. /\ firing \in Timers /\ firing # None /\ firing' = None /\ phase = "check"
      /\ UNCHANGED <<periodic, init_tick, live, tick, phase, stopping>>
  BY NodeFacts DEF CallbackReturn, InCallback, TimerTypes
<1>2. Queue = q /\ Left = LeftOf(q, Offs)
  BY AlarmsAre
<1>3. /\ Linked(list, q, f) /\ q \in Seq(Timers) /\ IsInjective(q)
      /\ f = None => list.next[Temp] = Temp
      /\ f # None => f = firing /\ f \in live /\ ~Contains(q, f) /\ list.next[Temp] # Temp
  BY NodeFacts DEF TimersAt, Linked, SelfLinked
<1>4. CASE f = None
  <2>1. UNCHANGED <<list, active, timeout_tick, armed>>
    BY <1>3, <1>4 DEF CallbackReturn, rt_list_isempty
  <2>2. TimerTypes' /\ Offs' = Offs
    BY <1>1, <2>1 DEF TimerTypes, Offs
  <2>3. TimersAt(q, f)'
    BY <1>1, <1>4, <2>1, <2>2 DEF TimersAt
  <2>4. Queue' = Queue /\ Left' = Left
    BY <1>2, <2>2, <2>3, AlarmsBecome
  <2>5. AlarmsOf!Return
    BY <1>1, <2>4 DEF AlarmsOf!Return
  <2> QED
    BY <1>1, <2>2, <2>3, <2>5 DEF StepKept, TimerInv, AlarmsOf!Next
<1>5. CASE f # None /\ periodic[firing] /\ active[firing]
  <2>1. PICK l : l = rt_list_remove(list, firing)
    OBVIOUS
  <2>2. StartIn(l, firing) /\ firing \in live
    BY <1>3, <1>5, <2>1 DEF CallbackReturn, rt_list_isempty
  <2>3. TimerTypes'
    <3>1. timeout_tick' \in [Timers -> Ticks] /\ active' \in [Timers -> BOOLEAN] /\ armed' \subseteq live
      BY <2>2, StartTypes
    <3> QED
      BY <1>1, <3>1 DEF TimerTypes
  <2>4. Unlink(q, firing) = q
    BY <1>3, <1>5, UnlinkElements
  <2>5. Linked(l, q, None)
    BY <1>1, <1>3, <1>5, <2>1, <2>4, RemoveLinked
  <2>6. /\ \E q2, f2 : TimersAt(q2, f2)'
        /\ Left' = [LeftOf(q, Offs) EXCEPT ![firing] = init_tick[firing]]
        /\ Queue' = InsertSorted(Unlink(q, firing), firing, Left')
    <3>1. /\ InTime(q, Offs) /\ phase # "threads"
          /\ \A u \in Timers : Contains(q, u) => u \in armed
          /\ \A u \in armed : Contains(q, u) \/ u = None \/ u = firing
      BY <1>1, <1>3, <1>5 DEF TimersAt
    <3>2. PICK t \in live : t = firing
      BY <2>2
    <3>3. StartIn(l, t) /\ \A u \in armed : Contains(q, u) \/ u = None \/ u = t
      BY <2>2, <3>1, <3>2
    <3>4. UNCHANGED <<tick, phase>>
      BY <1>1
    <3>5. /\ \E q2, f2 : TimersAt(q2, f2)'
          /\ Left' = [LeftOf(q, Offs) EXCEPT ![t] = init_tick[t]]
          /\ Queue' = InsertSorted(Unlink(q, t), t, Left')
      BY <2>3, <2>5, <3>1, <3>3, <3>4, StartStep
    <3> QED
      BY <3>2, <3>5
  <2>7. init_tick[firing] \in Delays
    BY <1>1 DEF TimerTypes
  <2>8. AlarmsOf!Return
    <3>1. AlarmsOf!Schedule(firing, init_tick[firing])
      BY <1>2, <2>6, AlarmsSame DEF AlarmsOf!Schedule
    <3>2. ~AlarmsOf!Contains(Queue, firing)
      BY <1>2, <1>3, <1>5, AlarmsSame
    <3> QED
      BY <1>1, <2>7, <3>1, <3>2 DEF AlarmsOf!Return
  <2> QED
    BY <1>1, <2>3, <2>6, <2>8 DEF StepKept, TimerInv, AlarmsOf!Next
<1>6. CASE f # None /\ ~(periodic[firing] /\ active[firing])
  <2>1. /\ list' = rt_list_remove(list, firing) /\ armed' = armed \ {firing}
        /\ UNCHANGED <<active, timeout_tick>>
    BY <1>3, <1>6 DEF CallbackReturn, rt_list_isempty
  <2>2. TimerTypes'
    BY <1>1, <2>1 DEF TimerTypes
  <2>3. Unlink(q, firing) = q
    BY <1>3, <1>6, UnlinkElements
  <2>4. /\ \E q2, f2 : TimersAt(q2, f2)'
        /\ Left' = [LeftOf(q, Offs) EXCEPT ![firing] = 0]
        /\ Queue' = q
    <3>1. PICK t \in Timers : t = firing
      BY <1>1
    <3>2. /\ list' = rt_list_remove(list, t) /\ armed' = armed \ {t}
          /\ UNCHANGED <<timeout_tick, tick, phase>>
          /\ f = t
      BY <1>1, <1>3, <1>6, <2>1, <3>1
    <3>3. /\ \E q2, f2 : TimersAt(q2, f2)'
          /\ Left' = [LeftOf(q, Offs) EXCEPT ![t] = 0]
          /\ Queue' = Unlink(q, t)
      BY <2>2, <3>2, UnarmStep
    <3> QED
      BY <2>3, <3>1, <3>3
  <2>5. Left' = Left
    <3>1. LeftOf(q, Offs)[firing] = 0
      BY <1>1, <1>3, <1>6 DEF LeftOf
    <3>2. PICK left : left = LeftOf(q, Offs)
      OBVIOUS
    <3>3. left = [t \in Timers |-> left[t]]
      BY <3>2 DEF LeftOf
    <3>4. left = [left EXCEPT ![firing] = 0]
      BY <1>1, <3>1, <3>2, <3>3
    <3> QED
      BY <1>2, <2>4, <3>2, <3>4
  <2>6. AlarmsOf!Return
    BY <1>1, <1>2, <2>4, <2>5 DEF AlarmsOf!Return
  <2> QED
    BY <1>1, <2>2, <2>4, <2>6 DEF StepKept, TimerInv, AlarmsOf!Next
<1> QED
  BY <1>4, <1>5, <1>6

-----------------------------------------------------------------------------
(* The theorems about timers.                                              *)

\* The list that rt_system_timer_init makes.
LEMMA TimersStart ==
  ASSUME Init
  PROVE  TimerInv /\ AlarmsOf!Init
<1>1. TimerTypes
  <2>1. 0 \in Ticks /\ \A t \in Timers : FALSE \in BOOLEAN
    BY WidthFacts
  <2> QED
    BY <2>1 DEF Init, Fresh, TimerTypes
<1>2. Linked(list, <<>>, None)
  <2>1. PICK id : id = [n \in Nodes |-> n]
    OBVIOUS
  <2>2. list = [next |-> id, prev |-> id] /\ id \in [Nodes -> Nodes] /\ \A n \in Nodes : id[n] = n
    BY <2>1 DEF Init, Fresh
  <2>3. list \in PointerLists /\ \A n \in Nodes : SelfLinked(list, n)
    BY <2>2 DEF PointerLists, SelfLinked
  <2>4. <<>> \in Seq(Timers) /\ IsInjective(<<>>) /\ Len(<<>>) = 0
    BY DEF IsInjective
  <2>5. \A i \in 0 .. 0 : /\ list.next[NodeAt(<<>>, i)] = NodeAt(<<>>, i + 1)
                          /\ list.prev[NodeAt(<<>>, i + 1)] = NodeAt(<<>>, i)
    <3>1. \A i \in Int : NodeAt(<<>>, i) = ListHead
      BY <2>4 DEF NodeAt
    <3> QED
      BY <2>3, <3>1, NodeFacts DEF SelfLinked
  <2> QED
    BY <2>3, <2>4, <2>5, NodeFacts DEF Linked
<1>3. \A t : ~Contains(<<>>, t)
  BY DEF Contains
<1>4. TimersAt(<<>>, None)
  <2>1. InOrder(<<>>, Offs)
    BY DEF InOrder
  <2> QED
    BY <1>2, <1>3, <2>1 DEF TimersAt, InTime, Init, Fresh
<1>5. Queue = <<>> /\ Left = LeftOf(<<>>, Offs)
  BY <1>1, <1>4, AlarmsAre
<1>6. Left = [t \in Timers |-> 0]
  BY <1>3, <1>5 DEF LeftOf
<1> QED
  BY <1>1, <1>4, <1>5, <1>6 DEF TimerInv, AlarmsOf!Init, Init, Fresh

\* The step lemmas together.
LEMMA TimersStep ==
  ASSUME TimerInv, Next
  PROVE  StepKept
<1>1. TimerTypes /\ \E q, f : TimersAt(q, f)
  BY DEF TimerInv
<1>2. PICK q, f : TimersAt(q, f)
  BY <1>1
<1>3. ASSUME NEW t \in Timers, rt_timer_start(t)
      PROVE  StepKept
  BY <1>1, <1>2, <1>3, SetKept
<1>4. ASSUME NEW t \in Timers, CallbackStop(t) \/ rt_timer_detach(t)
      PROVE  StepKept
  BY <1>1, <1>2, <1>4, StopKept
<1>5. ASSUME NEW t \in Timers,
             \/ StopTest(t)
             \/ \E time \in Delays, flag_ \in BOOLEAN : rt_timer_init(t, time, flag_)
             \/ \E time \in Delays : SetTime(t, time)
             \/ \E flag_ \in BOOLEAN : SetPeriodic(t, flag_)
      PROVE  StepKept
  BY <1>1, <1>2, <1>5, StayKept
<1>6. CASE StopRemove
  <2>1. stopping \in Timers
    BY <1>1, <1>6 DEF StopRemove, TimerTypes
  <2> QED
    BY <1>1, <1>2, <1>6, <2>1, StopKept
<1>7. CASE Tick
  BY <1>1, <1>2, <1>7, TickKept
<1>8. CASE Expire
  BY <1>1, <1>2, <1>8, ExpireKept
<1>9. CASE CallbackReturn
  BY <1>1, <1>2, <1>9, ReturnKept
<1>10. CASE CheckDone
  BY <1>1, <1>2, <1>10, DoneKept
<1> QED
  BY <1>3, <1>4, <1>5, <1>6, <1>7, <1>8, <1>9, <1>10 DEF Next

\* What the run checks of a state follows from the invariant.
LEMMA TimersSound ==
  ASSUME TimerInv
  PROVE  TimerListSound
<1>1. TimerTypes /\ \E q, f : TimersAt(q, f)
  BY DEF TimerInv
<1>2. PICK q, f : TimersAt(q, f)
  BY <1>1
<1>3. /\ Linked(list, q, f) /\ Queue = q /\ q \in Seq(Timers) /\ IsInjective(q)
      /\ list \in PointerLists
  <2>1. Linked(list, q, f) /\ Queue = q
    BY <1>1, <1>2, AlarmsAre DEF TimersAt
  <2> QED
    BY <2>1 DEF Linked
<1>4. TypeOK /\ OnlyTimersExpire
  BY <1>1, <1>3, NodeFacts DEF TimerTypes, TypeOK, OnlyTimersExpire, PointerLists
<1>5. \A t : Listed(t) <=> Contains(q, t)
  BY <1>3 DEF Listed, Contains
<1>6. NoLostTimer
  <2> SUFFICES ASSUME NEW t \in armed
               PROVE  Listed(t) \/ firing = t
    BY DEF NoLostTimer
  <2>1. t # None
    BY <1>1, NodeFacts DEF TimerTypes
  <2>2. (Contains(q, t) \/ t = f) /\ (f # None => f = firing)
    BY <1>2 DEF TimersAt
  <2> QED
    BY <1>5, <2>1, <2>2
<1>7. ListSound
  <2>1. \A i \in 0 .. Len(q) : list.prev[list.next[Reached[i]]] = Reached[i]
    <3>1. \A i \in 0 .. Len(q) + 1 : Reached[i] = NodeAt(q, i)
      BY <1>3, ReachedRing
    <3>2. Len(q) \in Nat
      BY <1>3
    <3> SUFFICES ASSUME NEW i \in 0 .. Len(q)
                 PROVE  list.prev[list.next[Reached[i]]] = Reached[i]
      OBVIOUS
    <3>3. i \in 0 .. Len(q) + 1
      BY <3>2
    <3>4. /\ list.next[NodeAt(q, i)] = NodeAt(q, i + 1)
          /\ list.prev[NodeAt(q, i + 1)] = NodeAt(q, i)
      BY <1>3 DEF Linked
    <3> QED
      BY <3>1, <3>3, <3>4
  <2>2. \A t \in Timers : ~Contains(q, t) /\ list.next[Temp] # t => SelfLinked(list, t)
    BY <1>3, NodeFacts DEF Linked
  <2>3. list.next[Temp] # Temp => list.next[Temp] = firing
    BY <1>2, <1>3 DEF TimersAt, Linked, SelfLinked
  <2> QED
    BY <1>3, <1>5, <2>1, <2>2, <2>3 DEF ListSound, SelfLinked
<1> QED
  BY <1>4, <1>6, <1>7 DEF TimerListSound

\* The invariant of timer.c: the pointers of _timer_list and of the local list of
\* rt_timer_check spell out a sequence of timers, in the order of their timeouts, that
\* are the timers to expire.
THEOREM TimersInvariance == PartsSpec => []TimerInv
<1>1. PartsInit => TimerInv
  BY TimersStart DEF PartsInit
<1>2. TimerInv /\ [PartsNext]_allVars => TimerInv'
  <2>1. ASSUME TimerInv, Next PROVE TimerInv'
    BY <2>1, TimersStep DEF StepKept
  <2>2. ASSUME TimerInv, UNCHANGED vars PROVE TimerInv'
    <3>1. TimerTypes /\ \E q, f : TimersAt(q, f)
      BY <2>2 DEF TimerInv
    <3>2. PICK q, f : TimersAt(q, f)
      BY <3>1
    <3>3. TimerTypes'
      BY <2>2, <3>1 DEF TimerTypes, vars, timers
    <3>4. TimersAt(q, f)'
      BY <2>2, <3>2 DEF TimersAt, vars, timers, Offs
    <3> QED
      BY <3>3, <3>4 DEF TimerInv
  <2> QED
    BY <2>1, <2>2 DEF PartsNext, allVars
<1> QED
  BY <1>1, <1>2, PTL DEF PartsSpec

\* TimerListSound: whoever calls rt_timer_start, _stop, _detach, _init and _control, and
\* from where, the pointers of _timer_list are sound, a started timer is on it, and
\* rt_timer_check calls the timeout functions of timers only.
THEOREM TimerListSoundCorrect == PartsSpec => []TimerListSound
<1>1. TimerInv => TimerListSound
  BY TimersSound
<1> QED
  BY <1>1, TimersInvariance, PTL

\* OnlyArmedTimersFire: rt_timer_check does not call the timeout function of a timer that
\* was stopped or detached, or that has expired for good.
THEOREM OnlyArmedTimersFireCorrect == PartsSpec => OnlyArmedTimersFire
<1>1. TimerInv /\ [PartsNext]_allVars => [firing' # firing => firing' \in armed \cup {None}]_vars
  <2>1. ASSUME TimerInv, Next PROVE firing' # firing => firing' \in armed \cup {None}
    BY <2>1, TimersStep DEF StepKept
  <2> QED
    BY <2>1 DEF PartsNext, allVars
<1> QED
  BY <1>1, TimersInvariance, PTL DEF PartsSpec, OnlyArmedTimersFire, OnlyArmedFire

\* TimersAreAlarms: across the wrap of rt_tick, and whatever callbacks do, the timers go
\* off at their ticks and in order, as those of Alarms do.
THEOREM TimersAreAlarmsCorrect == PartsSpec => TimersAreAlarms
<1>1. PartsInit => AlarmsOf!Init
  BY TimersStart DEF PartsInit
<1>2. TimerInv /\ [PartsNext]_allVars =>
        [\/ part # "timers" \/ UNCHANGED <<list, timeout_tick, tick, phase, firing>>
         \/ AlarmsOf!Next]_AlarmsOf!vars
  <2>1. ASSUME TimerInv, Next PROVE AlarmsOf!Next \/ UNCHANGED AlarmsOf!vars
    BY <2>1, TimersStep DEF StepKept, AlarmsOf!vars
  <2>2. ASSUME UNCHANGED vars PROVE UNCHANGED <<list, timeout_tick, tick, phase, firing>>
    BY <2>2 DEF vars, timers
  <2> QED
    BY <2>1, <2>2 DEF PartsNext, allVars
<1> QED
  BY <1>1, <1>2, TimersInvariance, PTL DEF PartsSpec, TimersAreAlarms

-----------------------------------------------------------------------------
(* The copies of the kernel service.                                       *)

\* r is a memory with the addresses D.
IsMemory(r, D) == D \subseteq Int /\ r = [x \in D |-> r[x]]

\* r is m with the k bytes from s on copied to d.
IsCopied(r, m, D, d, s, k) ==
  /\ IsMemory(r, D)
  /\ \A x \in D : r[x] = IF d <= x /\ x < d + k THEN m[s + (x - d)] ELSE m[x]

\* r is m with the k bytes from d on set to b.
IsFilled(r, m, D, d, k, b) ==
  /\ IsMemory(r, D)
  /\ \A x \in D : r[x] = IF d <= x /\ x < d + k THEN b ELSE m[x]

\* f is a sequence of n elements of a set that b belongs to as well.
IsSeqWith(f, n, b) == \E S : f \in Seq(S) /\ Len(f) = n /\ b \in S

\* s is the n bytes of m from a on, followed by b.
IsClosed(s, m, a, n, b) ==
  Len(s) = n + 1 /\ s[n + 1] = b /\ \A i \in 1 .. n : s[i] = m[a + i - 1]

LEMMA LoadSeq ==
  ASSUME NEW m, NEW a \in Int, NEW n \in Nat, NEW f, f = Service!Load(m, a, n), NEW b
  PROVE  IsSeqWith(f, n, b)
<1>1. f = [i \in 1 .. n |-> m[a + i - 1]]
  BY DEF Service!Load
<1>2. PICK S : S = {m[a + i - 1] : i \in 1 .. n} \cup {b}
  OBVIOUS
<1>3. f \in [1 .. n -> S]
  BY <1>1, <1>2
<1>4. f \in Seq(S)
  BY <1>3, IsASeq
<1>5. Len(f) = n
  BY <1>1, <1>4
<1> QED
  BY <1>2, <1>4, <1>5 DEF IsSeqWith

LEMMA LoadLength ==
  ASSUME NEW m, NEW a \in Int, NEW n \in Nat, NEW f, f = Service!Load(m, a, n)
  PROVE  Len(f) = n /\ \A i \in 1 .. n : f[i] = m[a + i - 1]
<1>1. f = [i \in 1 .. n |-> m[a + i - 1]]
  BY DEF Service!Load
<1>2. IsSeqWith(f, n, 0)
  BY LoadSeq
<1>3. Len(f) = n
  BY <1>2 DEF IsSeqWith
<1> QED
  BY <1>1, <1>3

LEMMA LoadAppend ==
  ASSUME NEW m, NEW a \in Int, NEW n \in Nat, NEW f, f = Service!Load(m, a, n),
         NEW b, NEW s, s = Append(f, b)
  PROVE  IsClosed(s, m, a, n, b)
<1>1. IsSeqWith(f, n, b)
  BY LoadSeq
<1>2. PICK S : f \in Seq(S) /\ Len(f) = n /\ b \in S
  BY <1>1 DEF IsSeqWith
<1>3. Len(s) = n + 1 /\ s[n + 1] = b /\ \A i \in 1 .. n : s[i] = f[i]
  BY <1>2
<1>4. \A i \in 1 .. n : f[i] = m[a + i - 1]
  BY LoadLength
<1> QED
  BY <1>3, <1>4 DEF IsClosed

LEMMA StoreGives ==
  ASSUME NEW D, NEW r, IsMemory(r, D), NEW a \in Int,
         NEW bytes, NEW n \in Nat, Len(bytes) = n, NEW s, s = Service!Store(r, a, bytes)
  PROVE  /\ IsMemory(s, D)
         /\ \A x \in D : s[x] = IF a <= x /\ x < a + n THEN bytes[x - a + 1] ELSE r[x]
<1>1. DOMAIN r = D /\ D \subseteq Int
  BY DEF IsMemory
<1>2. s = [x \in D |-> IF x \in a .. a + n - 1 THEN bytes[x - a + 1] ELSE r[x]]
  BY <1>1 DEF Service!Store
<1>3. \A x \in D : x \in a .. a + n - 1 <=> a <= x /\ x < a + n
  BY <1>1
<1>4. IsMemory(s, D)
  BY <1>1, <1>2 DEF IsMemory
<1> QED
  BY <1>2, <1>3, <1>4

LEMMA MoveCopies ==
  ASSUME NEW D, NEW r, IsMemory(r, D), NEW a \in Int, NEW b \in Int,
         NEW u \in Nat, NEW s, s = Service!Move(r, a, b, u)
  PROVE  IsCopied(s, r, D, a, b, u)
<1>1. PICK f : f = Service!Load(r, b, u)
  OBVIOUS
<1>2. Len(f) = u /\ \A i \in 1 .. u : f[i] = r[b + i - 1]
  BY <1>1, LoadLength
<1>3. s = Service!Store(r, a, f)
  BY <1>1 DEF Service!Move
<1>4. /\ IsMemory(s, D)
      /\ \A x \in D : s[x] = IF a <= x /\ x < a + u THEN f[x - a + 1] ELSE r[x]
  BY <1>2, <1>3, StoreGives
<1>5. \A x \in D : a <= x /\ x < a + u => f[x - a + 1] = r[b + (x - a)]
  <2> SUFFICES ASSUME NEW x \in D, a <= x, x < a + u
               PROVE  f[x - a + 1] = r[b + (x - a)]
    OBVIOUS
  <2>1. x \in Int /\ x - a + 1 \in 1 .. u /\ b + (x - a + 1) - 1 = b + (x - a)
    BY <1>4 DEF IsMemory
  <2> QED
    BY <1>2, <2>1
<1> QED
  BY <1>4, <1>5 DEF IsCopied

LEMMA NothingCopied ==
  ASSUME NEW D, NEW m, IsMemory(m, D), NEW d \in Int, NEW s \in Int
  PROVE  IsCopied(m, m, D, d, s, 0)
  BY DEF IsCopied, IsMemory

\* After k bytes l more are copied: their source was not overwritten.
LEMMA CopiedTwice ==
  ASSUME NEW D, NEW m, NEW d \in Int, NEW s \in Int, NEW k \in Nat, NEW l \in Nat,
         s .. s + k + l - 1 \subseteq D, d <= s \/ s + k + l <= d,
         NEW r, IsCopied(r, m, D, d, s, k), NEW r2, IsCopied(r2, r, D, d + k, s + k, l)
  PROVE  IsCopied(r2, m, D, d, s, k + l)
<1>1. /\ IsMemory(r2, D) /\ D \subseteq Int
      /\ \A x \in D : r2[x] = IF d + k <= x /\ x < d + k + l THEN r[s + k + (x - (d + k))] ELSE r[x]
  BY DEF IsCopied, IsMemory
<1>2. \A x \in D : r[x] = IF d <= x /\ x < d + k THEN m[s + (x - d)] ELSE m[x]
  BY DEF IsCopied
<1>3. \A x \in D : r2[x] = IF d <= x /\ x < d + (k + l) THEN m[s + (x - d)] ELSE m[x]
  <2> SUFFICES ASSUME NEW x \in D
               PROVE  r2[x] = IF d <= x /\ x < d + (k + l) THEN m[s + (x - d)] ELSE m[x]
    OBVIOUS
  <2>1. x \in Int
    BY <1>1
  <2>2. CASE d + k <= x /\ x < d + k + l
    <3>1. PICK y : y = s + (x - d)
      OBVIOUS
    <3>2. /\ y \in Int /\ y \in D /\ ~(d <= y /\ y < d + k) /\ s + k + (x - (d + k)) = y
          /\ d <= x /\ x < d + (k + l)
      <4>1. y \in s .. s + k + l - 1
        BY <2>1, <2>2, <3>1
      <4> QED
        BY <2>1, <2>2, <3>1, <4>1
    <3>3. r[y] = m[y]
      BY <1>2, <3>2
    <3>4. r2[x] = r[y]
      BY <1>1, <2>2, <3>2
    <3> QED
      BY <3>1, <3>2, <3>3, <3>4
  <2>3. CASE ~(d + k <= x /\ x < d + k + l)
    <3>1. r2[x] = r[x]
      BY <1>1, <2>3
    <3>2. (d <= x /\ x < d + (k + l)) <=> (d <= x /\ x < d + k)
      BY <2>1, <2>3
    <3> QED
      BY <1>2, <3>1, <3>2
  <2> QED
    BY <2>2, <2>3
<1> QED
  BY <1>1, <1>3 DEF IsCopied

\* One more byte is copied downwards.
LEMMA CopiedDown ==
  ASSUME NEW D, NEW m, NEW d \in Int, NEW s \in Int, NEW k \in Nat,
         s - 1 \in D, s <= d,
         NEW r, IsCopied(r, m, D, d, s, k), NEW r2, IsCopied(r2, r, D, d - 1, s - 1, 1)
  PROVE  IsCopied(r2, m, D, d - 1, s - 1, k + 1)
<1>1. /\ IsMemory(r2, D) /\ D \subseteq Int
      /\ \A x \in D : r2[x] = IF d - 1 <= x /\ x < d - 1 + 1 THEN r[s - 1 + (x - (d - 1))] ELSE r[x]
  BY DEF IsCopied, IsMemory
<1>2. \A x \in D : r[x] = IF d <= x /\ x < d + k THEN m[s + (x - d)] ELSE m[x]
  BY DEF IsCopied
<1>3. r[s - 1] = m[s - 1]
  BY <1>2
<1>4. \A x \in D : r2[x] = IF d - 1 <= x /\ x < d - 1 + (k + 1) THEN m[s - 1 + (x - (d - 1))] ELSE m[x]
  <2> SUFFICES ASSUME NEW x \in D
               PROVE  r2[x] = IF d - 1 <= x /\ x < d - 1 + (k + 1)
                              THEN m[s - 1 + (x - (d - 1))] ELSE m[x]
    OBVIOUS
  <2>1. x \in Int
    BY <1>1
  <2>2. CASE x = d - 1
    <3>1. s - 1 + (x - (d - 1)) = s - 1 /\ d - 1 <= x /\ x < d - 1 + 1 /\ x < d - 1 + (k + 1)
      BY <2>2
    <3> QED
      BY <1>1, <1>3, <3>1
  <2>3. CASE x # d - 1
    <3>1. /\ ~(d - 1 <= x /\ x < d - 1 + 1)
          /\ (d <= x /\ x < d + k) <=> (d - 1 <= x /\ x < d - 1 + (k + 1))
          /\ s - 1 + (x - (d - 1)) = s + (x - d)
      BY <2>1, <2>3
    <3>2. r2[x] = r[x]
      BY <1>1, <3>1
    <3> QED
      BY <1>2, <3>1, <3>2
  <2> QED
    BY <2>2, <2>3
<1> QED
  BY <1>1, <1>4 DEF IsCopied

\* After k bytes l more are set.
LEMMA FilledTwice ==
  ASSUME NEW D, NEW m, NEW d \in Int, NEW k \in Nat, NEW l \in Nat, NEW b,
         NEW r, IsFilled(r, m, D, d, k, b), NEW r2, IsFilled(r2, r, D, d + k, l, b)
  PROVE  IsFilled(r2, m, D, d, k + l, b)
<1>1. /\ IsMemory(r2, D) /\ D \subseteq Int
      /\ \A x \in D : r2[x] = IF d + k <= x /\ x < d + k + l THEN b ELSE r[x]
  BY DEF IsFilled, IsMemory
<1>2. \A x \in D : r[x] = IF d <= x /\ x < d + k THEN b ELSE m[x]
  BY DEF IsFilled
<1>3. \A x \in D : (d <= x /\ x < d + (k + l)) <=>
                     \/ d + k <= x /\ x < d + k + l
                     \/ d <= x /\ x < d + k
  BY <1>1
<1>4. \A x \in D : r2[x] = IF d <= x /\ x < d + (k + l) THEN b ELSE m[x]
  BY <1>1, <1>2, <1>3
<1> QED
  BY <1>1, <1>4 DEF IsFilled

LEMMA StoreFills ==
  ASSUME NEW D, NEW r, IsMemory(r, D), NEW a \in Int, NEW b, NEW n \in Nat,
         NEW unit, Len(unit) = n, \A i \in 1 .. n : unit[i] = b,
         NEW s, s = Service!Store(r, a, unit)
  PROVE  IsFilled(s, r, D, a, n, b)
<1>1. /\ IsMemory(s, D) /\ D \subseteq Int
      /\ \A x \in D : s[x] = IF a <= x /\ x < a + n THEN unit[x - a + 1] ELSE r[x]
  BY StoreGives DEF IsMemory
<1>2. \A x \in Int : a <= x /\ x < a + n => x - a + 1 \in 1 .. n
  OBVIOUS
<1> QED
  BY <1>1, <1>2 DEF IsFilled

-----------------------------------------------------------------------------
(* The loops.                                                              *)

\* What pass number i of a loop makes of the memory r.
Pass(loop, r, i) ==
  CASE loop.to = "up" -> Service!Move(r, loop.d + loop.u * (i - 1), loop.s + loop.u * (i - 1), loop.u)
    [] loop.to = "down" -> Service!Move(r, loop.d + loop.n - i, loop.s + loop.n - i, 1)
    [] OTHER -> Service!Store(r, loop.d + Len(loop.unit) * (i - 1), loop.unit)

Passes(w, loop, m, n) == w = [i \in 0 .. n |-> IF i = 0 THEN m ELSE Pass(loop, w[i - 1], i)]

LEMMA PassesExist ==
  ASSUME NEW loop, NEW m, NEW n \in Nat
  PROVE  \E w : Passes(w, loop, m, n)
<1> DEFINE Steps(w, k) == Passes(w, loop, m, k)
           B == {k \in Nat : \A w : ~Steps(w, k)}
<1>1. B = {}
  <2> SUFFICES ASSUME B # {}
               PROVE  FALSE
    OBVIOUS
  <2>1. B \subseteq Nat
    OBVIOUS
  <2>2. PICK k \in B : \A j \in B : k <= j
    BY <2>1, LeastNatural
  <2>3. CASE k = 0
    <3> DEFINE w == [i \in 0 .. 0 |-> m]
    <3>1. Steps(w, 0)
      BY DEF Passes
    <3> HIDE DEF w, Steps
    <3> QED
      BY <2>2, <2>3, <3>1
  <2>4. CASE k # 0
    <3>1. k - 1 \in Nat /\ k - 1 \notin B
      BY <2>2, <2>4
    <3>2. PICK v : Steps(v, k - 1)
      BY <3>1
    <3>3. PICK z : z = Pass(loop, v[k - 1], k)
      OBVIOUS
    <3> DEFINE w == [i \in 0 .. k |-> IF i = k THEN z ELSE v[i]]
    <3>4. \A i \in 0 .. k : w[i] = IF i = 0 THEN m ELSE Pass(loop, w[i - 1], i)
      <4> SUFFICES ASSUME NEW i \in 0 .. k
                   PROVE  w[i] = IF i = 0 THEN m ELSE Pass(loop, w[i - 1], i)
        OBVIOUS
      <4>1. CASE i = k
        <5>1. w[i] = z /\ w[i - 1] = v[k - 1] /\ i # 0
          BY <2>4, <3>1, <4>1
        <5> HIDE DEF w
        <5> QED
          BY <3>3, <4>1, <5>1
      <4>2. CASE i # k
        <5>1. i \in 0 .. k - 1 /\ w[i] = v[i] /\ (i # 0 => i - 1 \in 0 .. k - 1 /\ w[i - 1] = v[i - 1])
          BY <3>1, <4>2
        <5> HIDE DEF w
        <5>2. v[i] = IF i = 0 THEN m ELSE Pass(loop, v[i - 1], i)
          BY <3>2, <5>1 DEF Passes
        <5> QED
          BY <5>1, <5>2
      <4> QED
        BY <4>1, <4>2
    <3>5. Steps(w, k)
      <4> DEFINE f == [i \in 0 .. k |-> IF i = 0 THEN m ELSE Pass(loop, w[i - 1], i)]
      <4>1. w = f
        <5>1. w = [i \in 0 .. k |-> w[i]]
          OBVIOUS
        <5> HIDE DEF w
        <5> QED
          BY <3>4, <5>1
      <4> HIDE DEF w
      <4> QED
        BY <4>1 DEF Passes
    <3> HIDE DEF w, Steps
    <3> QED
      BY <2>2, <3>5
  <2> QED
    BY <2>3, <2>4
<1> QED
  BY <1>1

\* w are the memories that a loop goes through.
GoesUp(w, m, d, s, n, u) ==
  w[0] = m /\ \A i \in 1 .. n : w[i] = Service!Move(w[i - 1], d + u * (i - 1), s + u * (i - 1), u)
GoesDown(w, m, d, s, n) ==
  w[0] = m /\ \A i \in 1 .. n : w[i] = Service!Move(w[i - 1], d + n - i, s + n - i, 1)
GoesOn(w, m, d, n, unit) ==
  w[0] = m /\ \A i \in 1 .. n : w[i] = Service!Store(w[i - 1], d + Len(unit) * (i - 1), unit)

LEMMA CopyUpPasses ==
  ASSUME NEW m, NEW d, NEW s, NEW n \in Nat, NEW u
  PROVE  \E w : Service!CopyUp(m, d, s, n, u) = w[n] /\ GoesUp(w, m, d, s, n, u)
<1> DEFINE loop == [to |-> "up", d |-> d, s |-> s, u |-> u]
<1>1. \A r, i : Pass(loop, r, i) = Service!Move(r, d + u * (i - 1), s + u * (i - 1), u)
  BY DEF Pass
<1> HIDE DEF loop
<1>2. PICK f : Passes(f, loop, m, n)
  BY PassesExist
<1> DEFINE g == [i \in 0 .. n |-> IF i = 0 THEN m ELSE Service!Move(f[i - 1], d + u * (i - 1), s + u * (i - 1), u)]
           w == CHOOSE h : h = [i \in 0 .. n |-> IF i = 0 THEN m ELSE Service!Move(h[i - 1], d + u * (i - 1), s + u * (i - 1), u)]
<1>3. f = g
  <2>1. \A i \in 0 .. n : f[i] = IF i = 0 THEN m ELSE Pass(loop, f[i - 1], i)
    BY <1>2 DEF Passes
  <2>2. f = [i \in 0 .. n |-> f[i]]
    BY <1>2 DEF Passes
  <2> QED
    BY <1>1, <2>1, <2>2
<1>4. w = [i \in 0 .. n |-> IF i = 0 THEN m ELSE Service!Move(w[i - 1], d + u * (i - 1), s + u * (i - 1), u)]
  BY <1>3, Zenon
<1>5. Service!CopyUp(m, d, s, n, u) = w[n]
  BY DEF Service!CopyUp
<1> HIDE DEF w
<1> DEFINE v == [i \in 0 .. n |-> IF i = 0 THEN m ELSE Service!Move(w[i - 1], d + u * (i - 1), s + u * (i - 1), u)]
<1>6. \A i \in 0 .. n : v[i] = IF i = 0 THEN m ELSE Service!Move(w[i - 1], d + u * (i - 1), s + u * (i - 1), u)
  OBVIOUS
<1>7. w = v
  BY <1>4
<1> HIDE DEF v
<1>8. \A i \in 0 .. n : w[i] = IF i = 0 THEN m ELSE Service!Move(w[i - 1], d + u * (i - 1), s + u * (i - 1), u)
  BY <1>6, <1>7
<1>9. GoesUp(w, m, d, s, n, u)
  BY <1>8 DEF GoesUp
<1> QED
  BY <1>5, <1>9

LEMMA CopyDownPasses ==
  ASSUME NEW m, NEW d, NEW s, NEW n \in Nat
  PROVE  \E w : Service!CopyDown(m, d, s, n) = w[n] /\ GoesDown(w, m, d, s, n)
<1> DEFINE loop == [to |-> "down", d |-> d, s |-> s, n |-> n]
<1>1. \A r, i : Pass(loop, r, i) = Service!Move(r, d + n - i, s + n - i, 1)
  BY DEF Pass
<1> HIDE DEF loop
<1>2. PICK f : Passes(f, loop, m, n)
  BY PassesExist
<1> DEFINE g == [i \in 0 .. n |-> IF i = 0 THEN m ELSE Service!Move(f[i - 1], d + n - i, s + n - i, 1)]
           w == CHOOSE h : h = [i \in 0 .. n |-> IF i = 0 THEN m ELSE Service!Move(h[i - 1], d + n - i, s + n - i, 1)]
<1>3. f = g
  <2>1. \A i \in 0 .. n : f[i] = IF i = 0 THEN m ELSE Pass(loop, f[i - 1], i)
    BY <1>2 DEF Passes
  <2>2. f = [i \in 0 .. n |-> f[i]]
    BY <1>2 DEF Passes
  <2> QED
    BY <1>1, <2>1, <2>2
<1>4. w = [i \in 0 .. n |-> IF i = 0 THEN m ELSE Service!Move(w[i - 1], d + n - i, s + n - i, 1)]
  BY <1>3, Zenon
<1>5. Service!CopyDown(m, d, s, n) = w[n]
  BY DEF Service!CopyDown
<1> HIDE DEF w
<1> DEFINE v == [i \in 0 .. n |-> IF i = 0 THEN m ELSE Service!Move(w[i - 1], d + n - i, s + n - i, 1)]
<1>6. \A i \in 0 .. n : v[i] = IF i = 0 THEN m ELSE Service!Move(w[i - 1], d + n - i, s + n - i, 1)
  OBVIOUS
<1>7. w = v
  BY <1>4
<1> HIDE DEF v
<1>8. \A i \in 0 .. n : w[i] = IF i = 0 THEN m ELSE Service!Move(w[i - 1], d + n - i, s + n - i, 1)
  BY <1>6, <1>7
<1>9. GoesDown(w, m, d, s, n)
  BY <1>8 DEF GoesDown
<1> QED
  BY <1>5, <1>9

LEMMA FillPasses ==
  ASSUME NEW m, NEW d, NEW n \in Nat, NEW unit
  PROVE  \E w : Service!Fill(m, d, n, unit) = w[n] /\ GoesOn(w, m, d, n, unit)
<1> DEFINE loop == [to |-> "fill", d |-> d, unit |-> unit]
<1>1. \A r, i : Pass(loop, r, i) = Service!Store(r, d + Len(unit) * (i - 1), unit)
  BY DEF Pass
<1> HIDE DEF loop
<1>2. PICK f : Passes(f, loop, m, n)
  BY PassesExist
<1> DEFINE g == [i \in 0 .. n |-> IF i = 0 THEN m ELSE Service!Store(f[i - 1], d + Len(unit) * (i - 1), unit)]
           w == CHOOSE h : h = [i \in 0 .. n |-> IF i = 0 THEN m ELSE Service!Store(h[i - 1], d + Len(unit) * (i - 1), unit)]
<1>3. f = g
  <2>1. \A i \in 0 .. n : f[i] = IF i = 0 THEN m ELSE Pass(loop, f[i - 1], i)
    BY <1>2 DEF Passes
  <2>2. f = [i \in 0 .. n |-> f[i]]
    BY <1>2 DEF Passes
  <2> QED
    BY <1>1, <2>1, <2>2
<1>4. w = [i \in 0 .. n |-> IF i = 0 THEN m ELSE Service!Store(w[i - 1], d + Len(unit) * (i - 1), unit)]
  BY <1>3, Zenon
<1>5. Service!Fill(m, d, n, unit) = w[n]
  BY DEF Service!Fill
<1> HIDE DEF w
<1> DEFINE v == [i \in 0 .. n |-> IF i = 0 THEN m ELSE Service!Store(w[i - 1], d + Len(unit) * (i - 1), unit)]
<1>6. \A i \in 0 .. n : v[i] = IF i = 0 THEN m ELSE Service!Store(w[i - 1], d + Len(unit) * (i - 1), unit)
  OBVIOUS
<1>7. w = v
  BY <1>4
<1> HIDE DEF v
<1>8. \A i \in 0 .. n : w[i] = IF i = 0 THEN m ELSE Service!Store(w[i - 1], d + Len(unit) * (i - 1), unit)
  BY <1>6, <1>7
<1>9. GoesOn(w, m, d, n, unit)
  BY <1>8 DEF GoesOn
<1> QED
  BY <1>5, <1>9

LEMMA Multiples ==
  ASSUME NEW n \in Nat, NEW u \in Nat, NEW i \in 1 .. n
  PROVE  /\ u * (i - 1) \in Nat /\ u * i \in Nat /\ u * n \in Nat
         /\ u * i = u * (i - 1) + u /\ u * i <= u * n
<1>1. u * (i - 1) \in Nat /\ u * i \in Nat /\ u * n \in Nat /\ u * (n - i) \in Nat
  OBVIOUS
<1>2. u * i = u * (i - 1) + u /\ u * n = u * i + u * (n - i)
  OBVIOUS
<1> QED
  BY <1>1, <1>2

LEMMA CopyUpGives ==
  ASSUME NEW D, NEW m, IsMemory(m, D), NEW d \in Int, NEW s \in Int, NEW n \in Nat, NEW u \in Nat,
         s .. s + u * n - 1 \subseteq D, d <= s \/ s + u * n <= d
  PROVE  IsCopied(Service!CopyUp(m, d, s, n, u), m, D, d, s, u * n)
<1>0. PICK w : Service!CopyUp(m, d, s, n, u) = w[n] /\ GoesUp(w, m, d, s, n, u)
  BY CopyUpPasses
<1>1. /\ Service!CopyUp(m, d, s, n, u) = w[n] /\ w[0] = m
      /\ \A i \in 1 .. n : w[i] = Service!Move(w[i - 1], d + u * (i - 1), s + u * (i - 1), u)
  BY <1>0 DEF GoesUp
<1> DEFINE B == {i \in 0 .. n : ~IsCopied(w[i], m, D, d, s, u * i)}
<1>2. B = {}
  <2> SUFFICES ASSUME B # {}
               PROVE  FALSE
    OBVIOUS
  <2>1. PICK i \in B : \A j \in B : i <= j
    <3>1. B \subseteq Nat
      OBVIOUS
    <3> QED
      BY <3>1, LeastNatural
  <2>2. CASE i = 0
    <3>1. u * 0 = 0
      OBVIOUS
    <3> QED
      BY <1>1, <2>1, <2>2, <3>1, NothingCopied
  <2>3. CASE i # 0
    <3>1. i \in 1 .. n /\ i - 1 \in 0 .. n /\ i - 1 \notin B
      BY <2>1, <2>3
    <3>2. PICK k \in Nat : k = u * (i - 1) /\ u * i = k + u /\ k + u <= u * n /\ u * n \in Nat
      BY <3>1, Multiples
    <3>3. IsCopied(w[i - 1], m, D, d, s, k)
      BY <3>1, <3>2
    <3>4. w[i] = Service!Move(w[i - 1], d + k, s + k, u)
      BY <1>1, <3>1, <3>2
    <3>5. IsCopied(w[i], w[i - 1], D, d + k, s + k, u)
      <4>1. IsMemory(w[i - 1], D)
        BY <3>3 DEF IsCopied
      <4> QED
        BY <3>4, <4>1, MoveCopies
    <3>6. s .. s + k + u - 1 \subseteq D /\ (d <= s \/ s + k + u <= d)
      BY <3>2
    <3>7. IsCopied(w[i], m, D, d, s, k + u)
      BY <3>3, <3>5, <3>6, CopiedTwice
    <3> QED
      BY <2>1, <3>2, <3>7
  <2> QED
    BY <2>2, <2>3
<1>3. n \in 0 .. n /\ n \notin B
  BY <1>2
<1> QED
  BY <1>1, <1>3

LEMMA CopyDownGives ==
  ASSUME NEW D, NEW m, IsMemory(m, D), NEW d \in Int, NEW s \in Int, NEW n \in Nat,
         s .. s + n - 1 \subseteq D, s <= d
  PROVE  IsCopied(Service!CopyDown(m, d, s, n), m, D, d, s, n)
<1>0. PICK w : Service!CopyDown(m, d, s, n) = w[n] /\ GoesDown(w, m, d, s, n)
  BY CopyDownPasses
<1>1. /\ Service!CopyDown(m, d, s, n) = w[n] /\ w[0] = m
      /\ \A i \in 1 .. n : w[i] = Service!Move(w[i - 1], d + n - i, s + n - i, 1)
  BY <1>0 DEF GoesDown
<1> DEFINE B == {i \in 0 .. n : ~IsCopied(w[i], m, D, d + n - i, s + n - i, i)}
<1>2. B = {}
  <2> SUFFICES ASSUME B # {}
               PROVE  FALSE
    OBVIOUS
  <2>1. PICK i \in B : \A j \in B : i <= j
    <3>1. B \subseteq Nat
      OBVIOUS
    <3> QED
      BY <3>1, LeastNatural
  <2>2. CASE i = 0
    BY <1>1, <2>1, <2>2, NothingCopied
  <2>3. CASE i # 0
    <3>1. PICK k \in Nat : k = i - 1
      BY <2>1, <2>3
    <3>2. i \in 1 .. n /\ k \in 0 .. n /\ k \notin B /\ i - 1 = k /\ k + 1 = i
      BY <2>1, <2>3, <3>1
    <3>3. PICK a \in Int, b \in Int : /\ a = d + n - k /\ b = s + n - k
                                      /\ a - 1 = d + n - i /\ b - 1 = s + n - i
                                      /\ b <= a /\ b - 1 \in s .. s + n - 1
      BY <3>2
    <3>4. IsCopied(w[k], m, D, a, b, k)
      BY <3>2, <3>3
    <3>5. w[i] = Service!Move(w[k], a - 1, b - 1, 1)
      BY <1>1, <3>2, <3>3
    <3>6. IsCopied(w[i], w[k], D, a - 1, b - 1, 1)
      <4>1. IsMemory(w[k], D)
        BY <3>4 DEF IsCopied
      <4> QED
        BY <3>5, <4>1, MoveCopies
    <3>7. IsCopied(w[i], m, D, a - 1, b - 1, k + 1)
      <4>1. b - 1 \in D
        BY <3>3
      <4> QED
        BY <3>3, <3>4, <3>6, <4>1, CopiedDown
    <3> QED
      BY <2>1, <3>2, <3>3, <3>7
  <2> QED
    BY <2>2, <2>3
<1>3. n \notin B
  BY <1>2
<1>4. d + n - n = d /\ s + n - n = s /\ n \in 0 .. n
  OBVIOUS
<1> QED
  BY <1>1, <1>3, <1>4

LEMMA FillGives ==
  ASSUME NEW D, NEW m, IsMemory(m, D), NEW d \in Int, NEW n \in Nat, NEW b, NEW u \in Nat,
         NEW unit, Len(unit) = u, \A i \in 1 .. u : unit[i] = b
  PROVE  IsFilled(Service!Fill(m, d, n, unit), m, D, d, u * n, b)
<1>0. PICK w : Service!Fill(m, d, n, unit) = w[n] /\ GoesOn(w, m, d, n, unit)
  BY FillPasses
<1>1. /\ Service!Fill(m, d, n, unit) = w[n] /\ w[0] = m
      /\ \A i \in 1 .. n : w[i] = Service!Store(w[i - 1], d + u * (i - 1), unit)
  BY <1>0 DEF GoesOn
<1> DEFINE B == {i \in 0 .. n : ~IsFilled(w[i], m, D, d, u * i, b)}
<1>2. B = {}
  <2> SUFFICES ASSUME B # {}
               PROVE  FALSE
    OBVIOUS
  <2>1. PICK i \in B : \A j \in B : i <= j
    <3>1. B \subseteq Nat
      OBVIOUS
    <3> QED
      BY <3>1, LeastNatural
  <2>2. CASE i = 0
    <3>1. u * 0 = 0
      OBVIOUS
    <3>2. IsFilled(m, m, D, d, 0, b)
      BY DEF IsFilled, IsMemory
    <3> QED
      BY <1>1, <2>1, <2>2, <3>1, <3>2
  <2>3. CASE i # 0
    <3>1. i \in 1 .. n /\ i - 1 \in 0 .. n /\ i - 1 \notin B
      BY <2>1, <2>3
    <3>2. PICK k \in Nat : k = u * (i - 1) /\ u * i = k + u
      BY <3>1, Multiples
    <3>3. IsFilled(w[i - 1], m, D, d, k, b)
      BY <3>1, <3>2
    <3>4. w[i] = Service!Store(w[i - 1], d + k, unit)
      BY <1>1, <3>1, <3>2
    <3>5. IsFilled(w[i], w[i - 1], D, d + k, u, b)
      <4>1. IsMemory(w[i - 1], D)
        BY <3>3 DEF IsFilled
      <4> QED
        BY <3>4, <4>1, StoreFills
    <3>6. IsFilled(w[i], m, D, d, k + u, b)
      BY <3>3, <3>5, FilledTwice
    <3> QED
      BY <2>1, <3>2, <3>6
  <2> QED
    BY <2>2, <2>3
<1>3. n \in 0 .. n /\ n \notin B
  BY <1>2
<1> QED
  BY <1>1, <1>3

-----------------------------------------------------------------------------
(* The routines.                                                           *)

\* The whole words of n bytes.
LEMMA WholeWords ==
  ASSUME NEW n \in Nat
  PROVE  n \div Long \in Nat /\ Long * (n \div Long) <= n /\ (n \div Long) * Long = Long * (n \div Long)
<1>1. Long \in Int /\ Long > 0 /\ n \in Int /\ n >= 0
  BY LongAssumption
<1> QED
  BY <1>1

\* rt_memcpy: the n bytes from s on are copied to d and nothing else is changed, in
\* any memory and for any alignment, unless the copy begins inside the source.
THEOREM MemcpyCorrect ==
  ASSUME NEW D, NEW m, IsMemory(m, D), NEW d \in Int, NEW s \in Int, NEW n \in Nat,
         s .. s + n - 1 \subseteq D, d <= s \/ s + n <= d
  PROVE  IsCopied(Service!rt_memcpy(m, d, s, n), m, D, d, s, n)
<1> DEFINE words == IF n >= 4 * Long /\ Service!Aligned(d) /\ Service!Aligned(s)
                    THEN n \div Long ELSE 0
<1>1. PICK k \in Nat : k = words
  BY WholeWords
<1>2. PICK done \in Nat : done = k * Long /\ done = Long * k /\ done <= n
  <2>1. Long * k <= n /\ k * Long = Long * k /\ Long * k \in Nat
    BY <1>1, WholeWords, LongAssumption
  <2> QED
    BY <2>1
<1>3. PICK r, r2 : /\ r = Service!CopyUp(m, d, s, k, Long)
                   /\ r2 = Service!CopyUp(r, d + done, s + done, n - done, 1)
  OBVIOUS
<1>4. Service!rt_memcpy(m, d, s, n) = r2
  BY <1>1, <1>2, <1>3 DEF Service!rt_memcpy
<1>5. IsCopied(r, m, D, d, s, done)
  <2>1. s .. s + Long * k - 1 \subseteq D /\ (d <= s \/ s + Long * k <= d)
    BY <1>2
  <2>2. Long \in Nat
    BY LongAssumption
  <2> QED
    BY <1>2, <1>3, <2>1, <2>2, CopyUpGives
<1>6. PICK l \in Nat : l = n - done /\ 1 * l = l
  BY <1>2
<1>7. IsCopied(r2, r, D, d + done, s + done, l)
  <2>1. IsMemory(r, D)
    BY <1>5 DEF IsCopied
  <2>2. PICK a \in Int, b \in Int : a = d + done /\ b = s + done
    BY <1>2
  <2>3. b .. b + 1 * l - 1 \subseteq D /\ (a <= b \/ b + 1 * l <= a)
    BY <1>6, <2>2
  <2>4. r2 = Service!CopyUp(r, a, b, l, 1)
    BY <1>3, <1>6, <2>2
  <2> QED
    BY <1>6, <2>1, <2>2, <2>3, <2>4, CopyUpGives
<1>8. s .. s + done + l - 1 \subseteq D /\ (d <= s \/ s + done + l <= d) /\ done + l = n
  BY <1>6
<1>9. IsCopied(r2, m, D, d, s, done + l)
  BY <1>5, <1>7, <1>8, CopiedTwice
<1> QED
  BY <1>4, <1>8, <1>9

\* rt_memmove: the same whatever the overlap.
THEOREM MemmoveCorrect ==
  ASSUME NEW D, NEW m, IsMemory(m, D), NEW d \in Int, NEW s \in Int, NEW n \in Nat,
         s .. s + n - 1 \subseteq D
  PROVE  IsCopied(Service!rt_memmove(m, d, s, n), m, D, d, s, n)
<1>1. CASE s < d /\ d < s + n
  <2>1. Service!rt_memmove(m, d, s, n) = Service!CopyDown(m, d, s, n)
    BY <1>1 DEF Service!rt_memmove
  <2> QED
    BY <1>1, <2>1, CopyDownGives
<1>2. CASE ~(s < d /\ d < s + n)
  <2>1. Service!rt_memmove(m, d, s, n) = Service!CopyUp(m, d, s, n, 1)
    BY <1>2 DEF Service!rt_memmove
  <2>2. 1 * n = n /\ (d <= s \/ s + n <= d)
    BY <1>2
  <2>3. IsCopied(Service!CopyUp(m, d, s, n, 1), m, D, d, s, 1 * n)
    BY <2>2, CopyUpGives
  <2> QED
    BY <2>1, <2>2, <2>3
<1> QED
  BY <1>1, <1>2

\* rt_memset: the n bytes from s on are set to c as an unsigned char, and nothing else.
THEOREM MemsetCorrect ==
  ASSUME NEW D, NEW m, IsMemory(m, D), NEW s \in Int, NEW c, NEW n \in Nat
  PROVE  IsFilled(Service!rt_memset(m, s, c, n), m, D, s, n, c % 256)
<1> DEFINE words == IF n >= Long /\ Service!Aligned(s) THEN n \div Long ELSE 0
<1>1. PICK k \in Nat : k = words
  BY WholeWords
<1>2. PICK done \in Nat : done = k * Long /\ done = Long * k /\ done <= n
  <2>1. Long * k <= n /\ k * Long = Long * k /\ Long * k \in Nat
    BY <1>1, WholeWords, LongAssumption
  <2> QED
    BY <2>1
<1>3. PICK b : b = c % 256
  OBVIOUS
<1> DEFINE unit == [x \in 1 .. Long |-> b]
<1>4. PICK r, r2 : /\ r = Service!Fill(m, s, k, unit)
                   /\ r2 = Service!Fill(r, s + done, n - done, <<b>>)
  OBVIOUS
<1>5. Service!rt_memset(m, s, c, n) = r2
  BY <1>1, <1>2, <1>3, <1>4 DEF Service!rt_memset
<1>6. Len(unit) = Long /\ \A i \in 1 .. Long : unit[i] = b
  <2>1. unit \in [1 .. Long -> {b}]
    OBVIOUS
  <2>2. unit \in Seq({b})
    BY <2>1, LongAssumption, IsASeq
  <2> QED
    BY <2>1, <2>2, LongAssumption
<1> HIDE DEF unit
<1>7. IsFilled(r, m, D, s, done, b)
  <2>1. Long \in Nat
    BY LongAssumption
  <2> QED
    BY <1>2, <1>4, <1>6, <2>1, FillGives
<1>8. PICK l \in Nat : l = n - done /\ 1 * l = l /\ done + l = n
  BY <1>2
<1>9. IsFilled(r2, r, D, s + done, l, b)
  <2>1. IsMemory(r, D)
    BY <1>7 DEF IsFilled
  <2>2. PICK one : one = <<b>>
    OBVIOUS
  <2>3. Len(one) = 1 /\ \A i \in 1 .. 1 : one[i] = b
    BY <2>2
  <2>4. PICK a \in Int : a = s + done
    BY <1>2
  <2>5. r2 = Service!Fill(r, a, l, one)
    BY <1>4, <1>8, <2>2, <2>4
  <2>6. IsFilled(r2, r, D, a, 1 * l, b)
    BY <2>1, <2>3, <2>5, FillGives
  <2> QED
    BY <1>8, <2>4, <2>6
<1>10. IsFilled(r2, m, D, s, done + l, b)
  BY <1>7, <1>9, FilledTwice
<1> QED
  BY <1>3, <1>5, <1>8, <1>10

-----------------------------------------------------------------------------
(* Strings.                                                                *)

\* e of the n bytes from a on come before a byte 0, if there is one.
EndsAt(m, a, n, e) ==
  /\ e \in 0 .. n /\ (e = n \/ m[a + e] = 0)
  /\ \A j \in 0 .. e - 1 : m[a + j] # 0

LEMMA EndExists ==
  ASSUME NEW m, NEW a \in Int, NEW n \in Nat
  PROVE  \E e : EndsAt(m, a, n, e)
<1> DEFINE B == {i \in 0 .. n : i = n \/ m[a + i] = 0}
<1>1. B \subseteq Nat /\ n \in B
  OBVIOUS
<1>2. PICK e \in B : \A j \in B : e <= j
  BY <1>1, LeastNatural
<1>3. \A j \in 0 .. e - 1 : j \in 0 .. n /\ j \notin B
  BY <1>2
<1> QED
  BY <1>2, <1>3 DEF EndsAt

LEMMA StringLoaded ==
  ASSUME NEW m, NEW a \in Int, NEW n \in Nat, NEW e, EndsAt(m, a, n, e),
         NEW s, s = Service!StringAt(m, a, n)
  PROVE  s = Service!Load(m, a, e) /\ e \in Nat
<1> DEFINE Ends(z) == (z = a + n \/ m[z] = 0) /\ \A x \in a .. z - 1 : m[x] # 0
           end == CHOOSE z \in a .. a + n : Ends(z)
<1>1. s = [i \in 1 .. end - a |-> m[a + i - 1]]
  BY DEF Service!StringAt
<1>2. e \in 0 .. n /\ (e = n \/ m[a + e] = 0) /\ \A j \in 0 .. e - 1 : m[a + j] # 0
  BY DEF EndsAt
<1>3. PICK z \in a .. a + n : z = a + e
  BY <1>2
<1>4. Ends(z)
  <2>1. \A x \in a .. z - 1 : x - a \in 0 .. e - 1 /\ a + (x - a) = x
    BY <1>2, <1>3
  <2> QED
    BY <1>2, <1>3, <2>1
<1>5. \A y \in a .. a + n : Ends(y) => y = z
  <2> SUFFICES ASSUME NEW y \in a .. a + n, Ends(y), y # z
               PROVE  FALSE
    OBVIOUS
  <2>1. CASE y < z
    BY <1>4, <2>1
  <2>2. CASE z < y
    BY <1>4, <2>2
  <2> QED
    BY <2>1, <2>2
<1> HIDE DEF Ends
<1>6. end \in a .. a + n /\ Ends(end)
  BY <1>4
<1>7. end = z
  BY <1>5, <1>6
<1> HIDE DEF end
<1>8. s = [i \in 1 .. e |-> m[a + i - 1]]
  BY <1>1, <1>2, <1>3, <1>7
<1> QED
  BY <1>2, <1>8 DEF Service!Load

LEMMA StringIs ==
  ASSUME NEW m, NEW a \in Int, NEW n \in Nat, NEW e, EndsAt(m, a, n, e),
         NEW s, s = Service!StringAt(m, a, n)
  PROVE  Len(s) = e /\ \A i \in 1 .. e : s[i] = m[a + i - 1]
  BY StringLoaded, LoadLength

LEMMA StringClosed ==
  ASSUME NEW m, NEW a \in Int, NEW n \in Nat, NEW e, EndsAt(m, a, n, e),
         NEW s, s = Append(Service!StringAt(m, a, n), 0)
  PROVE  IsClosed(s, m, a, e, 0)
<1>1. PICK f : f = Service!StringAt(m, a, n)
  OBVIOUS
<1>2. f = Service!Load(m, a, e) /\ e \in Nat
  BY <1>1, StringLoaded
<1>3. s = Append(f, 0)
  BY <1>1
<1> QED
  BY <1>2, <1>3, LoadAppend

\* The loop reads what was there before it.
LEMMA ReadsAhead ==
  ASSUME NEW D, NEW m, IsMemory(m, D), NEW d \in Int, NEW s \in Int, NEW i \in Nat,
         s .. s + i \subseteq D, d <= s \/ s + i < d
  PROVE  Service!CopyUp(m, d, s, i, 1)[s + i] = m[s + i]
<1>1. PICK r : r = Service!CopyUp(m, d, s, i, 1)
  OBVIOUS
<1>2. IsCopied(r, m, D, d, s, i)
  <2>1. 1 * i = i /\ s .. s + i - 1 \subseteq D /\ (d <= s \/ s + i <= d)
    OBVIOUS
  <2>2. IsCopied(r, m, D, d, s, 1 * i)
    BY <1>1, <2>1, CopyUpGives
  <2> QED
    BY <2>1, <2>2
<1>3. s + i \in D /\ ~(d <= s + i /\ s + i < d + i)
  OBVIOUS
<1>4. r[s + i] = m[s + i]
  BY <1>2, <1>3 DEF IsCopied
<1> QED
  BY <1>1, <1>4

LEMMA BytesBefore0Is ==
  ASSUME NEW D, NEW m, IsMemory(m, D), NEW d \in Int, NEW s \in Int, NEW n \in Nat,
         NEW e, EndsAt(m, s, n, e),
         \A i \in 0 .. e : i < n => s + i \in D /\ (d <= s \/ s + i < d)
  PROVE  Service!BytesBefore0(m, d, s, n) = e
<1> DEFINE At(i) == Service!CopyUp(m, d, s, i, 1)[s + i]
           Ends(i) == (i = n \/ At(i) = 0) /\ \A j \in 0 .. i - 1 : At(j) # 0
           k == CHOOSE i \in 0 .. n : Ends(i)
<1>1. Service!BytesBefore0(m, d, s, n) = k
  BY DEF Service!BytesBefore0
<1>2. e \in 0 .. n /\ (e = n \/ m[s + e] = 0) /\ \A j \in 0 .. e - 1 : m[s + j] # 0
  BY DEF EndsAt
<1>3. \A i \in 0 .. e : i < n => At(i) = m[s + i]
  <2> SUFFICES ASSUME NEW i \in 0 .. e, i < n
               PROVE  At(i) = m[s + i]
    OBVIOUS
  <2>1. s .. s + i \subseteq D
    <3> SUFFICES ASSUME NEW x \in s .. s + i
                 PROVE  x \in D
      OBVIOUS
    <3>1. x - s \in 0 .. e /\ x - s < n /\ s + (x - s) = x
      BY <1>2
    <3> QED
      BY <3>1
  <2>2. i \in Nat /\ (d <= s \/ s + i < d)
    OBVIOUS
  <2> QED
    BY <2>1, <2>2, ReadsAhead
<1> HIDE DEF At
<1>4. Ends(e)
  BY <1>2, <1>3
<1>5. \A i \in 0 .. n : Ends(i) => i = e
  <2> SUFFICES ASSUME NEW i \in 0 .. n, Ends(i), i # e
               PROVE  FALSE
    OBVIOUS
  <2>1. CASE i < e
    <3>1. At(i) = m[s + i] /\ i # n /\ i \in 0 .. e - 1
      BY <1>2, <1>3, <2>1
    <3> QED
      BY <1>2, <3>1
  <2>2. CASE e < i
    <3>1. e \in 0 .. i - 1 /\ e # n /\ At(e) = m[s + e]
      BY <1>2, <1>3, <2>2
    <3> QED
      BY <1>2, <3>1
  <2> QED
    BY <1>2, <2>1, <2>2
<1> HIDE DEF Ends
<1>6. k \in 0 .. n /\ Ends(k)
  BY <1>2, <1>4
<1>7. k = e
  BY <1>5, <1>6
<1> QED
  BY <1>1, <1>7

\* rt_strcpy: the string at s is copied to d with its 0, and nothing else is changed,
\* unless the copy begins inside the string.
THEOREM StrcpyCorrect ==
  ASSUME NEW D, IsFiniteSet(D), NEW m, IsMemory(m, D), NEW d \in Int, NEW s \in Int, NEW e \in Nat,
         s .. s + e \subseteq D, m[s + e] = 0, \A j \in 0 .. e - 1 : m[s + j] # 0,
         d <= s \/ s + e < d
  PROVE  IsCopied(Service!rt_strcpy(m, d, s), m, D, d, s, e + 1)
<1>1. PICK n : n = Cardinality(D)
  OBVIOUS
<1>2. n \in Nat /\ e < n
  <2>1. Cardinality(s .. s + e) = e + 1
    BY FS_Interval
  <2>2. Cardinality(s .. s + e) <= n
    BY <1>1, FS_Subset
  <2> QED
    BY <1>1, <2>1, <2>2, FS_CardinalityType
<1>3. DOMAIN m = D
  BY DEF IsMemory
<1>4. Service!BytesBefore0(m, d, s, n) = e
  <2>1. EndsAt(m, s, n, e)
    BY <1>2 DEF EndsAt
  <2>2. \A i \in 0 .. e : i < n => s + i \in D /\ (d <= s \/ s + i < d)
    OBVIOUS
  <2> QED
    BY <1>2, <2>1, <2>2, BytesBefore0Is
<1>5. PICK r, r2, one : /\ r = Service!CopyUp(m, d, s, e, 1)
                        /\ r2 = Service!Store(r, d + e, one) /\ one = <<0>>
  OBVIOUS
<1>6. Service!rt_strcpy(m, d, s) = r2
  <2>0. Service!Cardinality(D) = Cardinality(D)
    BY Zenon DEF Cardinality, Service!Cardinality
  <2>1. PICK k : k = Service!BytesBefore0(m, d, s, Service!Cardinality(DOMAIN m))
    OBVIOUS
  <2>2. Service!rt_strcpy(m, d, s) = Service!Store(Service!CopyUp(m, d, s, k, 1), d + k, <<0>>)
    BY <2>1 DEF Service!rt_strcpy
  <2>3. k = e
    BY <1>1, <1>3, <1>4, <2>0, <2>1
  <2> QED
    BY <1>5, <2>2, <2>3
<1>7. IsCopied(r, m, D, d, s, e)
  <2>1. 1 * e = e /\ s .. s + e - 1 \subseteq D /\ (d <= s \/ s + e <= d)
    OBVIOUS
  <2>2. IsCopied(r, m, D, d, s, 1 * e)
    BY <1>5, <2>1, CopyUpGives
  <2> QED
    BY <2>1, <2>2
<1>8. IsFilled(r2, r, D, d + e, 1, 0)
  <2>1. IsMemory(r, D)
    BY <1>7 DEF IsCopied
  <2>2. Len(one) = 1 /\ \A i \in 1 .. 1 : one[i] = 0
    BY <1>5
  <2>3. PICK a \in Int : a = d + e
    OBVIOUS
  <2>4. r2 = Service!Store(r, a, one)
    BY <1>5, <2>3
  <2>5. IsFilled(r2, r, D, a, 1, 0)
    BY <2>1, <2>2, <2>4, StoreFills
  <2> QED
    BY <2>3, <2>5
<1>9. \A x \in D : r2[x] = IF d <= x /\ x < d + (e + 1) THEN m[s + (x - d)] ELSE m[x]
  <2> SUFFICES ASSUME NEW x \in D
               PROVE  r2[x] = IF d <= x /\ x < d + (e + 1) THEN m[s + (x - d)] ELSE m[x]
    OBVIOUS
  <2>1. x \in Int
    BY DEF IsMemory
  <2>2. r2[x] = IF d + e <= x /\ x < d + e + 1 THEN 0 ELSE r[x]
    BY <1>8 DEF IsFilled
  <2>3. r[x] = IF d <= x /\ x < d + e THEN m[s + (x - d)] ELSE m[x]
    BY <1>7 DEF IsCopied
  <2>4. CASE x = d + e
    <3>1. s + (x - d) = s + e /\ d + e <= x /\ x < d + e + 1 /\ d <= x /\ x < d + (e + 1)
      BY <2>1, <2>4
    <3> QED
      BY <2>2, <3>1
  <2>5. CASE x # d + e
    <3>1. ~(d + e <= x /\ x < d + e + 1) /\ ((d <= x /\ x < d + (e + 1)) <=> (d <= x /\ x < d + e))
      BY <2>1, <2>5
    <3> QED
      BY <2>2, <2>3, <3>1
  <2> QED
    BY <2>4, <2>5
<1> QED
  BY <1>6, <1>8, <1>9 DEF IsCopied, IsFilled

\* rt_strncpy: the string at s, or its first n bytes, is copied to d, what is left of
\* the n bytes from d on is cleared, and nothing else is changed.
THEOREM StrncpyCorrect ==
  ASSUME NEW D, NEW m, IsMemory(m, D), NEW d \in Int, NEW s \in Int, NEW n \in Nat,
         NEW e, EndsAt(m, s, n, e),
         s .. s + n - 1 \subseteq D, d <= s \/ s + n <= d,
         NEW r, r = Service!rt_strncpy(m, d, s, n)
  PROVE  /\ IsMemory(r, D)
         /\ \A x \in D : r[x] = IF d <= x /\ x < d + e THEN m[s + (x - d)]
                                ELSE IF d <= x /\ x < d + n THEN 0 ELSE m[x]
<1>1. e \in 0 .. n
  BY DEF EndsAt
<1>2. Service!BytesBefore0(m, d, s, n) = e
  <2>1. \A i \in 0 .. e : i < n => s + i \in D /\ (d <= s \/ s + i < d)
    BY <1>1
  <2> QED
    BY <2>1, BytesBefore0Is
<1>3. PICK l \in Nat : l = n - e /\ e + l = n
  BY <1>1
<1>4. PICK r1, zeros : /\ r1 = Service!CopyUp(m, d, s, e, 1)
                       /\ r = Service!Store(r1, d + e, zeros) /\ zeros = [x \in 1 .. l |-> 0]
  BY <1>2, <1>3 DEF Service!rt_strncpy
<1>5. IsCopied(r1, m, D, d, s, e)
  <2>1. e \in Nat /\ 1 * e = e /\ s .. s + e - 1 \subseteq D /\ (d <= s \/ s + e <= d)
    BY <1>1
  <2>2. IsCopied(r1, m, D, d, s, 1 * e)
    BY <1>4, <2>1, CopyUpGives
  <2> QED
    BY <2>1, <2>2
<1>6. IsFilled(r, r1, D, d + e, l, 0)
  <2>1. IsMemory(r1, D)
    BY <1>5 DEF IsCopied
  <2>2. Len(zeros) = l /\ \A i \in 1 .. l : zeros[i] = 0
    <3>1. zeros \in [1 .. l -> {0}]
      BY <1>4
    <3>2. zeros \in Seq({0})
      BY <3>1, IsASeq
    <3> QED
      BY <1>4, <3>1, <3>2
  <2>3. PICK a \in Int : a = d + e
    BY <1>1
  <2>4. r = Service!Store(r1, a, zeros)
    BY <1>4, <2>3
  <2>5. IsFilled(r, r1, D, a, l, 0)
    BY <2>1, <2>2, <2>4, StoreFills
  <2> QED
    BY <2>3, <2>5
<1>7. \A x \in D : r[x] = IF d <= x /\ x < d + e THEN m[s + (x - d)]
                          ELSE IF d <= x /\ x < d + n THEN 0 ELSE m[x]
  <2> SUFFICES ASSUME NEW x \in D
               PROVE  r[x] = IF d <= x /\ x < d + e THEN m[s + (x - d)]
                             ELSE IF d <= x /\ x < d + n THEN 0 ELSE m[x]
    OBVIOUS
  <2>1. x \in Int
    BY DEF IsMemory
  <2>2. r[x] = IF d + e <= x /\ x < d + e + l THEN 0 ELSE r1[x]
    BY <1>6 DEF IsFilled
  <2>3. r1[x] = IF d <= x /\ x < d + e THEN m[s + (x - d)] ELSE m[x]
    BY <1>5 DEF IsCopied
  <2>4. CASE d + e <= x /\ x < d + e + l
    <3>1. ~(d <= x /\ x < d + e) /\ d <= x /\ x < d + n
      BY <1>1, <1>3, <2>1, <2>4
    <3> QED
      BY <2>2, <2>4, <3>1
  <2>5. CASE ~(d + e <= x /\ x < d + e + l)
    <3>1. (d <= x /\ x < d + e) <=> (d <= x /\ x < d + n)
      BY <1>1, <1>3, <2>1, <2>5
    <3> QED
      BY <2>2, <2>3, <2>5, <3>1
  <2> QED
    BY <2>4, <2>5
<1> QED
  BY <1>6, <1>7 DEF IsFilled

-----------------------------------------------------------------------------
(* The calls of the model.                                                 *)

\* What is asked of the routines that copy.
CopyAsked ==
  /\ call.fn \in {"rt_memcpy", "rt_memmove"} => call \in Service!Blocks
  /\ call.fn = "rt_memset" => call \in Service!Fills
  /\ call.fn \in {"rt_strcpy", "rt_strncpy"} => call \in Service!Strings

CopyInv == CopyAsked /\ CopiesExactly

\* The routine did what CopiesExactly says.
CopyDone(c, o) ==
  /\ c.fn \in {"rt_memcpy", "rt_memmove"} =>
       \/ c.fn = "rt_memcpy" /\ c.d \in c.s + 1 .. c.s + c.n - 1
       \/ o = Service!Changed(c.m, c.d, c.n, LAMBDA i : c.m[c.s + i])
  /\ c.fn \in {"rt_memset"} => o = Service!Changed(c.m, c.s, c.n, LAMBDA i : c.c % 256)
  /\ c.fn \in {"rt_strcpy"} =>
       LET s == Append(Service!StringAt(c.m, c.a, 4), 0)
       IN  o = Service!Changed(c.m, 8, Len(s), LAMBDA i : s[i + 1])
  /\ c.fn \in {"rt_strncpy"} =>
       LET s == Service!StringAt(c.m, c.a, c.n)
       IN  o = Service!Changed(c.m, 8, c.n, LAMBDA i : IF i < Len(s) THEN s[i + 1] ELSE 0)

LEMMA CopyReturned ==
  ASSUME UNCHANGED call, CopyDone(call, out')
  PROVE  CopiesExactly'
<1>1. CopyDone(call', out')
  OBVIOUS
<1> QED
  BY <1>1 DEF CopiesExactly, Service!CopiesExactly, Service!Returned, Service!Changed, CopyDone

LEMMA BlockShape ==
  ASSUME NEW c \in Service!Blocks
  PROVE  /\ c.fn \in {"rt_memcpy", "rt_memmove"} /\ c.m = Service!Memory
         /\ c.d \in Nat /\ c.s \in Nat /\ c.n \in Nat /\ c.s + c.n <= 48
  BY DEF Service!Blocks

LEMMA FillShape ==
  ASSUME NEW c \in Service!Fills
  PROVE  c.fn = "rt_memset" /\ c.m = Service!Memory /\ c.s \in Nat /\ c.n \in Nat
  BY DEF Service!Fills

LEMMA BlocksCopied ==
  ASSUME NEW c \in Service!Blocks, NEW o,
         \/ c.fn = "rt_memcpy" /\ o = Service!rt_memcpy(c.m, c.d, c.s, c.n)
         \/ c.fn = "rt_memmove" /\ o = Service!rt_memmove(c.m, c.d, c.s, c.n)
  PROVE  CopyDone(c, o)
<1>1. PICK d \in Nat, s \in Nat, n \in Nat :
        /\ s + n <= 48 /\ c.m = Service!Memory /\ c.d = d /\ c.s = s /\ c.n = n
        /\ c.fn \in {"rt_memcpy", "rt_memmove"}
  BY BlockShape
<1>2. PICK m : m = c.m
  OBVIOUS
<1>3. IsMemory(m, 0 .. 47)
  BY <1>1, <1>2 DEF Service!Memory, IsMemory
<1>4. s .. s + n - 1 \subseteq 0 .. 47 /\ d \in Int /\ s \in Int /\ n \in Nat
  BY <1>1
<1>5. (c.fn = "rt_memcpy" /\ d \in s + 1 .. s + n - 1) \/ IsCopied(o, m, 0 .. 47, d, s, n)
  <2>1. CASE c.fn = "rt_memcpy" /\ o = Service!rt_memcpy(m, d, s, n)
    <3>1. d \in s + 1 .. s + n - 1 \/ d <= s \/ s + n <= d
      BY <1>4
    <3> QED
      BY <1>3, <1>4, <2>1, <3>1, MemcpyCorrect
  <2>2. CASE c.fn = "rt_memmove" /\ o = Service!rt_memmove(m, d, s, n)
    BY <1>3, <1>4, <2>2, MemmoveCorrect
  <2> QED
    BY <1>1, <1>2, <2>1, <2>2
<1>6. IsCopied(o, m, 0 .. 47, d, s, n) => o = Service!Changed(m, d, n, LAMBDA i : m[s + i])
  <2> SUFFICES ASSUME IsCopied(o, m, 0 .. 47, d, s, n)
               PROVE  o = Service!Changed(m, d, n, LAMBDA i : m[s + i])
    OBVIOUS
  <2>1. DOMAIN m = 0 .. 47
    BY <1>3 DEF IsMemory
  <2>2. o = [x \in 0 .. 47 |-> o[x]]
    BY DEF IsCopied, IsMemory
  <2>3. \A x \in 0 .. 47 : o[x] = IF x \in d .. d + n - 1 THEN m[s + (x - d)] ELSE m[x]
    <3>1. \A x \in Int : (d <= x /\ x < d + n) <=> x \in d .. d + n - 1
      BY <1>4
    <3> QED
      BY <3>1 DEF IsCopied
  <2>4. o = [x \in 0 .. 47 |-> IF x \in d .. d + n - 1 THEN m[s + (x - d)] ELSE m[x]]
    BY <2>2, <2>3
  <2> QED
    BY <2>1, <2>4 DEF Service!Changed
<1>7. \/ c.fn = "rt_memcpy" /\ c.d \in c.s + 1 .. c.s + c.n - 1
      \/ o = Service!Changed(c.m, c.d, c.n, LAMBDA i : c.m[c.s + i])
  BY <1>1, <1>2, <1>5, <1>6 DEF Service!Changed
<1>8. c.fn \notin {"rt_memset", "rt_strcpy", "rt_strncpy"}
  BY <1>1
<1> QED
  BY <1>7, <1>8 DEF CopyDone

LEMMA BlockFilled ==
  ASSUME NEW c \in Service!Fills, NEW o, c.fn = "rt_memset",
         o = Service!rt_memset(c.m, c.s, c.c, c.n)
  PROVE  CopyDone(c, o)
<1>1. PICK s \in Nat, n \in Nat : c.m = Service!Memory /\ c.s = s /\ c.n = n
  BY FillShape
<1>2. PICK m, b : m = c.m /\ b = c.c % 256
  OBVIOUS
<1>3. IsMemory(m, 0 .. 47)
  BY <1>1, <1>2 DEF Service!Memory, IsMemory
<1>4. IsFilled(o, m, 0 .. 47, s, n, b)
  BY <1>1, <1>2, <1>3, MemsetCorrect
<1>5. o = Service!Changed(m, s, n, LAMBDA i : b)
  <2>1. DOMAIN m = 0 .. 47
    BY <1>3 DEF IsMemory
  <2>2. o = [x \in 0 .. 47 |-> o[x]]
    BY <1>4 DEF IsFilled, IsMemory
  <2>3. \A x \in 0 .. 47 : o[x] = IF x \in s .. s + n - 1 THEN b ELSE m[x]
    BY <1>4 DEF IsFilled
  <2>4. o = [x \in 0 .. 47 |-> IF x \in s .. s + n - 1 THEN b ELSE m[x]]
    BY <2>2, <2>3
  <2> QED
    BY <2>1, <2>4 DEF Service!Changed
<1>6. o = Service!Changed(c.m, c.s, c.n, LAMBDA i : c.c % 256)
  BY <1>1, <1>2, <1>5 DEF Service!Changed
<1> QED
  BY <1>6 DEF CopyDone

LEMMA FieldsFacts ==
  ASSUME NEW chars, NEW m \in Service!Fields(chars)
  PROVE  IsMemory(m, 0 .. 13) /\ m[3] = 0
<1>1. PICK f : m = [x \in 0 .. 13 |-> IF x \in {3, 7} THEN 0 ELSE IF x < 7 THEN f[x] ELSE 255]
  BY DEF Service!Fields
<1>2. IsMemory(m, 0 .. 13)
  BY <1>1 DEF IsMemory
<1> QED
  BY <1>1, <1>2

LEMMA StringFacts ==
  ASSUME NEW c \in Service!Strings
  PROVE  IsMemory(c.m, 0 .. 13) /\ c.m[3] = 0 /\ c.a = 0 /\ c.n \in {0, 2, 4}
<1>1. PICK m : /\ c.m = m /\ c.a = 0 /\ c.n \in {0, 2, 4}
               /\ m \in Service!Fields({0, 97, 200}) \/ m \in Service!Fields({0, 65, 97})
  BY DEF Service!Strings
<1>2. IsMemory(m, 0 .. 13) /\ m[3] = 0
  BY <1>1, FieldsFacts
<1> QED
  BY <1>1, <1>2

LEMMA StringCopied ==
  ASSUME NEW c \in Service!Strings, NEW o, c.fn = "rt_strcpy", o = Service!rt_strcpy(c.m, 8, c.a)
  PROVE  CopyDone(c, o)
<1>1. PICK m : m = c.m
  OBVIOUS
<1>2. IsMemory(m, 0 .. 13) /\ m[3] = 0 /\ c.a = 0
  BY <1>1, StringFacts
<1>3. PICK e : EndsAt(m, 0, 4, e)
  BY EndExists
<1>4. e \in 0 .. 3 /\ m[0 + e] = 0 /\ \A j \in 0 .. e - 1 : m[0 + j] # 0
  <2>1. e \in 0 .. 4 /\ (e = 4 \/ m[0 + e] = 0) /\ \A j \in 0 .. e - 1 : m[0 + j] # 0
    BY <1>3 DEF EndsAt
  <2>2. e # 4
    <3> SUFFICES ASSUME e = 4
                 PROVE  FALSE
      OBVIOUS
    <3>1. 3 \in 0 .. e - 1 /\ 0 + 3 = 3
      OBVIOUS
    <3> QED
      BY <1>2, <2>1, <3>1
  <2> QED
    BY <2>1, <2>2
<1>5. IsCopied(o, m, 0 .. 13, 8, 0, e + 1)
  <2>1. PICK D : D = 0 .. 13
    OBVIOUS
  <2>2. IsFiniteSet(D)
    <3>1. PICK a \in Int, b \in Int : a = 0 /\ b = 13
      OBVIOUS
    <3>2. IsFiniteSet(a .. b)
      BY FS_Interval
    <3> QED
      BY <2>1, <3>1, <3>2
  <2>3. 0 .. 0 + e \subseteq D /\ 0 + e < 8 /\ e \in Nat
    BY <1>4, <2>1
  <2>4. o = Service!rt_strcpy(m, 8, 0)
    BY <1>1, <1>2
  <2>5. IsCopied(o, m, D, 8, 0, e + 1)
    BY <1>2, <1>4, <2>1, <2>2, <2>3, <2>4, StrcpyCorrect
  <2> QED
    BY <2>1, <2>5
<1>6. PICK s : s = Append(Service!StringAt(m, 0, 4), 0)
  OBVIOUS
<1>7. Len(s) = e + 1 /\ \A i \in 0 .. e : s[i + 1] = m[0 + i]
  <2>1. Len(s) = e + 1 /\ s[e + 1] = 0 /\ \A i \in 1 .. e : s[i] = m[0 + i - 1]
    <3>1. PICK a \in Int, n \in Nat : a = 0 /\ n = 4
      OBVIOUS
    <3>2. EndsAt(m, a, n, e) /\ s = Append(Service!StringAt(m, a, n), 0)
      BY <1>3, <1>6, <3>1
    <3>3. IsClosed(s, m, a, e, 0)
      BY <3>2, StringClosed
    <3> QED
      BY <3>1, <3>3 DEF IsClosed
  <2>2. \A i \in 0 .. e : i = e \/ (i + 1 \in 1 .. e /\ 0 + (i + 1) - 1 = 0 + i)
    BY <1>4
  <2> QED
    BY <1>4, <2>1, <2>2
<1>8. o = Service!Changed(m, 8, Len(s), LAMBDA i : s[i + 1])
  <2>1. DOMAIN m = 0 .. 13
    BY <1>2 DEF IsMemory
  <2>2. o = [x \in 0 .. 13 |-> o[x]]
    BY <1>5 DEF IsCopied, IsMemory
  <2>3. \A x \in 0 .. 13 : o[x] = IF x \in 8 .. 8 + Len(s) - 1 THEN s[x - 8 + 1] ELSE m[x]
    <3> SUFFICES ASSUME NEW x \in 0 .. 13
                 PROVE  o[x] = IF x \in 8 .. 8 + Len(s) - 1 THEN s[x - 8 + 1] ELSE m[x]
      OBVIOUS
    <3>1. o[x] = IF 8 <= x /\ x < 8 + (e + 1) THEN m[0 + (x - 8)] ELSE m[x]
      BY <1>5 DEF IsCopied
    <3>2. x \in 8 .. 8 + Len(s) - 1 <=> 8 <= x /\ x < 8 + (e + 1)
      BY <1>4, <1>7
    <3>3. 8 <= x /\ x < 8 + (e + 1) => x - 8 \in 0 .. e
      BY <1>4
    <3> QED
      BY <1>7, <3>1, <3>2, <3>3
  <2>4. o = [x \in 0 .. 13 |-> IF x \in 8 .. 8 + Len(s) - 1 THEN s[x - 8 + 1] ELSE m[x]]
    BY <2>2, <2>3
  <2> QED
    BY <2>1, <2>4 DEF Service!Changed
<1>9. LET str == Append(Service!StringAt(c.m, c.a, 4), 0)
      IN  o = Service!Changed(c.m, 8, Len(str), LAMBDA i : str[i + 1])
  BY <1>1, <1>2, <1>6, <1>8 DEF Service!Changed
<1> QED
  BY <1>9 DEF CopyDone

LEMMA FieldCopied ==
  ASSUME NEW c \in Service!Strings, NEW o, c.fn = "rt_strncpy", o = Service!rt_strncpy(c.m, 8, c.a, c.n)
  PROVE  CopyDone(c, o)
<1>1. PICK m, n : m = c.m /\ n = c.n
  OBVIOUS
<1>0. IsMemory(m, 0 .. 13) /\ c.a = 0 /\ n \in {0, 2, 4}
  BY <1>1, StringFacts
<1>2. IsMemory(m, 0 .. 13) /\ c.a = 0 /\ n \in Nat /\ n <= 4
  BY <1>0
<1>3. PICK e : EndsAt(m, 0, n, e)
  <2>1. 0 \in Int /\ n \in Nat
    BY <1>2
  <2> QED
    BY <2>1, EndExists, Zenon
<1>4. e \in 0 .. n
  BY <1>3 DEF EndsAt
<1>5. /\ IsMemory(o, 0 .. 13)
      /\ \A x \in 0 .. 13 : o[x] = IF 8 <= x /\ x < 8 + e THEN m[0 + (x - 8)]
                                   ELSE IF 8 <= x /\ x < 8 + n THEN 0 ELSE m[x]
  <2>1. n \in Nat /\ 0 .. 0 + n - 1 \subseteq 0 .. 13 /\ 0 + n <= 8
    BY <1>2
  <2>2. o = Service!rt_strncpy(m, 8, 0, n)
    BY <1>1, <1>2
  <2> QED
    BY <1>2, <1>3, <2>1, <2>2, StrncpyCorrect
<1>6. PICK s : s = Service!StringAt(m, 0, n)
  OBVIOUS
<1>7. Len(s) = e /\ \A i \in 1 .. e : s[i] = m[0 + i - 1]
  <2>1. PICK a \in Int : a = 0
    OBVIOUS
  <2>2. n \in Nat /\ EndsAt(m, a, n, e) /\ s = Service!StringAt(m, a, n)
    BY <1>2, <1>3, <1>6, <2>1
  <2>3. Len(s) = e /\ \A i \in 1 .. e : s[i] = m[a + i - 1]
    BY <2>2, StringIs
  <2> QED
    BY <2>1, <2>3
<1>8. o = Service!Changed(m, 8, n, LAMBDA i : IF i < Len(s) THEN s[i + 1] ELSE 0)
  <2>1. DOMAIN m = 0 .. 13
    BY <1>2 DEF IsMemory
  <2>2. o = [x \in 0 .. 13 |-> o[x]]
    BY <1>5 DEF IsMemory
  <2>3. \A x \in 0 .. 13 : o[x] = IF x \in 8 .. 8 + n - 1
                                  THEN IF x - 8 < Len(s) THEN s[x - 8 + 1] ELSE 0 ELSE m[x]
    <3> SUFFICES ASSUME NEW x \in 0 .. 13
                 PROVE  o[x] = IF x \in 8 .. 8 + n - 1
                               THEN IF x - 8 < Len(s) THEN s[x - 8 + 1] ELSE 0 ELSE m[x]
      OBVIOUS
    <3>1. o[x] = IF 8 <= x /\ x < 8 + e THEN m[0 + (x - 8)]
                 ELSE IF 8 <= x /\ x < 8 + n THEN 0 ELSE m[x]
      BY <1>5
    <3>2. /\ x \in 8 .. 8 + n - 1 <=> 8 <= x /\ x < 8 + n
          /\ 8 <= x => (x - 8 < e <=> x < 8 + e)
          /\ 8 <= x /\ x < 8 + e => x - 8 + 1 \in 1 .. e /\ 0 + (x - 8 + 1) - 1 = 0 + (x - 8) /\ x < 8 + n
      BY <1>2, <1>4
    <3> QED
      BY <1>7, <3>1, <3>2
  <2>4. o = [x \in 0 .. 13 |-> IF x \in 8 .. 8 + n - 1
                               THEN IF x - 8 < Len(s) THEN s[x - 8 + 1] ELSE 0 ELSE m[x]]
    BY <2>2, <2>3
  <2> QED
    BY <2>1, <2>4 DEF Service!Changed
<1>9. LET str == Service!StringAt(c.m, c.a, c.n)
      IN  o = Service!Changed(c.m, 8, c.n, LAMBDA i : IF i < Len(str) THEN str[i + 1] ELSE 0)
  BY <1>1, <1>2, <1>6, <1>8 DEF Service!Changed
<1> QED
  BY <1>9 DEF CopyDone

LEMMA CopiesReturn ==
  ASSUME CopyAsked, Service!Copy
  PROVE  CopiesExactly'
<1>1. call' = call
  BY DEF Service!Copy, Service!Calls
<1>2. CopyDone(call, out')
  <2>1. ASSUME call.fn = "rt_memcpy", out' = Service!rt_memcpy(call.m, call.d, call.s, call.n)
        PROVE  CopyDone(call, out')
    BY <2>1, BlocksCopied DEF CopyAsked
  <2>2. ASSUME call.fn = "rt_memmove", out' = Service!rt_memmove(call.m, call.d, call.s, call.n)
        PROVE  CopyDone(call, out')
    BY <2>2, BlocksCopied DEF CopyAsked
  <2>3. ASSUME call.fn = "rt_memset", out' = Service!rt_memset(call.m, call.s, call.c, call.n)
        PROVE  CopyDone(call, out')
    BY <2>3, BlockFilled DEF CopyAsked
  <2>4. ASSUME call.fn = "rt_strcpy", out' = Service!rt_strcpy(call.m, 8, call.a)
        PROVE  CopyDone(call, out')
    BY <2>4, StringCopied DEF CopyAsked
  <2>5. ASSUME call.fn = "rt_strncpy", out' = Service!rt_strncpy(call.m, 8, call.a, call.n)
        PROVE  CopyDone(call, out')
    BY <2>5, FieldCopied DEF CopyAsked
  <2> QED
    BY <2>1, <2>2, <2>3, <2>4, <2>5 DEF Service!Copy, Service!Calls
<1> QED
  BY <1>1, <1>2, CopyReturned

LEMMA CopyInit == PartsInit => CopyInv
<1> SUFFICES ASSUME PartsInit PROVE CopyInv
  OBVIOUS
<1>1. CASE Service!Idle
  BY <1>1 DEF Service!Idle, CopyInv, CopyAsked, CopiesExactly, Service!CopiesExactly, Service!Returned
<1>2. CASE Service!Init
  <2>1. place = "called"
    BY <1>2 DEF Service!Init
  <2>2. ASSUME call \in Service!Blocks PROVE CopyAsked
    <3>1. call.fn \in {"rt_memcpy", "rt_memmove"}
      BY <2>2, BlockShape
    <3> QED
      BY <2>2, <3>1 DEF CopyAsked
  <2>3. ASSUME call \in Service!Fills PROVE CopyAsked
    <3>1. call.fn = "rt_memset"
      BY <2>3, FillShape
    <3> QED
      BY <2>3, <3>1 DEF CopyAsked
  <2>4. ASSUME call \in Service!Strings PROVE CopyAsked
    <3>1. call.fn \notin {"rt_memcpy", "rt_memmove", "rt_memset"}
      BY <2>4 DEF Service!Strings
    <3> QED
      BY <2>4, <3>1 DEF CopyAsked
  <2>5. ASSUME call.fn \in {"__rt_ffs", "rt_malloc_align", "rt_tick_from_millisecond",
                            "rt_vsnprintf", "printf_", "rt_kprintf", "rt_thread_delay_until"}
        PROVE  CopyAsked
    BY <2>5 DEF CopyAsked
  <2>6. call \in Service!Ffs => call.fn = "__rt_ffs"
    BY DEF Service!Ffs
  <2>7. call \in Service!AlignedBlocks => call.fn = "rt_malloc_align"
    BY DEF Service!AlignedBlocks
  <2>8. call \in Service!Milliseconds => call.fn = "rt_tick_from_millisecond"
    BY DEF Service!Milliseconds
  <2>10. Service!Printed => call.fn \in {"rt_vsnprintf", "printf_", "rt_kprintf"}
    BY DEF Service!Printed
  <2>11. call = [fn |-> "rt_thread_delay_until"] => call.fn = "rt_thread_delay_until"
    OBVIOUS
  <2>12. CopyAsked
    BY <1>2, <2>2, <2>3, <2>4, <2>5, <2>6, <2>7, <2>8, <2>10, <2>11 DEF Service!Init
  <2>9. CopiesExactly
    BY <2>1 DEF CopiesExactly, Service!CopiesExactly, Service!Returned
  <2> QED
    BY <2>9, <2>12 DEF CopyInv
<1> QED
  BY <1>1, <1>2 DEF PartsInit

LEMMA CopyNext == CopyInv /\ [PartsNext]_allVars => CopyInv'
<1> SUFFICES ASSUME CopyInv, [PartsNext]_allVars PROVE CopyInv'
  OBVIOUS
<1>1. ASSUME UNCHANGED <<call, place, out>> PROVE CopyInv'
  <2>1. call' = call /\ place' = place /\ out' = out
    BY <1>1
  <2>2. CopyAsked'
    BY <2>1 DEF CopyInv, CopyAsked
  <2>3. CopiesExactly'
    BY <2>1 DEF CopyInv, CopiesExactly, Service!CopiesExactly, Service!Returned, Service!Changed
  <2> QED
    BY <2>2, <2>3 DEF CopyInv
<1>2. ASSUME Service!Next PROVE CopyInv'
  <2>1. ASSUME UNCHANGED call PROVE CopyAsked'
    BY <2>1 DEF CopyInv, CopyAsked
  <2>2. ASSUME Service!Copy PROVE CopyInv'
    <3>1. UNCHANGED call
      BY <2>2 DEF Service!Copy, Service!Calls
    <3> QED
      BY <2>1, <2>2, <3>1, CopiesReturn DEF CopyInv
  <2>3. ASSUME UNCHANGED call,
               call.fn \notin {"rt_memcpy", "rt_memmove", "rt_memset", "rt_strcpy", "rt_strncpy"}
        PROVE  CopyInv'
    <3>1. CopiesExactly'
      BY <2>3 DEF CopiesExactly, Service!CopiesExactly, Service!Returned
    <3> QED
      BY <2>1, <2>3, <3>1 DEF CopyInv
  <2>4. CASE Service!Compare \/ Service!Search
    <3>1. /\ UNCHANGED call
          /\ call.fn \notin {"rt_memcpy", "rt_memmove", "rt_memset", "rt_strcpy", "rt_strncpy"}
      BY <2>4 DEF Service!Compare, Service!Search, Service!Calls
    <3> QED
      BY <2>3, <3>1
  <2>5. CASE Service!Measure \/ Service!Printing
    <3>1. /\ UNCHANGED call
          /\ call.fn \notin {"rt_memcpy", "rt_memmove", "rt_memset", "rt_strcpy", "rt_strncpy"}
      BY <2>5 DEF Service!Measure, Service!Printing, Service!Calls
    <3> QED
      BY <2>3, <3>1
  <2>6. CASE Service!Delaying
    BY <1>1, <2>6 DEF Service!Delaying
  <2> QED
    BY <1>2, <2>2, <2>4, <2>5, <2>6 DEF Service!Next
<1> QED
  BY <1>1, <1>2 DEF PartsNext, allVars, serviceVars

\* CopiesExactly: whatever the kernel service is asked to copy, from and to any place in
\* a word, it copies, clears and leaves alone the bytes that it should.
THEOREM CopiesExactlyCorrect == PartsSpec => []CopiesExactly
<1>1. CopyInv => CopiesExactly
  BY DEF CopyInv
<1> QED
  BY <1>1, CopyInit, CopyNext, PTL DEF PartsSpec
=============================================================================
