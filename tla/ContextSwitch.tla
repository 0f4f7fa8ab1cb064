--------------------------- MODULE ContextSwitch ---------------------------
(***************************************************************************)
(* How a thread loses the CPU and gets it back: rt_hw_context_switch and   *)
(* its exit (context_gcc.S) at task level, irq_vec (start.S) and           *)
(* rt_hw_irq_handle_switch (cpuport.c) in an interrupt.                    *)
(*                                                                         *)
(* A register stands for those that are treated alike, and a value tells   *)
(* whose it is.  Interrupts are masked from rt_schedule to the unmasking   *)
(* in rt_hw_context_switch_exit, and the handler is not interrupted: the   *)
(* core takes no interrupt until retirq.                                   *)
(***************************************************************************)
EXTENDS FiniteSets

CONSTANTS Threads, None

Regs == {"ra", "t0", "t1", "a0", "s0", "s2"}   \* "ra" stands for sp and gp as well
Saved == Regs \ {"s2"}           \* what irq_vec stores; "s2" stands for s2 to s11
Scratch == {"t0", "t1", "a0"}    \* what a function call need not preserve

Value(t, n) == [of |-> t, n |-> n]
Junk == Value(None, "junk")
Places == {"code", "jr"}         \* in the thread's code, or at the jr of the exit

VARIABLES
  live,        \* the registers of the CPU
  pc,          \* the next instruction, one of Places, or "isr" or "boot"
  masked,      \* every irq line is masked
  frame,       \* the 32 words thread->sp points at, of each thread that does not run
  current,     \* rt_current_thread
  irq_regs,    \* the words irq_vec stores to, with the place that was interrupted
  flag, from, to,   \* rt_thread_switch_interrupt_flag, rt_interrupt_from_thread, _to_thread
  own,         \* history: the registers each thread had when it last ran
  dead         \* history: those of them it does not rely on

vars == <<live, pc, masked, frame, current, irq_regs, flag, from, to, own, dead>>

\* rt_hw_stack_init: the entry, its return address and its parameter.
StackInit(t) ==
  [at |-> "code",
   regs |-> [r \in Regs |-> IF r \in {"ra", "a0"} THEN Value(t, "old") ELSE Junk]]

Init ==
  /\ live = [r \in Regs |-> Junk]
  /\ pc = "boot" /\ masked = TRUE
  /\ frame = [t \in Threads |-> StackInit(t)]
  /\ irq_regs = [at |-> "code", regs |-> [r \in Regs |-> Junk]]
  /\ current = None /\ flag = FALSE /\ from = None /\ to = None
  /\ own = [t \in Threads |-> StackInit(t).regs]
  /\ dead = [t \in Threads |-> {"t0", "t1", "s0", "s2"}]

\* The frames f when t has loaded its own: its stack pointer is above the words, which
\* its calls overwrite.
Popped(f, t) == [f EXCEPT ![t] = [at |-> "code", regs |-> [r \in Regs |-> Junk]]]

\* rt_hw_context_switch_exit to t of the frames f, up to its jr: t1 holds the place to go
\* on at, and every line is unmasked.
Exit(f, t) ==
  /\ live' = [f[t].regs EXCEPT !["t1"] = Value(None, f[t].at)]
  /\ frame' = Popped(f, t)
  /\ masked' = FALSE
  /\ pc' = "jr"

\* The first thread.  It is unmasked from the first instruction on, but no handler asks
\* for a switch yet: every thread is READY, and t is the first of the most urgent.
rt_hw_context_switch_to(t) ==
  /\ pc = "boot"
  /\ current' = t
  /\ Exit(frame, t)
  /\ UNCHANGED <<irq_regs, flag, from, to, own, dead>>

\* jr t1
JumpT1 ==
  /\ pc = "jr" /\ live["t1"].n \in Places
  /\ pc' = live["t1"].n
  /\ UNCHANGED <<live, masked, frame, current, irq_regs, flag, from, to, own, dead>>

\* The thread computes.
Run ==
  /\ pc = "code"
  /\ live' = [r \in Regs |-> Value(current, "new")]
  /\ own' = [own EXCEPT ![current] = live']
  /\ dead' = [dead EXCEPT ![current] = {}]
  /\ UNCHANGED <<pc, masked, frame, current, irq_regs, flag, from, to>>

\* The thread calls rt_schedule, and t is to run: rt_hw_context_switch.
rt_hw_context_switch(t) ==
  /\ pc = "code" /\ t # current
  /\ dead' = [dead EXCEPT ![current] = @ \union Scratch]
  /\ current' = t
  /\ Exit([frame EXCEPT ![current] = [at |-> "code", regs |-> live]], t)
  /\ UNCHANGED <<irq_regs, flag, from, to, own>>

-----------------------------------------------------------------------------
(* Interrupts.                                                             *)

\* irq_vec up to the call of irq; the handler preserves s2 to s11.
irq_vec ==
  /\ pc \in Places /\ ~masked
  /\ irq_regs' = [at |-> pc, regs |-> [r \in Regs |-> IF r \in Saved THEN live[r]
                                                      ELSE irq_regs.regs[r]]]
  /\ live' = [r \in Regs |-> IF r \in Saved THEN Junk ELSE live[r]]
  /\ pc' = "isr" /\ masked' = TRUE
  /\ UNCHANGED <<frame, current, flag, from, to, own, dead>>

\* Mutant: the thread to save is that of the last call.
rt_hw_context_switch_interruptLast(t) ==
  /\ pc = "isr" /\ t # current
  /\ from' = current
  /\ to' = t /\ flag' = TRUE /\ current' = t
  /\ UNCHANGED <<live, pc, masked, frame, irq_regs, own, dead>>

\* rt_schedule, called by the handler of one source after the other.
rt_hw_context_switch_interrupt(t) ==
  /\ pc = "isr" /\ t # current
  /\ from' = IF flag THEN from ELSE current
  /\ to' = t /\ flag' = TRUE /\ current' = t
  /\ UNCHANGED <<live, pc, masked, frame, irq_regs, own, dead>>

\* No switch was asked for: what irq_vec stored is loaded again.
IrqReturn ==
  /\ pc = "isr" /\ ~flag
  /\ live' = [r \in Regs |-> IF r \in Saved THEN irq_regs.regs[r] ELSE live[r]]
  /\ pc' = irq_regs.at /\ masked' = FALSE
  /\ UNCHANGED <<frame, current, irq_regs, flag, from, to, own, dead>>

\* rt_hw_irq_handle_switch moves the words to the stack of the thread that was
\* interrupted, with s2 to s11 as they are, and the frame of the next into their
\* place; irq_vec loads all of it.
IrqSwitch ==
  /\ pc = "isr" /\ flag
  /\ LET saved == [irq_regs EXCEPT !.regs = [r \in Regs |-> IF r \in Saved THEN @[r] ELSE live[r]]]
         frames == [frame EXCEPT ![from] = saved]
     IN  irq_regs' = frames[to] /\ frame' = Popped(frames, to)
  /\ live' = irq_regs'.regs
  /\ pc' = irq_regs'.at /\ masked' = FALSE /\ flag' = FALSE
  /\ UNCHANGED <<current, from, to, own, dead>>

Next ==
  \/ \E t \in Threads :
       rt_hw_context_switch_to(t) \/ rt_hw_context_switch(t) \/ rt_hw_context_switch_interrupt(t)
  \/ JumpT1 \/ Run \/ irq_vec \/ IrqReturn \/ IrqSwitch

Spec == Init /\ [][Next]_vars

-----------------------------------------------------------------------------
\* A thread that goes on in its code has every register as it was when it lost the
\* CPU, whoever ran meanwhile and however the CPU changed hands, except those a call
\* need not preserve if it called rt_schedule; and interrupts are not masked.
Restored(regs) ==
  pc = "code" =>
    /\ ~masked
    /\ \A r \in regs \ dead[current] : live[r] = own[current][r]

ResumedExactly == Restored(Regs \ {"t1"})

\* t1, which the exit jumps with, too: "the resumed code (at a function-call
\* boundary) never relies on its value" (context_gcc.S:102).
T1NotReliedOn == Restored({"t1"})
=============================================================================
