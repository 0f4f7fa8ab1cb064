----------------------------- MODULE UartDriver -----------------------------
(***************************************************************************)
(* Interrupt-driven transmission over one UART: the ring of uart.c between *)
(* the threads that fill it and the interrupt handler that drains it, the  *)
(* transmit side of uart_axil.v, and the enable bit of the TX source in    *)
(* irq_ctrl's IER, which threads and handlers rewrite by load and store.   *)
(*                                                                         *)
(* A thread's action is what it does up to the next point where an         *)
(* interrupt may come: a section with interrupts masked, or one access to  *)
(* a register or a volatile field; only the wait of uart_it_putc looks at  *)
(* both indices at once.  The handler is one action: only the core runs    *)
(* beside it, and all the core could change under it is to clear           *)
(* TX_PENDING, which the handler reads once.                               *)
(*                                                                         *)
(* The bytes are numbered 1, 2, 3 ... in the order they enter the ring, so *)
(* the wire should carry 1, 2, 3 ...; a slot never written holds 0.  What  *)
(* a thread has loaded and used is forgotten: 0, or the empty mask.        *)
(*                                                                         *)
(* pc[t] is where thread t stands:                                         *)
(*   "idle"    in the application                                          *)
(*   "putc"    in uart_it_putc, after the wait for a free slot             *)
(*   "arm", "armed"      in irq_enable_src(irq_src_tx), before its load    *)
(*             and before its store                                        *)
(*   "status", "compare", "vstail", "vshead", "index", "load", "write",    *)
(*   "next", "advance"   in uart_it_tx_kick                                *)
(*   "other"   in irq_enable_src or irq_disable_src of another source,     *)
(*             before its store                                            *)
(***************************************************************************)
EXTENDS Integers, Sequences

CONSTANTS
  Writers,      \* threads that transmit
  Main,         \* the writer that stands for main() before the scheduler starts
  Togglers,     \* threads that enable and disable another source (gpioirq)
  RingSize,     \* tx_ring_size
  Bytes,        \* bound on the bytes transmitted
  Messages,     \* the sizes passed to uart_transmit_it
  None          \* no byte

Callers == Writers \cup Togglers
Sources == {"tx", "other"}
Places == {"idle", "putc", "arm", "armed", "status", "compare", "vstail", "vshead", "index",
           "load", "write", "next", "advance", "other"}
Slots == 0 .. RingSize - 1

VARIABLES
  ring, head, tail, active,   \* uart_t: tx_ring, tx_head, tx_tail, tx_active
  ier,                        \* the enabled sources of irq_ctrl
  pending,                    \* uart_axil: the byte behind tx_pending, None if it is clear
  ready,                      \* uart_axil: tx_irq_pend, the level of int_tx
  shift,                      \* the byte the uart core shifts out, None if it is idle
  pc,                         \* where each thread stands
  mask,                       \* the value of IER a thread has loaded
  index,                      \* the value of an index a thread has loaded
  byte,                       \* the byte a thread has loaded from the ring
  toggling,                   \* the first state chooses whether the Togglers run
  started,                    \* board_tick_start and the scheduler have enabled interrupts
  resumed,                    \* the CPU has just left an interrupt (irq_delay)
  put,                        \* ghost: the number of bytes that entered the ring
  sent                        \* ghost: the bytes TXDATA took, in order

ringVars == <<ring, head, tail, active>>
coreVars == <<pending, ready, shift>>
locals == <<mask, index, byte>>
vars == <<ringVars, ier, coreVars, pc, locals, toggling, started, resumed, put, sent>>

\* uart_it_init, and uart_axil some cycles after reset: the core's ready line has
\* risen once, so int_tx is up (uart_axil.v:151-153, uart_tx.v:79-90).
Init ==
  /\ ring = [i \in Slots |-> 0]
  /\ head = 0 /\ tail = 0
  /\ active = FALSE
  /\ ier = {}
  /\ pending = None /\ shift = None
  /\ ready = TRUE
  /\ pc = [t \in Callers |-> "idle"]
  /\ mask = [t \in Callers |-> {}]
  /\ index = [t \in Callers |-> 0]
  /\ byte = [t \in Callers |-> 0]
  /\ toggling \in BOOLEAN
  /\ started = FALSE
  /\ resumed = FALSE
  /\ put = 0
  /\ sent = <<>>

-----------------------------------------------------------------------------
(* The arithmetic of the indices.                                          *)

Succ(i) == (i + 1) % RingSize

\* (uint16_t)((tx_head - tx_tail) % tx_ring_size): the operands are promoted to
\* int, the remainder has the sign of the dividend, the cast wraps.
Queued == IF head >= tail THEN head - tail ELSE (head - tail) % 2^16

\* (tx_ring_size - 1u) - Queued, as a uint16_t.
Free == (RingSize - 1 - Queued) % 2^16

-----------------------------------------------------------------------------
(* Registers.                                                              *)

\* A write of b to TXDATA; uart_axil ignores it while a byte is pending.
WriteTxData(b) ==
  IF pending = None
  THEN /\ pending' = b
       /\ ready' = FALSE
       /\ sent' = Append(sent, b)
  ELSE UNCHANGED <<pending, ready, sent>>

\* The CPU is interrupted: the latch is up, the source and interrupts are enabled.
Interrupt == ready /\ "tx" \in ier /\ started

\* A thread takes a step: no interrupt is due, or it is the one instruction the
\* CPU executes between two interrupts.
Step(t, place) ==
  /\ pc[t] = place
  /\ started \/ t = Main
  /\ ~Interrupt \/ resumed
  /\ resumed' = FALSE
  /\ UNCHANGED <<toggling, started>>

Goto(t, place) == pc' = [pc EXCEPT ![t] = place]

\* board_tick_start sets MER, and the first switch unmasks the CPU.
Start ==
  /\ ~started
  /\ pc[Main] = "idle"
  /\ started' = TRUE
  /\ UNCHANGED <<ringVars, ier, coreVars, pc, locals, toggling, resumed, put, sent>>

-----------------------------------------------------------------------------
(* uart_it_putc and uart_transmit_it.                                      *)

\* n bytes enter the ring, whatever it holds.
Copy(n) ==
  /\ put + n <= Bytes
  /\ ring' = [i \in Slots |->
       IF \E j \in 0 .. n - 1 : i = (head + j) % RingSize
       THEN put + 1 + CHOOSE j \in 0 .. n - 1 :
              i = (head + j) % RingSize /\ \A l \in j + 1 .. n - 1 : i # (head + l) % RingSize
       ELSE ring[i]]
  /\ head' = (head + n) % RingSize
  /\ put' = put + n
  /\ active' = TRUE

\* The wait of uart_it_putc for a free slot, with interrupts enabled.
PutcWait(t) ==
  /\ Step(t, "idle")
  /\ t \in Writers
  /\ put < Bytes
  /\ Free > 0
  /\ Goto(t, "putc")
  /\ UNCHANGED <<ringVars, ier, coreVars, locals, put, sent>>


\* Its masked section.
Putc(t) ==
  /\ Step(t, "putc")
  /\ Copy(1)
  /\ Goto(t, IF active THEN "idle" ELSE "arm")
  /\ UNCHANGED <<tail, ier, coreVars, locals, sent>>

\* Mutant: the source is not armed.
TransmitUnarmed(t, n) ==
  /\ Step(t, "idle")
  /\ t \in Writers
  /\ ~active
  /\ n <= Free
  /\ Copy(n)
  /\ Goto(t, "status")
  /\ UNCHANGED <<tail, ier, coreVars, locals, sent>>

\* The masked section of uart_transmit_it; while a transmission is in flight, or
\* without room for the message, it returns -1.
Transmit(t, n) ==
  /\ Step(t, "idle")
  /\ t \in Writers
  /\ ~active
  /\ n <= Free
  /\ Copy(n)
  /\ Goto(t, "arm")
  /\ UNCHANGED <<tail, ier, coreVars, locals, sent>>

-----------------------------------------------------------------------------
(* irq_enable_src and irq_disable_src: a load and a store of IER.          *)

ArmLoad(t) ==
  /\ Step(t, "arm")
  /\ mask' = [mask EXCEPT ![t] = ier]
  /\ Goto(t, "armed")
  /\ UNCHANGED <<ringVars, ier, coreVars, index, byte, put, sent>>

ArmStore(t) ==
  /\ Step(t, "armed")
  /\ ier' = mask[t] \cup {"tx"}
  /\ mask' = [mask EXCEPT ![t] = {}]
  /\ Goto(t, "status")
  /\ UNCHANGED <<ringVars, coreVars, index, byte, put, sent>>

ToggleLoad(t) ==
  /\ Step(t, "idle")
  /\ toggling /\ t \in Togglers
  /\ mask' = [mask EXCEPT ![t] = ier]
  /\ Goto(t, "other")
  /\ UNCHANGED <<ringVars, ier, coreVars, index, byte, put, sent>>

ToggleStore(t) ==
  /\ Step(t, "other")
  /\ \E v \in {mask[t] \cup {"other"}, mask[t] \ {"other"}} : ier' = v
  /\ mask' = [mask EXCEPT ![t] = {}]
  /\ Goto(t, "idle")
  /\ UNCHANGED <<ringVars, coreVars, index, byte, put, sent>>

-----------------------------------------------------------------------------
(* uart_it_tx_kick.                                                        *)

KickStatus(t) ==
  /\ Step(t, "status")
  /\ Goto(t, IF pending = None THEN "compare" ELSE "idle")
  /\ UNCHANGED <<ringVars, ier, coreVars, locals, put, sent>>

\* t loads i, which is one of the indices, and goes on at place.
LoadIndex(t, i, place) ==
  /\ index' = [index EXCEPT ![t] = i]
  /\ Goto(t, place)
  /\ UNCHANGED <<ringVars, ier, coreVars, mask, byte, put, sent>>

\* u->tx_head != u->tx_tail: C leaves open which is loaded first ...
KickCompare(t) ==
  /\ Step(t, "compare")
  /\ LoadIndex(t, head, "vstail") \/ LoadIndex(t, tail, "vshead")

\* ... and the other one is compared with it.
KickCompared(t) ==
  /\ \E place \in {"vstail", "vshead"} :
       /\ Step(t, place)
       /\ Goto(t, IF index[t] # (IF place = "vstail" THEN tail ELSE head) THEN "index" ELSE "idle")
  /\ index' = [index EXCEPT ![t] = 0]
  /\ UNCHANGED <<ringVars, ier, coreVars, mask, byte, put, sent>>

\* REG32(u->base + UART_TXDATA) = u->tx_ring[u->tx_tail]: tx_tail, the byte, the register.
KickIndex(t) == Step(t, "index") /\ LoadIndex(t, tail, "load")

KickLoad(t) ==
  /\ Step(t, "load")
  /\ byte' = [byte EXCEPT ![t] = ring[index[t]]]
  /\ index' = [index EXCEPT ![t] = 0]
  /\ Goto(t, "write")
  /\ UNCHANGED <<ringVars, ier, coreVars, mask, put, sent>>

KickWrite(t) ==
  /\ Step(t, "write")
  /\ WriteTxData(byte[t])
  /\ byte' = [byte EXCEPT ![t] = 0]
  /\ Goto(t, "next")
  /\ UNCHANGED <<ringVars, ier, shift, mask, index, put>>

\* tx_tail is loaded again, and stored.
KickNext(t) == Step(t, "next") /\ LoadIndex(t, tail, "advance")

\* Mutant: the index runs past the end of the ring.
KickAdvanceFar(t) ==
  /\ Step(t, "advance")
  /\ tail' = index[t] + 1
  /\ index' = [index EXCEPT ![t] = 0]
  /\ Goto(t, "idle")
  /\ UNCHANGED <<ring, head, active, ier, coreVars, mask, byte, put, sent>>

KickAdvance(t) ==
  /\ Step(t, "advance")
  /\ tail' = Succ(index[t])
  /\ index' = [index EXCEPT ![t] = 0]
  /\ Goto(t, "idle")
  /\ UNCHANGED <<ring, head, active, ier, coreVars, mask, byte, put, sent>>

-----------------------------------------------------------------------------
(* The interrupt handler, uart_it_irq_tx.                                  *)

Handler == Interrupt /\ resumed' = TRUE /\ UNCHANGED <<ring, head, shift, pc, locals, toggling, started, put>>

IrqFeed ==
  /\ Handler
  /\ pending = None
  /\ head # tail
  /\ WriteTxData(ring[tail])
  /\ tail' = Succ(tail)
  /\ UNCHANGED <<active, ier>>

\* Mutant: the source stays enabled.
IrqCompleteArmed ==
  /\ Handler
  /\ pending = None
  /\ head = tail
  /\ active
  /\ active' = FALSE
  /\ UNCHANGED <<tail, ier, pending, ready, sent>>

\* uart_tx_cplt is called: the transmission is complete.
IrqComplete ==
  /\ Handler
  /\ pending = None
  /\ head = tail
  /\ active
  /\ active' = FALSE
  /\ ier' = ier \ {"tx"}
  /\ UNCHANGED <<tail, pending, ready, sent>>

\* Nothing to do; the line stays up.
IrqIdle ==
  /\ Handler
  /\ pending # None \/ (head = tail /\ ~active)
  /\ UNCHANGED <<tail, active, ier, pending, ready, sent>>

-----------------------------------------------------------------------------
(* The transmitter: it takes the pending byte when it is idle, and raises  *)
(* int_tx when it is ready for another.                                    *)

CoreAccept ==
  /\ pending # None
  /\ shift = None
  /\ shift' = pending
  /\ pending' = None
  /\ UNCHANGED <<ringVars, ier, ready, pc, locals, toggling, started, resumed, put, sent>>

CoreFinish ==
  /\ shift # None
  /\ shift' = None
  /\ ready' = TRUE
  /\ UNCHANGED <<ringVars, ier, pending, pc, locals, toggling, started, resumed, put, sent>>

-----------------------------------------------------------------------------
Proceed(t) ==
  \/ Putc(t)
  \/ ArmLoad(t)
  \/ ArmStore(t)
  \/ KickStatus(t)
  \/ KickCompare(t)
  \/ KickCompared(t)
  \/ KickIndex(t)
  \/ KickLoad(t)
  \/ KickWrite(t)
  \/ KickNext(t)
  \/ KickAdvance(t)
  \/ ToggleStore(t)

Irq == IrqFeed \/ IrqComplete \/ IrqIdle

Core == CoreAccept \/ CoreFinish

Next ==
  \/ \E t \in Callers :
       \/ PutcWait(t)
       \/ \E n \in Messages : Transmit(t, n)
       \/ ToggleLoad(t)
       \/ Proceed(t)
  \/ Start
  \/ Irq
  \/ Core

Spec == Init /\ [][Next]_vars

\* A call that was begun is finished, main() starts the scheduler, the CPU takes
\* interrupts, which it does not before, and the transmitter shifts; nobody is bound
\* to transmit.
Fairness ==
  /\ \A t \in Callers : SF_vars(Proceed(t))
  /\ WF_vars(Start \/ Irq)
  /\ WF_vars(Core)

LiveSpec == Spec /\ Fairness

-----------------------------------------------------------------------------
(* Properties.                                                             *)

\* The variables have their types.
TypeOK ==
  /\ ring \in [Slots -> 0 .. Bytes]
  /\ head \in Slots /\ tail \in Slots
  /\ active \in BOOLEAN
  /\ ier \subseteq Sources
  /\ pending \in 0 .. Bytes \cup {None} /\ shift \in 0 .. Bytes \cup {None}
  /\ ready \in BOOLEAN
  /\ pc \in [Callers -> Places]
  /\ mask \in [Callers -> SUBSET Sources]
  /\ index \in [Callers -> Slots]
  /\ byte \in [Callers -> 0 .. Bytes]
  /\ toggling \in BOOLEAN
  /\ started \in BOOLEAN
  /\ resumed \in BOOLEAN
  /\ put \in 0 .. Bytes
  /\ sent \in Seq(0 .. Bytes)

\* A transmission in flight has its source enabled, or the thread that began it is
\* about to enable it, while nobody else rewrites IER: however the kick, the handler and
\* the ends of earlier transmissions fall together, none is left without an interrupt.
ActiveIsArmed ==
  ~toggling /\ active => "tx" \in ier \/ \E t \in Callers : pc[t] \in {"arm", "armed"}

\* While nobody else rewrites IER, an interrupt of the transmitter has a byte to
\* feed or a completion to report, so the line does not flood the CPU
\* (uart_axil.v:79-83).
NoFlood == ~toggling /\ Interrupt => head # tail \/ active


\* The same, whatever other sources threads enable and disable: "Completion [is]
\* reported via uart_tx_cplt()" (uart.h:81).
ReportedBesideOthers == active ~> ~active

\* uart_transmit_it is to "start an asynchronous transmit of `size` bytes" (uart.h:78),
\* for which uart_it_tx_kick is to "submit the first queued byte directly to start the
\* flow" (uart.c:60-61): each byte of the ring is submitted once, in order.
SentInOrder == Len(sent) <= put /\ \A i \in 1 .. Len(sent) : sent[i] = i

\* uart_it_putc "blocks while the ring is full" (uart.h:89-90): with one writer it
\* never holds more unsent bytes than it has room for.
PutcWaitsForRoom == put - Len(sent) <= RingSize - 1
=============================================================================
