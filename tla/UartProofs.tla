----------------------------- MODULE UartProofs -----------------------------
(***************************************************************************)
(* Proofs about the UART driver of MCSystem: no interrupt flood, and no    *)
(* transmission without its interrupt, for any writers, messages, size of  *)
(* the ring and togglers.                                                  *)
(***************************************************************************)
EXTENDS MCSystem, TLAPS

Arming(t) == place[t] \in {"arm", "armed"}

\* While IER is rewritten by the writers alone, the TX source is enabled only during
\* a transmission, and then it is, unless the one thread that began the transmission
\* is still to enable it.
FloodInv ==
  /\ place \in [Uart!Callers -> Uart!Places]
  /\ ~toggling =>
       /\ "tx" \in ier => active
       /\ active => "tx" \in ier \/ \E t \in Uart!Callers : Arming(t)
       /\ \A t \in Uart!Callers : Arming(t) => active /\ "tx" \notin ier
       /\ \A t, u \in Uart!Callers : Arming(t) /\ Arming(u) => t = u
       /\ \A t \in Uart!Callers : place[t] # "other"

LEMMA InitFlood == Uart!Init => FloodInv
  BY DEF Uart!Init, FloodInv, Arming, Uart!Places

\* A step of t to a place at which it does not arm.
LEMMA GoesOn ==
  ASSUME FloodInv, NEW t \in Uart!Callers, NEW p \in Uart!Places \ {"arm", "armed", "other"},
         ~Arming(t), Uart!Goto(t, p), UNCHANGED <<active, ier, toggling>>
  PROVE  FloodInv'
<1>1. \A u \in Uart!Callers : place'[u] = IF u = t THEN p ELSE place[u]
  BY DEF Uart!Goto, FloodInv
<1>2. place' \in [Uart!Callers -> Uart!Places]
  BY DEF Uart!Goto, FloodInv
<1> QED
  BY <1>1, <1>2 DEF FloodInv, Arming

\* The transmission begins: active was clear, so the source is disabled and nobody
\* arms it.
LEMMA Begins ==
  ASSUME FloodInv, NEW t \in Uart!Callers, ~active, Uart!Goto(t, "arm"), active' = TRUE,
         UNCHANGED <<ier, toggling>>
  PROVE  FloodInv'
<1>1. \A u \in Uart!Callers : place'[u] = IF u = t THEN "arm" ELSE place[u]
  BY DEF Uart!Goto, FloodInv
<1>2. place' \in [Uart!Callers -> Uart!Places]
  BY DEF Uart!Goto, FloodInv, Uart!Places
<1> QED
  BY <1>1, <1>2 DEF FloodInv, Arming

LEMMA WriterKeeps ==
  ASSUME FloodInv, NEW t \in Uart!Callers,
         \/ Uart!PutcWait(t) \/ Uart!Putc(t) \/ \E n \in Messages : Uart!Transmit(t, n)
  PROVE  FloodInv'
<1>1. CASE Uart!PutcWait(t)
  BY <1>1, GoesOn DEF Uart!PutcWait, Uart!Step, Uart!ringVars, Uart!Places, Arming
<1>2. CASE Uart!Putc(t)
  <2>1. Uart!Goto(t, IF active THEN "idle" ELSE "arm") /\ active' = TRUE /\ UNCHANGED <<ier, toggling>>
    BY <1>2 DEF Uart!Putc, Uart!Step, Uart!Copy
  <2>2. CASE active
    BY <1>2, <2>1, <2>2, GoesOn DEF Uart!Putc, Uart!Step, Uart!Places, Arming
  <2>3. CASE ~active
    BY <2>1, <2>3, Begins
  <2> QED
    BY <2>2, <2>3
<1>3. ASSUME NEW n \in Messages, Uart!Transmit(t, n)
      PROVE  FloodInv'
  BY <1>3, Begins DEF Uart!Transmit, Uart!Step, Uart!Copy
<1> QED
  BY <1>1, <1>2, <1>3

LEMMA ArmKeeps ==
  ASSUME FloodInv, NEW t \in Uart!Callers, Uart!ArmLoad(t) \/ Uart!ArmStore(t)
  PROVE  FloodInv'
<1>1. CASE Uart!ArmLoad(t)
  <2>1. place[t] = "arm" /\ UNCHANGED <<active, ier, toggling>> /\ place' = [place EXCEPT ![t] = "armed"]
    BY <1>1 DEF Uart!ArmLoad, Uart!Step, Uart!Goto, Uart!ringVars
  <2>2. \A u \in Uart!Callers : place'[u] = IF u = t THEN "armed" ELSE place[u]
    BY <2>1 DEF FloodInv
  <2>3. place' \in [Uart!Callers -> Uart!Places]
    BY <2>1 DEF FloodInv, Uart!Places
  <2> QED
    BY <2>1, <2>2, <2>3 DEF FloodInv, Arming
<1>2. CASE Uart!ArmStore(t)
  <2>1. place[t] = "armed" /\ UNCHANGED <<active, toggling>> /\ place' = [place EXCEPT ![t] = "status"]
        /\ "tx" \in ier'
    BY <1>2 DEF Uart!ArmStore, Uart!Step, Uart!Goto, Uart!ringVars
  <2>2. \A u \in Uart!Callers : place'[u] = IF u = t THEN "status" ELSE place[u]
    BY <2>1 DEF FloodInv
  <2>3. place' \in [Uart!Callers -> Uart!Places]
    BY <2>1 DEF FloodInv, Uart!Places
  <2>4. ~toggling => active /\ \A u \in Uart!Callers : ~Arming(u)' /\ place'[u] # "other"
    BY <2>1, <2>2 DEF FloodInv, Arming
  <2> QED
    BY <2>1, <2>3, <2>4 DEF FloodInv
<1> QED
  BY <1>1, <1>2

LEMMA KickGoesOn ==
  ASSUME FloodInv, NEW t \in Uart!Callers,
         \/ Uart!KickStatus(t) \/ Uart!KickCompare(t) \/ Uart!KickCompared(t)
         \/ Uart!KickIndex(t) \/ Uart!KickLoad(t) \/ Uart!KickWrite(t)
         \/ Uart!KickNext(t) \/ Uart!KickAdvance(t)
  PROVE  FloodInv'
<1> DEFINE Kicks ==
      /\ ~Arming(t)
      /\ \E p \in Uart!Places \ {"arm", "armed", "other"} : Uart!Goto(t, p)
      /\ UNCHANGED <<active, ier, toggling>>
<1>1. Kicks
  <2> USE DEF Uart!Step, Uart!ringVars, Uart!Places, Uart!LoadIndex, Arming
  <2>1. CASE Uart!KickStatus(t)
    BY <2>1 DEF Uart!KickStatus
  <2>2. CASE Uart!KickCompare(t)
    BY <2>2 DEF Uart!KickCompare
  <2>3. CASE Uart!KickCompared(t)
    BY <2>3 DEF Uart!KickCompared
  <2>4. CASE Uart!KickIndex(t)
    BY <2>4 DEF Uart!KickIndex
  <2>5. CASE Uart!KickLoad(t)
    BY <2>5 DEF Uart!KickLoad
  <2>6. CASE Uart!KickWrite(t)
    BY <2>6 DEF Uart!KickWrite
  <2>7. CASE Uart!KickNext(t)
    BY <2>7 DEF Uart!KickNext
  <2>8. CASE Uart!KickAdvance(t)
    BY <2>8 DEF Uart!KickAdvance
  <2> QED
    BY <2>1, <2>2, <2>3, <2>4, <2>5, <2>6, <2>7, <2>8
<1> QED
  BY <1>1, GoesOn

LEMMA ToggleKeeps ==
  ASSUME FloodInv, NEW t \in Uart!Callers, Uart!ToggleLoad(t) \/ Uart!ToggleStore(t)
  PROVE  FloodInv'
<1>1. toggling /\ toggling' = toggling
  BY DEF Uart!ToggleLoad, Uart!ToggleStore, Uart!Step, FloodInv
<1>2. place' \in [Uart!Callers -> Uart!Places]
  BY DEF Uart!ToggleLoad, Uart!ToggleStore, Uart!Goto, FloodInv, Uart!Places
<1> QED
  BY <1>1, <1>2 DEF FloodInv

LEMMA IrqKeeps == FloodInv /\ Uart!Irq => FloodInv'
<1> SUFFICES ASSUME FloodInv, Uart!Irq PROVE FloodInv'
  OBVIOUS
<1>1. "tx" \in ier /\ UNCHANGED <<place, toggling>>
  BY DEF Uart!Irq, Uart!IrqFeed, Uart!IrqComplete, Uart!IrqIdle, Uart!Handler, Uart!Interrupt
<1>2. \/ UNCHANGED <<active, ier>>
      \/ active' = FALSE /\ ier' = ier \ {"tx"}
  BY DEF Uart!Irq, Uart!IrqFeed, Uart!IrqComplete, Uart!IrqIdle
<1> QED
  BY <1>1, <1>2 DEF FloodInv, Arming

LEMMA NextFlood == FloodInv /\ [SystemNext]_<<menu, vars, uartVars>> => FloodInv'
<1> SUFFICES ASSUME FloodInv, [SystemNext]_<<menu, vars, uartVars>> PROVE FloodInv'
  OBVIOUS
<1>1. CASE Uart!Start \/ Uart!Core \/ UNCHANGED uartVars
  <2>1. UNCHANGED <<place, active, ier, toggling>>
    BY <1>1 DEF Uart!Start, Uart!Core, Uart!CoreAccept, Uart!CoreFinish, uartVars, Uart!ringVars
  <2> QED
    BY <2>1 DEF FloodInv, Arming
<1>2. CASE Uart!Irq
  BY <1>2, IrqKeeps
<1>3. ASSUME NEW t \in Uart!Callers,
             \/ Uart!PutcWait(t) \/ \E n \in Messages : Uart!Transmit(t, n)
             \/ Uart!ToggleLoad(t) \/ Uart!Proceed(t)
      PROVE  FloodInv'
  BY <1>3, WriterKeeps, ArmKeeps, KickGoesOn, ToggleKeeps DEF Uart!Proceed
<1> QED
  BY <1>1, <1>2, <1>3 DEF SystemNext, Uart!Next

LEMMA FloodInvariance == SystemSpec => []FloodInv
<1>1. SystemInit => FloodInv
  BY InitFlood DEF SystemInit
<1> QED
  BY <1>1, NextFlood, PTL DEF SystemSpec, System

\* An interrupt of the transmitter always has something to do, while threads that
\* enable and disable other sources do not bring back a TX bit that was cleared:
\* whoever transmits, whatever the messages and the size of the ring.
THEOREM NoFloodCorrect == SystemSpec => []NoFlood
<1>1. FloodInv => NoFlood
  BY DEF FloodInv, NoFlood, Uart!NoFlood, Uart!Interrupt
<1> QED
  BY <1>1, FloodInvariance, PTL

\* A transmission in flight has its source enabled, or the thread that began it is
\* still to enable it, under the same condition: no kick, completion or next
\* transmission leaves one without an interrupt.
THEOREM ActiveIsArmedCorrect == SystemSpec => []ActiveIsArmed
<1>1. FloodInv => ActiveIsArmed
  BY DEF FloodInv, Arming, ActiveIsArmed, Uart!ActiveIsArmed
<1> QED
  BY <1>1, FloodInvariance, PTL
=============================================================================
