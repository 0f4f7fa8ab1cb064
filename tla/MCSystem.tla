------------------------------ MODULE MCSystem ------------------------------
(***************************************************************************)
(* The kernel under the calls of an application, and the transmission over *)
(* the UART, one at a time.  The first state chooses what the application  *)
(* uses: the semaphore, also from handlers; the services that concern the  *)
(* threads themselves; or the UART, whose driver makes no call of the      *)
(* kernel.                                                                 *)
(***************************************************************************)
EXTENDS MCKernel

CONSTANTS
  Writers, Togglers, Main,    \* of UartDriver
  RingSize, Bytes, Messages

ASSUME RingAssumption == RingSize \in Nat \ {0, 1} /\ RingSize < 2^15
ASSUME WritersAssumption == Main \in Writers
ASSUME BytesAssumption == Bytes \in Nat /\ Messages \subseteq 1 .. Bytes
ASSUME NoByteAssumption == None \notin 0 .. Bytes

VARIABLES
  menu,
  \* of UartDriver
  ring, head, tail, active, ier, pending, ready, shift, place, mask, index, byte, toggling,
  started, resumed, put, sent

Uart == INSTANCE UartDriver WITH pc <- place

uartVars == <<ring, head, tail, active, ier, pending, ready, shift, place, mask, index, byte,
              toggling, started, resumed, put, sent>>

\* What a state is told by.  Which bytes are on their way decides nothing.
Told ==
  <<menu, vars, head, tail, active, ier, pending = None, ready, shift = None, place, mask,
    index, toggling, started, resumed, put>>

SystemInit ==
  /\ menu \in {"semaphore", "threads", "uart"}
  /\ Init /\ Uart!Init
  /\ menu # "uart" => ~toggling

\* Handlers release the semaphore only if some thread uses it.
KernelNext ==
  \/ Boot
  \/ Tick \/ TimerExpire \/ TickReturn
  \/ \E s \in Sems : menu = "semaphore" /\ IsrRelease(s)
  \/ \E t \in Threads :
       \/ CallSchedule(t)
       \/ menu = "semaphore" /\ SemaphoreStep(t)
       \/ menu = "threads" /\ ControlStep(t)

SystemNext ==
  /\ UNCHANGED menu
  /\ \/ menu # "uart" /\ KernelNext /\ UNCHANGED uartVars
     \/ menu = "uart" /\ Uart!Next /\ UNCHANGED vars

System == SystemInit /\ [][SystemNext]_<<menu, vars, uartVars>>

\* The fairness of the driver; nothing is asked of the kernel that needs any.
SystemSpec ==
  /\ System
  /\ \A t \in Writers \cup Togglers : SF_uartVars(menu = "uart" /\ Uart!Proceed(t))
  /\ WF_uartVars(menu = "uart" /\ (Uart!Start \/ Uart!Irq))
  /\ WF_uartVars(menu = "uart" /\ Uart!Core)

-----------------------------------------------------------------------------
(* The properties of the driver; those of Kernel are checked as they are.  *)

\* The variables of the UART driver have their types: no kick or handler takes an
\* index of the ring (uart.c:67, 237) out of it.
UartTyped == Uart!TypeOK

\* While nobody else rewrites IER, an interrupt of the transmitter has a byte to
\* feed or a completion to report.
NoFlood == Uart!NoFlood

\* While nobody else rewrites IER, a transmission in flight has its source enabled,
\* or a thread is about to enable it.
ActiveIsArmed == Uart!ActiveIsArmed

=============================================================================
