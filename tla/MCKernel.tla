------------------------------ MODULE MCKernel ------------------------------
(***************************************************************************)
(* Instances of Kernel for TLC: threads a and b that share the work, c and *)
(* an idle thread, and one semaphore.                                      *)
(***************************************************************************)
EXTENDS Kernel

CONSTANTS a, b, c, idle, sem

\* a is the most urgent; b and c share a priority; the idle thread is last.
MCPriority == [t \in Threads |-> IF t = a THEN 0 ELSE IF t = idle THEN 2 ELSE 1]

\* Every thread at one priority.
FlatPriority == [t \in Threads |-> 0]

\* a and b are the most urgent.
TwoTop == [t \in Threads |-> IF t \in {a, b} THEN 0 ELSE 2]

=============================================================================
