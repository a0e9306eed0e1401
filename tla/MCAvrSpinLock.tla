---------------------------- MODULE MCAvrSpinLock ----------------------------
(* A thread and an interrupt handler that share a key followed by zeroes.   *)
EXTENDS AvrSpinLock

MCAfter == [n \in 1 .. 2 |-> 0]
=============================================================================
