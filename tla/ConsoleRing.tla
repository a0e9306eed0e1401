----------------------------- MODULE ConsoleRing -----------------------------
(***************************************************************************)
(* The receive side of the serial console (con_serial_sifive/              *)
(* console_serial.c) with the wait of interrupt.c: the UART's interrupt    *)
(* handler puts bytes into a ring, console_serial_read takes them out and  *)
(* sleeps on an empty one.  One hart: the handler may come between any two *)
(* instructions of the reader, and runs to its end.  Nothing is locked, so *)
(* the decrement of occ is a load and a store.                             *)
(*                                                                         *)
(* Bytes are known by the order in which the UART delivered them, from 1.  *)
(***************************************************************************)
EXTENDS Integers

CONSTANTS
  SIZE,       \* length of con_buff: 32
  OccMod,     \* number of values of occ: 2^8
  FifoDepth,  \* depth of the UART's receive FIFO
  MaxBytes    \* bound on the bytes received

ASSUME RingAssumption ==
  /\ SIZE \in Nat \ {0} /\ OccMod \in Nat /\ OccMod > SIZE + 1
  /\ FifoDepth \in Nat /\ MaxBytes \in Nat

VARIABLES
  nf,         \* bytes waiting in the UART
  buf, wp, rp, occ,  \* con_buff and its indices: wp is the reader's
  lock,       \* con_read_wait.lock
  isr,        \* the handler is running
  rd,         \* where the reader is
  tmp,        \* register: occ as the reader loaded it
  got,        \* the byte the reader returns
  put, taken, \* auxiliary: bytes put into the ring and taken out so far
  over,       \* auxiliary: a byte was overwritten before it was read
  torn,       \* auxiliary: the handler ran between load and store of occ
  missed      \* auxiliary: the handler ran between the test of occ and wait_lock

hw == <<nf, isr>>
ring == <<buf, wp, rp, occ>>
aux == <<put, taken, over, torn, missed>>
vars == <<hw, ring, lock, rd, tmp, got, aux>>

Init ==
  /\ nf = 0 /\ isr = FALSE
  /\ buf = [i \in 0 .. SIZE - 1 |-> 0]
  /\ wp = 0 /\ rp = 0 /\ occ = 0 /\ lock = 0
  /\ rd = "idle" /\ tmp = 0 /\ got = 0
  /\ put = 0 /\ taken = 0
  /\ over = FALSE /\ torn = FALSE /\ missed = FALSE

-----------------------------------------------------------------------------
(* A byte arrives; one that finds the FIFO full is dropped by the UART. *)
Arrive ==
  /\ nf < FifoDepth /\ put + nf < MaxBytes
  /\ nf' = nf + 1
  /\ UNCHANGED <<isr, ring, lock, rd, tmp, got, aux>>

(* The interrupt is taken: rx is pending, so the waiting reader is         *)
(* released.  A hart in wfi resumes behind it.                             *)
Interrupt ==
  /\ ~isr /\ nf > 0
  /\ isr' = TRUE
  /\ lock' = 0
  /\ rd' = IF rd = "asleep" THEN "check" ELSE rd
  /\ UNCHANGED <<nf, ring, tmp, got, aux>>

(* Mutant of Drain: the ring's write index is one short of its length. *)
DrainShort ==
  /\ isr /\ nf > 0
  /\ nf' = nf - 1
  /\ buf' = [buf EXCEPT ![rp] = put + 1]
  /\ rp' = (rp + 1) % (SIZE - 1)
  /\ occ' = (occ + 1) % OccMod
  /\ put' = put + 1
  /\ over' = (over \/ put - taken >= SIZE)
  /\ torn' = (torn \/ rd = "store")
  /\ UNCHANGED <<isr, wp, lock, rd, tmp, got, taken, missed>>

(* A turn of the handler's loop. *)
Drain ==
  /\ isr /\ nf > 0
  /\ nf' = nf - 1
  /\ buf' = [buf EXCEPT ![rp] = put + 1]
  /\ rp' = (rp + 1) % SIZE
  /\ occ' = (occ + 1) % OccMod
  /\ put' = put + 1
  /\ over' = (over \/ put - taken >= SIZE)
  /\ torn' = (torn \/ rd = "store")
  /\ UNCHANGED <<isr, wp, lock, rd, tmp, got, taken, missed>>

(* The handler returns: rx is no longer pending. *)
EndInterrupt ==
  /\ isr /\ nf = 0
  /\ isr' = FALSE
  /\ UNCHANGED <<nf, ring, lock, rd, tmp, got, aux>>

(* Another interrupt, such as the tick of schedclk, also ends a wfi. *)
Tick ==
  /\ ~isr /\ rd = "asleep"
  /\ rd' = "check"
  /\ UNCHANGED <<hw, ring, lock, tmp, got, aux>>

-----------------------------------------------------------------------------
(* The reader executes only while the handler does not. *)
Reader(from, to) == ~isr /\ rd = from /\ rd' = to

ReadCall ==
  /\ Reader("idle", "test")
  /\ UNCHANGED <<hw, ring, lock, tmp, got, aux>>

(* if(!occ) *)
TestOcc ==
  /\ Reader("test", IF occ = 0 THEN "lock" ELSE "load")
  /\ UNCHANGED <<hw, ring, lock, tmp, got, aux>>

(* wait_lock *)
WaitLock ==
  /\ Reader("lock", "wfi")
  /\ lock' = 1
  /\ missed' = (missed \/ occ > 0)
  /\ UNCHANGED <<hw, ring, tmp, got, put, taken, over, torn>>

(* wait_till_irq: wfi does not stall while an interrupt is pending. *)
Wfi ==
  /\ Reader("wfi", IF nf > 0 THEN "check" ELSE "asleep")
  /\ UNCHANGED <<hw, ring, lock, tmp, got, aux>>

(* Mutant of CheckLock: one interrupt, of whatever kind, ends the wait. *)
CheckLockOnce ==
  /\ Reader("check", "load")
  /\ UNCHANGED <<hw, ring, lock, tmp, got, aux>>

(* Mutant of CheckLock: the test is the wrong way round. *)
CheckLockInverted ==
  /\ Reader("check", IF lock = 1 THEN "load" ELSE "wfi")
  /\ UNCHANGED <<hw, ring, lock, tmp, got, aux>>

(* while(var->lock == 1) *)
CheckLock ==
  /\ Reader("check", IF lock = 1 THEN "wfi" ELSE "load")
  /\ UNCHANGED <<hw, ring, lock, tmp, got, aux>>

(* *c = con_buff[wp++], and wp is wrapped. *)
Load ==
  /\ Reader("load", "dec")
  /\ got' = buf[wp]
  /\ wp' = (wp + 1) % SIZE
  /\ taken' = taken + 1
  /\ UNCHANGED <<hw, buf, rp, occ, lock, tmp, put, over, torn, missed>>

(* occ--: the load, then the store. *)
LoadOcc ==
  /\ Reader("dec", "store")
  /\ tmp' = occ
  /\ UNCHANGED <<hw, ring, lock, got, aux>>

(* Mutant of StoreOcc: the count is cleared. *)
StoreOccZero ==
  /\ Reader("store", "idle")
  /\ occ' = 0
  /\ UNCHANGED <<hw, buf, wp, rp, lock, tmp, got, aux>>

StoreOcc ==
  /\ Reader("store", "idle")
  /\ occ' = (tmp + OccMod - 1) % OccMod
  /\ UNCHANGED <<hw, buf, wp, rp, lock, tmp, got, aux>>

Handler == Interrupt \/ Drain \/ EndInterrupt
Reading == TestOcc \/ WaitLock \/ Wfi \/ CheckLock \/ Load \/ LoadOcc \/ StoreOcc

Next == Arrive \/ Handler \/ Tick \/ ReadCall \/ Reading

Spec == Init /\ [][Next]_vars

(* Pending interrupts are taken and run, the timer keeps ticking, and a    *)
(* hart that is not in the handler executes the reader.                    *)
FairSpec == Spec /\ WF_vars(Handler) /\ WF_vars(Tick) /\ WF_vars(Reading)

-----------------------------------------------------------------------------
(* Indices stay inside con_buff and occ inside its byte. *)
TypeOK ==
  /\ nf \in 0 .. FifoDepth /\ isr \in BOOLEAN
  /\ buf \in [0 .. SIZE - 1 -> Nat]
  /\ wp \in 0 .. SIZE - 1 /\ rp \in 0 .. SIZE - 1
  /\ occ \in 0 .. OccMod - 1 /\ tmp \in 0 .. OccMod - 1
  /\ lock \in {0, 1} /\ got \in Nat /\ put \in Nat /\ taken \in Nat
  /\ rd \in {"idle", "test", "lock", "wfi", "asleep", "check", "load", "dec", "store"}
  /\ over \in BOOLEAN /\ torn \in BOOLEAN /\ missed \in BOOLEAN

(* The reader never takes a byte from an empty ring: not after a wake-up   *)
(* by another interrupt, not after the handler and the decrement of occ    *)
(* have run into each other, not after occ has wrapped.                    *)
NeverReadsEmpty == rd = "load" => put > taken

(* Bytes are returned in the order they came, none skipped and none twice, *)
(* until the ring overflows; what happens to occ does not matter.          *)
ReadsInOrder == rd \in {"dec", "store"} /\ ~over => got = taken

(* What console_serial_read takes from the ring is there and is the next   *)
(* byte, through any interleaving with the handler.                        *)
ReadsSound == NeverReadsEmpty /\ ReadsInOrder

(* occ counts the bytes in the ring unless the handler ran between its     *)
(* load and its store or the ring overflowed; then it counts too few.      *)
OccExact ==
  LET held == put - taken + (IF rd \in {"dec", "store"} THEN 1 ELSE 0)
  IN  /\ ~torn /\ ~over => occ = held
      /\ occ <= held

(* A reader that the ring has a byte for returns, unless the byte came     *)
(* between its test of occ and wait_lock, which then hides the wake-up, or *)
(* occ has lost count.                                                     *)
ReadReturns ==
  (rd # "idle" /\ put > taken) ~> (rd = "idle" \/ missed \/ torn \/ over)
=============================================================================
