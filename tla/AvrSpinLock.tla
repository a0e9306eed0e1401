----------------------------- MODULE AvrSpinLock -----------------------------
(***************************************************************************)
(* The spin lock of the AVR port, spinlock.S.  One core runs several       *)
(* contexts that interrupts switch between; the test and the set are one   *)
(* step because interrupts are off (cli ... out SREG, r0).  The key is a   *)
(* 16-bit little-endian word and the test loads it through Z with a        *)
(* post-increment, so Z is part of the state of a context.                 *)
(***************************************************************************)
EXTENDS Naturals

CONSTANTS Contexts,   \* the interruptible programs that share the lock
          After       \* the bytes stored behind the key, never written here

VARIABLES key,        \* low byte of the key; its high byte stays 0
          z,          \* offset of Z from the key, per context
          pc

vars == <<key, z, pc>>

Init ==
  /\ key = 0
  /\ z = [c \in Contexts |-> 0]
  /\ pc = [c \in Contexts |-> "idle"]

(* The byte at an offset from the key. *)
Byte(n) == IF n = 0 THEN key ELSE IF n = 1 THEN 0 ELSE After[n - 1]

(* movw r30, r24: Z is pointed at the key, once per call. *)
Call(c) ==
  /\ pc[c] = "idle"
  /\ pc' = [pc EXCEPT ![c] = "spin"]
  /\ z' = [z EXCEPT ![c] = 0]
  /\ UNCHANGED key

(* ld r18, Z+; ld r19, Z; the word read is 1: spin, Z one byte further. *)
Spin(c) ==
  /\ pc[c] = "spin"
  /\ Byte(z[c]) = 1 /\ Byte(z[c] + 1) = 0
  /\ z' = [z EXCEPT ![c] = @ + 1]
  /\ UNCHANGED <<key, pc>>

(* The word read is not 1: Z is pointed at the key again and 1 is stored. *)
Set(c) ==
  /\ pc[c] = "spin"
  /\ ~(Byte(z[c]) = 1 /\ Byte(z[c] + 1) = 0)
  /\ key' = 1
  /\ z' = [z EXCEPT ![c] = 1]
  /\ pc' = [pc EXCEPT ![c] = "cs"]

(* spinlock_release stores 0 with interrupts off. *)
Release(c) ==
  /\ pc[c] = "cs"
  /\ key' = 0
  /\ pc' = [pc EXCEPT ![c] = "idle"]
  /\ UNCHANGED z

Next == \E c \in Contexts : Call(c) \/ Spin(c) \/ Set(c) \/ Release(c)

Spec == Init /\ [][Next]_vars

(* spinlock.S: spinlock_acquire "busy loops till the lock is released by   *)
(* previously acquired program": two contexts never hold the lock.         *)
HeldByOne == \A c, d \in Contexts : pc[c] = "cs" /\ pc[d] = "cs" => c = d
=============================================================================
