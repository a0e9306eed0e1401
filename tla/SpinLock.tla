------------------------------- MODULE SpinLock -------------------------------
(***************************************************************************)
(* The spin lock of the RISC-V "A" extension, arch/riscv/32/a/spinlock.c:  *)
(* test, then test-and-set with amoswap.w.  Each access to the key is one  *)
(* step; the swap writes 1 into the key even when it loses.                *)
(***************************************************************************)
EXTENDS Naturals

CONSTANT Harts

VARIABLES
  key,     \* *key
  hartPc  \* where each core is in spinlock_acquire / spinlock_release

spinVars == <<key, hartPc>>

SpinInit ==
  /\ key = 0
  /\ hartPc = [p \in Harts |-> "idle"]

HartTo(p, label) == hartPc' = [hartPc EXCEPT ![p] = label]

Call(p) ==
  /\ hartPc[p] = "idle"
  /\ HartTo(p, "test")
  /\ UNCHANGED key

(* The key is read and found free: while(1) is repeated otherwise. *)
Test(p) ==
  /\ hartPc[p] = "test"
  /\ key = 0
  /\ HartTo(p, "swap")
  /\ UNCHANGED key

(* Mutant of Swap: the value the swap returns is not looked at. *)
SwapUnchecked(p) ==
  /\ hartPc[p] = "swap"
  /\ key' = 1
  /\ HartTo(p, "cs")

(* amoswap.w of 1 into the key; if(!old) break; *)
Swap(p) ==
  /\ hartPc[p] = "swap"
  /\ key' = 1
  /\ HartTo(p, IF key = 0 THEN "cs" ELSE "test")

(* Mutant of SpinRelease: the key is never cleared. *)
SpinReleaseNot(p) ==
  /\ hartPc[p] = "cs"
  /\ HartTo(p, "idle")
  /\ UNCHANGED key

(* fence(r, rw), then the key is stored 0. *)
SpinRelease(p) ==
  /\ hartPc[p] = "cs"
  /\ key' = 0
  /\ HartTo(p, "idle")

SpinAcquiring(p) == Test(p) \/ Swap(p)

SpinNext == \E p \in Harts : Call(p) \/ SpinAcquiring(p) \/ SpinRelease(p)

SpinSpec == SpinInit /\ [][SpinNext]_spinVars

(* Cores in the lock's code keep executing and a holder releases. *)
SpinFairSpec == SpinSpec /\ \A p \in Harts : WF_spinVars(SpinAcquiring(p)) /\ WF_spinVars(SpinRelease(p))

-----------------------------------------------------------------------------
(* Both cells hold values of their types. *)
SpinTypeOK ==
  /\ key \in {0, 1}
  /\ hartPc \in [Harts -> {"idle", "test", "swap", "cs"}]

(* A key that is 0 is free, and at most one core is between                *)
(* spinlock_acquire's return and spinlock_release: a losing swap must not  *)
(* disturb the holder.                                                     *)
Exclusive ==
  /\ key = 0 => \A p \in Harts : hartPc[p] # "cs"
  /\ \A p, q \in Harts : hartPc[p] = "cs" /\ hartPc[q] = "cs" => p = q

(* The key is only ever 1 because some core holds the lock: a swap that    *)
(* lost never leaves the key taken after the holder gave it back.          *)
NoOrphanKey == key = 1 => \E p \in Harts : hartPc[p] = "cs"

(* Some core gets the lock whenever cores are trying to (one of them may   *)
(* be overtaken for ever: a spin lock promises no more).                   *)
SomeoneEnters == (\E p \in Harts : hartPc[p] # "idle") ~> (\E p \in Harts : hartPc[p] = "cs")

(* The lock the other components are promised. *)
LockState ==
  [p \in Harts |-> CASE hartPc[p] = "idle" -> "out"
                     [] hartPc[p] = "cs" -> "in"
                     [] OTHER -> "want"]
Abstract == INSTANCE LockSpec WITH Cores <- Harts, state <- LockState

(* spinlock_acquire and spinlock_release implement LockSpec. *)
ImplementsLock == Abstract!Spec
=============================================================================
