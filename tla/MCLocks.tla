------------------------------- MODULE MCLocks -------------------------------
(* Small instances of the two locks a platform chooses from: the bakery lock *)
(* of liblocks with tickets of two bits, which wrap, and the spin lock of the *)
(* RISC-V "A" extension.  A behaviour is of the one that which names.         *)
EXTENDS BakeryLock, SpinLock

VARIABLE which
lockVars == <<which, vars, spinVars>>

LocksInit == which \in {"bakery", "spin"} /\ Init /\ SpinInit
BakeryStep == which = "bakery" /\ Next /\ UNCHANGED <<which, spinVars>>
SpinStep == which = "spin" /\ SpinNext /\ UNCHANGED <<which, vars>>

LocksSpec ==
  /\ LocksInit /\ [][BakeryStep \/ SpinStep]_lockVars
  /\ \A p \in Cores : /\ WF_vars(which = "bakery" /\ Acquiring(p))
                      /\ WF_vars(which = "bakery" /\ Release(p))
  /\ \A p \in Harts : /\ WF_spinVars(which = "spin" /\ SpinAcquiring(p))
                      /\ WF_spinVars(which = "spin" /\ SpinRelease(p))
=============================================================================
