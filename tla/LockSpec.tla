------------------------------- MODULE LockSpec -------------------------------
(***************************************************************************)
(* What lock_acquire and lock_release (lib/liblocks/include/lock/lock.h)   *)
(* promise their callers, whichever lock the platform selects: a core that *)
(* wants the lock gets it at a moment when no core has it.                 *)
(***************************************************************************)
CONSTANT Cores
VARIABLE state   \* what each core is doing with the lock: "out", "want" or "in"

Init == state = [p \in Cores |-> "out"]

Request(p) ==
  /\ state[p] = "out"
  /\ state' = [state EXCEPT ![p] = "want"]

Acquire(p) ==
  /\ state[p] = "want"
  /\ \A q \in Cores : state[q] # "in"
  /\ state' = [state EXCEPT ![p] = "in"]

Release(p) ==
  /\ state[p] = "in"
  /\ state' = [state EXCEPT ![p] = "out"]

Next == \E p \in Cores : Request(p) \/ Acquire(p) \/ Release(p)

Spec == Init /\ [][Next]_state
=============================================================================
