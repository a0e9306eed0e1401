------------------------------ MODULE BakeryLock ------------------------------
(***************************************************************************)
(* The bakery lock of lib/liblocks/bakerylock.c, which lock_acquire and    *)
(* lock_release stand for when USE_BAKERYLOCK is set.  Every access to a   *)
(* shared (volatile) cell is a step of its own; the arch_dmb() barriers of *)
(* the code are what makes that sequentially consistent reading sound.     *)
(*                                                                         *)
(* thread_count is an array of uint8_t, so a ticket is n_max + 1 modulo    *)
(* TicketMod (256 in the code) and may wrap to 0, the value that means     *)
(* "not waiting".  Two auxiliary variables let the properties speak of it: *)
(*   burst     tickets issued since the lock was last idle, saturating at  *)
(*             TicketMod;                                                  *)
(*   ahead[p]  the cores that had a ticket and had left the doorway when p *)
(*             entered it, and have not yet got the lock.                  *)
(***************************************************************************)
EXTENDS Naturals

CONSTANTS N_CORES,    \* number of cores that share the lock
          TicketMod   \* 2^8: thread_count[] is uint8_t

ASSUME NCoresAssumption == N_CORES \in Nat \ {0}
ASSUME TicketModAssumption == TicketMod \in Nat /\ TicketMod > 1

Cores == 0 .. N_CORES - 1

VARIABLES
  thread_count,  \* bakerylock_t.thread_count
  protect,       \* bakerylock_t.protect
  pc,            \* where each core is in acquire / release
  idx,           \* the local i of each core
  n_max,         \* the local n_max of each core
  burst,         \* auxiliary, see above
  ahead          \* auxiliary, see above

vars == <<thread_count, protect, pc, idx, n_max, burst, ahead>>

Init ==
  /\ thread_count = [p \in Cores |-> 0]
  /\ protect = [p \in Cores |-> 0]
  /\ pc = [p \in Cores |-> "idle"]
  /\ idx = [p \in Cores |-> 0]
  /\ n_max = [p \in Cores |-> 0]
  /\ burst = 0
  /\ ahead = [p \in Cores |-> {}]

Goto(p, label) == pc' = [pc EXCEPT ![p] = label]

(* The second loop of bakerylock_acquire: the cores that are in it. *)
Scanning(p) == pc[p] \in {"await_protect", "test_waiting", "test_less", "test_equal"}

(* protect[tid] = 1: core p enters the doorway. *)
EnterDoorway(p) ==
  /\ pc[p] = "idle"
  /\ protect' = [protect EXCEPT ![p] = 1]
  /\ idx' = [idx EXCEPT ![p] = 0]
  /\ n_max' = [n_max EXCEPT ![p] = 0]
  /\ ahead' = [ahead EXCEPT ![p] = {q \in Cores : Scanning(q)}]
  /\ Goto(p, "find_max")
  /\ UNCHANGED <<thread_count, burst>>

(* Mutant of FindMax: the loop stops one core short. *)
FindMaxShort(p) ==
  /\ pc[p] = "find_max"
  /\ idx[p] < N_CORES
  /\ n_max' = [n_max EXCEPT ![p] =
        IF idx[p] < N_CORES - 1 /\ thread_count[idx[p]] > @
          THEN thread_count[idx[p]] ELSE @]
  /\ idx' = [idx EXCEPT ![p] = @ + 1]
  /\ UNCHANGED <<thread_count, protect, pc, burst, ahead>>

(* One turn of the first for loop: n_max is raised to thread_count[i]. *)
FindMax(p) ==
  /\ pc[p] = "find_max"
  /\ idx[p] < N_CORES
  /\ n_max' = [n_max EXCEPT ![p] =
        IF thread_count[idx[p]] > @ THEN thread_count[idx[p]] ELSE @]
  /\ idx' = [idx EXCEPT ![p] = @ + 1]
  /\ UNCHANGED <<thread_count, protect, pc, burst, ahead>>

(* The loop is over: thread_count[tid] = n_max + 1, truncated to uint8_t. *)
TakeTicket(p) ==
  /\ pc[p] = "find_max"
  /\ idx[p] = N_CORES
  /\ thread_count' = [thread_count EXCEPT ![p] = (n_max[p] + 1) % TicketMod]
  /\ burst' = IF burst < TicketMod THEN burst + 1 ELSE burst
  /\ Goto(p, "clear_protect")
  /\ UNCHANGED <<protect, idx, n_max, ahead>>

(* Mutant of LeaveDoorway: the doorway flag is never lowered. *)
LeaveDoorwayFlagUp(p) ==
  /\ pc[p] = "clear_protect"
  /\ idx' = [idx EXCEPT ![p] = 0]
  /\ Goto(p, "await_protect")
  /\ UNCHANGED <<thread_count, protect, n_max, burst, ahead>>

(* protect[tid] = 0: core p leaves the doorway and starts to scan. *)
LeaveDoorway(p) ==
  /\ pc[p] = "clear_protect"
  /\ protect' = [protect EXCEPT ![p] = 0]
  /\ idx' = [idx EXCEPT ![p] = 0]
  /\ Goto(p, "await_protect")
  /\ UNCHANGED <<thread_count, n_max, burst, ahead>>

(* Mutant of AwaitProtect: the doorway flag of core i is not waited for. *)
AwaitProtectNot(p) ==
  /\ pc[p] = "await_protect"
  /\ idx[p] < N_CORES
  /\ Goto(p, "test_waiting")
  /\ UNCHANGED <<thread_count, protect, idx, n_max, burst, ahead>>

(* while(protect[i]); is left once core i is out of its doorway. *)
AwaitProtect(p) ==
  /\ pc[p] = "await_protect"
  /\ idx[p] < N_CORES
  /\ protect[idx[p]] = 0
  /\ Goto(p, "test_waiting")
  /\ UNCHANGED <<thread_count, protect, idx, n_max, burst, ahead>>

(* The next turn of the second for loop. *)
NextIndex(p) ==
  /\ idx' = [idx EXCEPT ![p] = @ + 1]
  /\ Goto(p, "await_protect")

(* The inner while reads thread_count[i] up to three times.  First read:   *)
(* a core that is not waiting is passed.                                   *)
TestWaiting(p) ==
  /\ pc[p] = "test_waiting"
  /\ \/ /\ thread_count[idx[p]] = 0
        /\ NextIndex(p)
     \/ /\ thread_count[idx[p]] # 0
        /\ Goto(p, "test_less")
        /\ UNCHANGED idx
  /\ UNCHANGED <<thread_count, protect, n_max, burst, ahead>>

(* Second read: a smaller ticket keeps p in the inner loop. *)
TestLess(p) ==
  /\ pc[p] = "test_less"
  /\ Goto(p, IF thread_count[idx[p]] < thread_count[p]
               THEN "test_waiting" ELSE "test_equal")
  /\ UNCHANGED <<thread_count, protect, idx, n_max, burst, ahead>>

(* Third read: an equal ticket of a core with a smaller index does too. *)
TestEqual(p) ==
  /\ pc[p] = "test_equal"
  /\ \/ /\ thread_count[idx[p]] = thread_count[p]
        /\ idx[p] < p
        /\ Goto(p, "test_waiting")
        /\ UNCHANGED idx
     \/ /\ ~(thread_count[idx[p]] = thread_count[p] /\ idx[p] < p)
        /\ NextIndex(p)
  /\ UNCHANGED <<thread_count, protect, n_max, burst, ahead>>

(* The second loop is over: bakerylock_acquire returns, p holds the lock. *)
Acquired(p) ==
  /\ pc[p] = "await_protect"
  /\ idx[p] = N_CORES
  /\ Goto(p, "cs")
  /\ ahead' = [q \in Cores |-> ahead[q] \ {p}]
  /\ UNCHANGED <<thread_count, protect, idx, n_max, burst>>

(* bakerylock_release: thread_count[tid] = 0.  When no other core is using *)
(* the lock a new burst of tickets begins.                                 *)
Release(p) ==
  /\ pc[p] = "cs"
  /\ thread_count' = [thread_count EXCEPT ![p] = 0]
  /\ burst' = IF \A q \in Cores \ {p} : pc[q] = "idle" THEN 0 ELSE burst
  /\ Goto(p, "idle")
  /\ UNCHANGED <<protect, idx, n_max, ahead>>

Acquiring(p) ==
  \/ FindMax(p) \/ TakeTicket(p) \/ LeaveDoorway(p) \/ AwaitProtect(p)
  \/ TestWaiting(p) \/ TestLess(p) \/ TestEqual(p) \/ Acquired(p)

Next == \E p \in Cores : EnterDoorway(p) \/ Acquiring(p) \/ Release(p)

Spec == Init /\ [][Next]_vars

(* A core inside bakerylock_acquire keeps executing, and a core that holds *)
(* the lock releases it; nothing makes a core ask for the lock.            *)
Fairness == \A p \in Cores : WF_vars(Acquiring(p)) /\ WF_vars(Release(p))

FairSpec == Spec /\ Fairness

-----------------------------------------------------------------------------
PCs == {"idle", "find_max", "clear_protect", "await_protect",
        "test_waiting", "test_less", "test_equal", "cs"}

(* Every cell holds a value of its C type, and the loop index is in the    *)
(* array whenever the code dereferences it.                                *)
TypeOK ==
  /\ thread_count \in [Cores -> 0 .. TicketMod - 1]
  /\ protect \in [Cores -> {0, 1}]
  /\ pc \in [Cores -> PCs]
  /\ idx \in [Cores -> 0 .. N_CORES]
  /\ \A p \in Cores :
        pc[p] \in {"test_waiting", "test_less", "test_equal"} => idx[p] \in Cores
  /\ n_max \in [Cores -> 0 .. TicketMod - 1]
  /\ burst \in 0 .. TicketMod
  /\ ahead \in [Cores -> SUBSET Cores]

(* bakerylock_acquire excludes: as long as fewer than TicketMod tickets    *)
(* were issued since the lock was last idle, two cores never both hold it. *)
MutualExclusion ==
  burst < TicketMod =>
    \A p, q \in Cores : p # q => ~(pc[p] = "cs" /\ pc[q] = "cs")

(* First come, first served: a core that had left the doorway of           *)
(* bakerylock_acquire before another one entered it gets the lock before   *)
(* that other one does.                                                    *)
FirstComeFirstServed ==
  burst < TicketMod => \A p \in Cores : pc[p] = "cs" => ahead[p] = {}

(* No core spins for ever in bakerylock_acquire: it gets the lock, unless  *)
(* the tickets issued without the lock ever being idle reach the wrap.     *)
NoStarvation ==
  \A p \in Cores : pc[p] = "find_max" ~> (pc[p] = "cs" \/ burst = TicketMod)
=============================================================================
