------------------------------ MODULE LockProofs ------------------------------
(***************************************************************************)
(* Mutual exclusion and first-come-first-served of BakeryLock, for any     *)
(* number of cores and any ticket width, while the tickets have not        *)
(* wrapped.  Neither property is inductive: what has to be carried along   *)
(* is which cores are bound to let which others go first (Behind).         *)
(*                                                                         *)
(* SpinLock excludes and implements LockSpec, for any set of cores.        *)
(***************************************************************************)
EXTENDS BakeryLock, SpinLock, TLAPS

(* Core p goes before core q in the order the inner while compares. *)
Precedes(p, q) ==
  \/ thread_count[p] < thread_count[q]
  \/ thread_count[p] = thread_count[q] /\ p < q

(* Core q cannot get the lock before p gives its ticket back: q is still   *)
(* to read p's ticket, or has taken it into account, or has a later ticket *)
(* and has not passed p in its scan.                                       *)
Behind(q, p) ==
  /\ thread_count[p] > 0
  /\ \/ pc[q] = "idle"
     \/ pc[q] = "find_max" /\ (idx[q] <= p \/ n_max[q] >= thread_count[p])
     \/ pc[q] = "clear_protect" /\ Precedes(p, q)
     \/ /\ Scanning(q)
        /\ Precedes(p, q)
        /\ idx[q] <= p
        /\ pc[q] = "test_equal" /\ idx[q] = p => thread_count[p] = thread_count[q]

(* The cores whose turn p has found not to come before its own. *)
HasPassed(p, q) == pc[p] = "cs" \/ (Scanning(p) /\ q < idx[p])

(* What holds of the cells of core p, tickets wrapping or not. *)
Local(p) ==
  /\ pc[p] \in {"idle", "find_max"} => thread_count[p] = 0
  /\ protect[p] = 1 <=> pc[p] \in {"find_max", "clear_protect"}
  /\ pc[p] = "find_max" => n_max[p] <= burst
  /\ thread_count[p] <= burst

(* What holds of core p while the tickets have not wrapped. *)
Ticketed(p) == pc[p] \in {"idle", "find_max"} \/ thread_count[p] > 0

PassedWait(p) == \A q \in Cores \ {p} : HasPassed(p, q) => Behind(q, p)

DoorwaySeen(p) ==
  \A q \in Cores \ {p} :
    /\ pc[p] \in {"test_waiting", "test_less", "test_equal"}
    /\ idx[p] = q
    /\ pc[q] = "find_max"
    /\ p < idx[q]
    => n_max[q] >= thread_count[p]

LessSeen(p) ==
  \A q \in Cores \ {p} :
    pc[p] = "test_equal" /\ idx[p] = q
    => thread_count[q] >= thread_count[p] \/ Behind(q, p)

AheadWait(p) ==
  pc[p] # "idle" =>
    \A q \in ahead[p] : q # p /\ Scanning(q) /\ Behind(p, q)

Ordered ==
  \A p \in Cores : /\ Ticketed(p)
                   /\ PassedWait(p)
                   /\ DoorwaySeen(p)
                   /\ LessSeen(p)
                   /\ AheadWait(p)

IInv == /\ TypeOK
        /\ \A p \in Cores : Local(p)
        /\ burst < TicketMod => Ordered

USE NCoresAssumption, TicketModAssumption DEF Cores

(* Every access of bakerylock.c keeps the types of the cells and the locals. *)
LEMMA TypeStep == TypeOK /\ [Next]_vars => TypeOK'
<1> SUFFICES ASSUME TypeOK, [Next]_vars PROVE TypeOK'
  OBVIOUS
<1>1. CASE UNCHANGED vars
  BY <1>1 DEF vars, TypeOK
<1>2. ASSUME NEW p \in Cores, EnterDoorway(p) PROVE TypeOK'
  BY <1>2, SMTT(30) DEF EnterDoorway, Goto, TypeOK, PCs, Scanning
<1>3. ASSUME NEW p \in Cores, FindMax(p) PROVE TypeOK'
  <2>1. thread_count[idx[p]] \in 0 .. TicketMod - 1 /\ n_max[p] \in 0 .. TicketMod - 1
    BY <1>3 DEF FindMax, TypeOK
  <2>2. n_max' \in [Cores -> 0 .. TicketMod - 1]
    BY <1>3, <2>1 DEF FindMax, TypeOK
  <2>3. idx' \in [Cores -> 0 .. N_CORES]
    <3>1. idx[p] + 1 \in 0 .. N_CORES
      BY <1>3 DEF FindMax, TypeOK
    <3>2. QED
      BY <1>3, <3>1 DEF FindMax, TypeOK
  <2>4. ASSUME NEW q \in Cores,
               pc'[q] \in {"test_waiting", "test_less", "test_equal"}
        PROVE  idx'[q] \in Cores
    BY <1>3, <2>4 DEF FindMax, TypeOK
  <2>5. QED
    BY <1>3, <2>2, <2>3, <2>4 DEF FindMax, TypeOK
<1>4. ASSUME NEW p \in Cores, TakeTicket(p) PROVE TypeOK'
  <2>1. (n_max[p] + 1) % TicketMod \in 0 .. TicketMod - 1
    BY DEF TypeOK
  <2>2. thread_count' \in [Cores -> 0 .. TicketMod - 1] /\ burst' \in 0 .. TicketMod
    BY <1>4, <2>1 DEF TakeTicket, TypeOK
  <2>3. pc' \in [Cores -> PCs]
    BY <1>4 DEF TakeTicket, Goto, TypeOK, PCs
  <2>4. ASSUME NEW q \in Cores,
               pc'[q] \in {"test_waiting", "test_less", "test_equal"}
        PROVE  idx'[q] \in Cores
    BY <1>4, <2>4 DEF TakeTicket, Goto, TypeOK
  <2>5. QED
    BY <1>4, <2>2, <2>3, <2>4 DEF TakeTicket, TypeOK
<1>5. ASSUME NEW p \in Cores, LeaveDoorway(p) PROVE TypeOK'
  BY <1>5 DEF LeaveDoorway, Goto, TypeOK, PCs
<1>6. ASSUME NEW p \in Cores, AwaitProtect(p) PROVE TypeOK'
  <2>1. pc' \in [Cores -> PCs]
    BY <1>6 DEF AwaitProtect, Goto, TypeOK, PCs
  <2>2. idx' \in [Cores -> 0 .. N_CORES]
    BY <1>6 DEF AwaitProtect, TypeOK
  <2>3. ASSUME NEW q \in Cores,
               pc'[q] \in {"test_waiting", "test_less", "test_equal"}
        PROVE  idx'[q] \in Cores
    BY <1>6, <2>3 DEF AwaitProtect, Goto, TypeOK
  <2>4. QED
    BY <1>6, <2>1, <2>2, <2>3 DEF AwaitProtect, TypeOK
<1>7. ASSUME NEW p \in Cores, TestWaiting(p) PROVE TypeOK'
  <2>1. pc' \in [Cores -> PCs]
    BY <1>7 DEF TestWaiting, NextIndex, Goto, TypeOK, PCs
  <2>2. idx' \in [Cores -> 0 .. N_CORES]
    <3>1. pc[p] \in {"test_waiting", "test_less", "test_equal"}
      BY <1>7 DEF TestWaiting
    <3>2. idx[p] \in Cores
      BY <3>1 DEF TypeOK
    <3>3. idx[p] + 1 \in 0 .. N_CORES
      BY <3>2
    <3>4. QED
      BY <1>7, <3>3 DEF TestWaiting, NextIndex, TypeOK
  <2>3. ASSUME NEW q \in Cores,
               pc'[q] \in {"test_waiting", "test_less", "test_equal"}
        PROVE  idx'[q] \in Cores
    BY <1>7, <2>3 DEF TestWaiting, NextIndex, Goto, TypeOK
  <2>4. QED
    BY <1>7, <2>1, <2>2, <2>3 DEF TestWaiting, TypeOK
<1>8. ASSUME NEW p \in Cores, TestLess(p) PROVE TypeOK'
  BY <1>8 DEF TestLess, Goto, TypeOK, PCs
<1>9. ASSUME NEW p \in Cores, TestEqual(p) PROVE TypeOK'
  <2>1. pc' \in [Cores -> PCs]
    BY <1>9 DEF TestEqual, NextIndex, Goto, TypeOK, PCs
  <2>2. idx' \in [Cores -> 0 .. N_CORES]
    <3>1. pc[p] \in {"test_waiting", "test_less", "test_equal"}
      BY <1>9 DEF TestEqual
    <3>2. idx[p] \in Cores
      BY <3>1 DEF TypeOK
    <3>3. idx[p] + 1 \in 0 .. N_CORES
      BY <3>2
    <3>4. QED
      BY <1>9, <3>3 DEF TestEqual, NextIndex, TypeOK
  <2>3. ASSUME NEW q \in Cores,
               pc'[q] \in {"test_waiting", "test_less", "test_equal"}
        PROVE  idx'[q] \in Cores
    BY <1>9, <2>3 DEF TestEqual, NextIndex, Goto, TypeOK
  <2>4. QED
    BY <1>9, <2>1, <2>2, <2>3 DEF TestEqual, TypeOK
<1>10. ASSUME NEW p \in Cores, Acquired(p) PROVE TypeOK'
  BY <1>10 DEF Acquired, Goto, TypeOK, PCs
<1>11. ASSUME NEW p \in Cores, Release(p) PROVE TypeOK'
  BY <1>11, SMTT(30) DEF Release, Goto, TypeOK, PCs
<1>12. QED
  BY <1>1, <1>2, <1>3, <1>4, <1>5, <1>6, <1>7, <1>8, <1>9, <1>10, <1>11
     DEF Next, Acquiring

(* The values of every cell of the bakery lock stay within their C types   *)
(* and the index of a scan within the array, for every number of cores.    *)
THEOREM BakeryTypeCorrect == Spec => []TypeOK
<1>1. Init => TypeOK
  BY DEF Init, TypeOK, PCs
<1>2. QED
  BY <1>1, TypeStep, PTL DEF Spec

-----------------------------------------------------------------------------
Step(r) == EnterDoorway(r) \/ Acquiring(r) \/ Release(r)

(* The cells of a core as numbers. *)
LEMMA Cells ==
  ASSUME TypeOK, NEW q \in Cores
  PROVE  /\ thread_count[q] \in Nat /\ thread_count[q] < TicketMod
         /\ idx[q] \in Nat /\ idx[q] <= N_CORES
         /\ n_max[q] \in Nat
         /\ pc[q] \in PCs
         /\ burst \in Nat
  BY DEF TypeOK

(* Only core r's own cells change when r takes a step. *)
LEMMA Frame ==
  ASSUME TypeOK, NEW r \in Cores, Step(r), NEW q \in Cores, q # r
  PROVE  /\ pc'[q] = pc[q]
         /\ idx'[q] = idx[q]
         /\ n_max'[q] = n_max[q]
         /\ thread_count'[q] = thread_count[q]
         /\ protect'[q] = protect[q]
         /\ ahead'[q] \subseteq ahead[q]
<1>1. CASE EnterDoorway(r)
  BY <1>1 DEF EnterDoorway, Goto, TypeOK
<1>2. CASE FindMax(r)
  BY <1>2 DEF FindMax, TypeOK
<1>3. CASE TakeTicket(r)
  BY <1>3 DEF TakeTicket, Goto, TypeOK
<1>4. CASE LeaveDoorway(r)
  BY <1>4 DEF LeaveDoorway, Goto, TypeOK
<1>5. CASE AwaitProtect(r)
  BY <1>5 DEF AwaitProtect, Goto, TypeOK
<1>6. CASE TestWaiting(r)
  BY <1>6 DEF TestWaiting, NextIndex, Goto, TypeOK
<1>7. CASE TestLess(r)
  BY <1>7 DEF TestLess, Goto, TypeOK
<1>8. CASE TestEqual(r)
  BY <1>8 DEF TestEqual, NextIndex, Goto, TypeOK
<1>9. CASE Acquired(r)
  BY <1>9 DEF Acquired, Goto, TypeOK
<1>10. CASE Release(r)
  BY <1>10 DEF Release, Goto, TypeOK
<1>11. QED
  BY <1>1, <1>2, <1>3, <1>4, <1>5, <1>6, <1>7, <1>8, <1>9, <1>10 DEF Step, Acquiring

(* A ticket below TicketMod is not changed by the width of its cell. *)
LEMMA ModSmall ==
  ASSUME NEW a \in Nat, a < TicketMod
  PROVE  a % TicketMod = a
  OBVIOUS

(* What each step of r does to r's own cells. *)
LEMMA EnterDoorwayEffect ==
  ASSUME TypeOK, NEW r \in Cores, EnterDoorway(r)
  PROVE  /\ pc[r] = "idle" /\ pc'[r] = "find_max"
         /\ idx'[r] = 0 /\ n_max'[r] = 0 /\ protect'[r] = 1
         /\ thread_count'[r] = thread_count[r] /\ burst' = burst
         /\ ahead'[r] = {q \in Cores : Scanning(q)}
  BY DEF EnterDoorway, Goto, TypeOK

(* A turn of the loop that looks for the largest ticket. *)
LEMMA FindMaxEffect ==
  ASSUME TypeOK, NEW r \in Cores, FindMax(r)
  PROVE  /\ pc[r] = "find_max" /\ pc'[r] = "find_max"
         /\ idx[r] \in Cores /\ idx'[r] = idx[r] + 1
         /\ n_max'[r] = IF thread_count[idx[r]] > n_max[r]
                          THEN thread_count[idx[r]] ELSE n_max[r]
         /\ protect'[r] = protect[r]
         /\ thread_count'[r] = thread_count[r] /\ burst' = burst
         /\ ahead' = ahead
  BY DEF FindMax, TypeOK

(* The core takes the next ticket after the largest it saw. *)
LEMMA TakeTicketEffect ==
  ASSUME TypeOK, NEW r \in Cores, TakeTicket(r)
  PROVE  /\ pc[r] = "find_max" /\ pc'[r] = "clear_protect"
         /\ idx[r] = N_CORES /\ protect'[r] = protect[r]
         /\ thread_count'[r] = (n_max[r] + 1) % TicketMod
         /\ burst' = IF burst < TicketMod THEN burst + 1 ELSE burst
         /\ ahead' = ahead
  BY DEF TakeTicket, Goto, TypeOK

(* The core clears its protect flag and starts to look at the others. *)
LEMMA LeaveDoorwayEffect ==
  ASSUME TypeOK, NEW r \in Cores, LeaveDoorway(r)
  PROVE  /\ pc[r] = "clear_protect" /\ pc'[r] = "await_protect"
         /\ idx'[r] = 0 /\ protect'[r] = 0
         /\ thread_count'[r] = thread_count[r] /\ burst' = burst
         /\ ahead' = ahead
  BY DEF LeaveDoorway, Goto, TypeOK

(* The core it looks at is not choosing a ticket. *)
LEMMA AwaitProtectEffect ==
  ASSUME TypeOK, NEW r \in Cores, AwaitProtect(r)
  PROVE  /\ pc[r] = "await_protect" /\ pc'[r] = "test_waiting"
         /\ idx[r] \in Cores /\ idx'[r] = idx[r] /\ protect[idx[r]] = 0
         /\ protect'[r] = protect[r]
         /\ thread_count'[r] = thread_count[r] /\ burst' = burst
         /\ ahead' = ahead
  BY DEF AwaitProtect, Goto, TypeOK

(* A core that has no ticket is passed over. *)
LEMMA TestWaitingEffect ==
  ASSUME TypeOK, NEW r \in Cores, TestWaiting(r)
  PROVE  /\ pc[r] = "test_waiting" /\ idx[r] \in Cores
         /\ \/ /\ thread_count[idx[r]] = 0
               /\ pc'[r] = "await_protect" /\ idx'[r] = idx[r] + 1
            \/ /\ thread_count[idx[r]] # 0
               /\ pc'[r] = "test_less" /\ idx'[r] = idx[r]
         /\ protect'[r] = protect[r]
         /\ thread_count'[r] = thread_count[r] /\ burst' = burst
         /\ ahead' = ahead
  BY DEF TestWaiting, NextIndex, Goto, TypeOK

(* A smaller ticket is waited for. *)
LEMMA TestLessEffect ==
  ASSUME TypeOK, NEW r \in Cores, TestLess(r)
  PROVE  /\ pc[r] = "test_less" /\ idx[r] \in Cores /\ idx'[r] = idx[r]
         /\ \/ /\ thread_count[idx[r]] < thread_count[r]
               /\ pc'[r] = "test_waiting"
            \/ /\ ~(thread_count[idx[r]] < thread_count[r])
               /\ pc'[r] = "test_equal"
         /\ protect'[r] = protect[r]
         /\ thread_count'[r] = thread_count[r] /\ burst' = burst
         /\ ahead' = ahead
  BY DEF TestLess, Goto, TypeOK

(* An equal ticket of a core with a smaller index is waited for. *)
LEMMA TestEqualEffect ==
  ASSUME TypeOK, NEW r \in Cores, TestEqual(r)
  PROVE  /\ pc[r] = "test_equal" /\ idx[r] \in Cores
         /\ \/ /\ thread_count[idx[r]] = thread_count[r] /\ idx[r] < r
               /\ pc'[r] = "test_waiting" /\ idx'[r] = idx[r]
            \/ /\ ~(thread_count[idx[r]] = thread_count[r] /\ idx[r] < r)
               /\ pc'[r] = "await_protect" /\ idx'[r] = idx[r] + 1
         /\ protect'[r] = protect[r]
         /\ thread_count'[r] = thread_count[r] /\ burst' = burst
         /\ ahead' = ahead
  BY DEF TestEqual, NextIndex, Goto, TypeOK

(* All others were passed: bakerylock_acquire returns. *)
LEMMA AcquiredEffect ==
  ASSUME TypeOK, NEW r \in Cores, Acquired(r)
  PROVE  /\ pc[r] = "await_protect" /\ pc'[r] = "cs" /\ idx[r] = N_CORES
         /\ protect'[r] = protect[r]
         /\ thread_count'[r] = thread_count[r] /\ burst' = burst
         /\ \A q \in Cores : ahead'[q] = ahead[q] \ {r}
  BY DEF Acquired, Goto, TypeOK

(* bakerylock_release gives the ticket back. *)
LEMMA ReleaseEffect ==
  ASSUME TypeOK, NEW r \in Cores, Release(r)
  PROVE  /\ pc[r] = "cs" /\ pc'[r] = "idle" /\ thread_count'[r] = 0
         /\ protect'[r] = protect[r]
         /\ burst' = IF \A q \in Cores \ {r} : pc[q] = "idle" THEN 0 ELSE burst
  BY DEF Release, Goto, TypeOK

(* The part of the invariant that the wrapping of tickets cannot disturb.  *)
LEMMA LocalStep ==
  ASSUME TypeOK, \A p \in Cores : Local(p), NEW r \in Cores, Step(r)
  PROVE  \A p \in Cores : Local(p)'
<1> SUFFICES ASSUME NEW p \in Cores PROVE Local(p)'
  OBVIOUS
<1>1. Local(p) /\ Local(r)
  OBVIOUS
<1>2. CASE EnterDoorway(r)
  BY <1>1, <1>2, Frame, Cells, EnterDoorwayEffect DEF Local
<1>3. CASE FindMax(r)
  <2>1. thread_count[idx[r]] <= burst
    BY <1>3, FindMaxEffect DEF Local
  <2>2. QED
    BY <1>1, <1>3, <2>1, Frame, Cells, FindMaxEffect DEF Local
<1>4. CASE TakeTicket(r)
  <2>1. burst' >= burst /\ burst' \in Nat
    BY <1>4, TakeTicketEffect, Cells
  <2>2. thread_count'[r] <= burst'
    <3>1. (n_max[r] + 1) % TicketMod <= n_max[r] + 1
          /\ (n_max[r] + 1) % TicketMod < TicketMod
      BY Cells
    <3>2. QED
      BY <1>1, <1>4, <3>1, TakeTicketEffect, Cells DEF Local
  <2>3. QED
    BY <1>1, <1>4, <2>1, <2>2, Frame, Cells, TakeTicketEffect DEF Local
<1>5. CASE LeaveDoorway(r)
  BY <1>1, <1>5, Frame, Cells, LeaveDoorwayEffect DEF Local
<1>6. CASE AwaitProtect(r)
  BY <1>1, <1>6, Frame, Cells, AwaitProtectEffect DEF Local
<1>7. CASE TestWaiting(r)
  BY <1>1, <1>7, Frame, Cells, TestWaitingEffect DEF Local
<1>8. CASE TestLess(r)
  BY <1>1, <1>8, Frame, Cells, TestLessEffect DEF Local
<1>9. CASE TestEqual(r)
  BY <1>1, <1>9, Frame, Cells, TestEqualEffect DEF Local
<1>10. CASE Acquired(r)
  BY <1>1, <1>10, Frame, Cells, AcquiredEffect DEF Local
<1>11. CASE Release(r)
  <2>1. CASE p = r
    BY <1>1, <1>11, <2>1, Cells, ReleaseEffect DEF Local
  <2>2. CASE p # r
    BY <1>1, <1>11, <2>2, Frame, Cells, ReleaseEffect DEF Local
  <2>3. QED
    BY <2>1, <2>2
<1>12. QED
  BY <1>2, <1>3, <1>4, <1>5, <1>6, <1>7, <1>8, <1>9, <1>10, <1>11 DEF Step, Acquiring

(* A ticket taken before the wrap is one more than the maximum seen. *)
LEMMA NoWrap ==
  ASSUME TypeOK, NEW r \in Cores, Local(r), TakeTicket(r), burst' < TicketMod
  PROVE  thread_count'[r] = n_max[r] + 1
<1>1. n_max[r] + 1 <= burst'
  BY TakeTicketEffect, Cells DEF Local
<1>2. n_max[r] + 1 \in Nat /\ n_max[r] + 1 < TicketMod
  BY <1>1, TakeTicketEffect, Cells
<1>3. QED
  BY <1>2, ModSmall, TakeTicketEffect

(* A core that is behind p stays behind p until p gives its ticket back. *)
LEMMA BehindKept ==
  ASSUME TypeOK, \A c \in Cores : Local(c), NEW r \in Cores, Step(r),
         burst' < TicketMod,
         NEW p \in Cores, NEW q \in Cores, p # q,
         Behind(q, p), thread_count'[p] = thread_count[p]
  PROVE  Behind(q, p)'
<1>1. CASE r # q
  BY <1>1, Frame DEF Behind, Precedes, Scanning
<1>2. CASE r = q
  <2> USE <1>2
  <2>0. /\ thread_count[p] \in Nat /\ thread_count[q] \in Nat
        /\ idx[q] \in Nat /\ n_max[q] \in Nat
        /\ p \in Nat /\ q \in Nat /\ p < N_CORES
    BY Cells
  <2>1. CASE EnterDoorway(q)
    BY <2>0, <2>1, EnterDoorwayEffect DEF Behind
  <2>2. CASE FindMax(q)
    <3>1. thread_count[idx[q]] \in Nat
      BY <2>2, FindMaxEffect, Cells
    <3>2. idx[q] <= p \/ n_max[q] >= thread_count[p]
      BY <2>2, FindMaxEffect DEF Behind, Scanning
    <3>3. idx'[q] <= p \/ n_max'[q] >= thread_count[p]
      BY <2>0, <2>2, <3>1, <3>2, FindMaxEffect
    <3>4. QED
      BY <2>2, <3>3, FindMaxEffect DEF Behind
  <2>3. CASE TakeTicket(q)
    <3>1. n_max[q] >= thread_count[p]
      BY <2>0, <2>3, TakeTicketEffect DEF Behind, Scanning
    <3>2. thread_count'[q] = n_max[q] + 1
      BY <2>3, NoWrap
    <3>3. QED
      BY <2>0, <2>3, <3>1, <3>2, TakeTicketEffect DEF Behind, Precedes
  <2>4. CASE LeaveDoorway(q)
    BY <2>0, <2>4, LeaveDoorwayEffect DEF Behind, Precedes, Scanning
  <2>5. CASE AwaitProtect(q)
    BY <2>0, <2>5, AwaitProtectEffect DEF Behind, Precedes, Scanning
  <2>6. CASE TestWaiting(q)
    BY <2>0, <2>6, TestWaitingEffect DEF Behind, Precedes, Scanning
  <2>7. CASE TestLess(q)
    BY <2>0, <2>7, TestLessEffect DEF Behind, Precedes, Scanning
  <2>8. CASE TestEqual(q)
    <3>1. pc[q] = "test_equal" /\ Precedes(p, q) /\ idx[q] <= p /\ thread_count[p] > 0
      BY <2>8, TestEqualEffect DEF Behind
    <3>2. CASE idx[q] = p
      <4>1. thread_count[p] = thread_count[q] /\ p < q
        BY <2>0, <3>1, <3>2 DEF Behind, Precedes
      <4>2. pc'[q] = "test_waiting" /\ idx'[q] = p /\ thread_count'[q] = thread_count[q]
        BY <2>8, <3>2, <4>1, TestEqualEffect
      <4>3. QED
        BY <3>1, <4>1, <4>2, <2>0 DEF Behind, Precedes, Scanning
    <3>3. CASE idx[q] # p
      <4>1. idx'[q] <= p /\ pc'[q] \in {"test_waiting", "await_protect"}
            /\ thread_count'[q] = thread_count[q]
        BY <2>0, <2>8, <3>1, <3>3, TestEqualEffect
      <4>2. QED
        BY <2>0, <3>1, <4>1 DEF Behind, Precedes, Scanning
    <3>4. QED
      BY <3>2, <3>3
  <2>9. CASE Acquired(q)
    BY <2>0, <2>9, AcquiredEffect DEF Behind, Scanning
  <2>10. CASE Release(q)
    BY <2>0, <2>10, ReleaseEffect DEF Behind, Scanning
  <2>11. QED
    BY <2>1, <2>2, <2>3, <2>4, <2>5, <2>6, <2>7, <2>8, <2>9, <2>10 DEF Step, Acquiring
<1>3. QED
  BY <1>1, <1>2

(* The other actors of a step: what Ordered gives for a pair of cores. *)
LEMMA OrderedStep ==
  ASSUME TypeOK, TypeOK', \A c \in Cores : Local(c), Ordered,
         NEW r \in Cores, Step(r), burst' < TicketMod
  PROVE  Ordered'
<1> USE DEF Ordered
<1> SUFFICES ASSUME NEW p \in Cores
             PROVE  (/\ Ticketed(p) /\ PassedWait(p) /\ DoorwaySeen(p)
                     /\ LessSeen(p) /\ AheadWait(p))'
  OBVIOUS
<1>1. Ticketed(p)'
  <2>1. CASE r # p
    BY <2>1, Frame DEF Ticketed
  <2>2. CASE r = p
    <3>1. CASE TakeTicket(p)
      BY <3>1, <2>2, NoWrap, Cells DEF Ticketed
    <3>2. CASE ~TakeTicket(p)
      BY <2>2, <3>2, EnterDoorwayEffect, FindMaxEffect, LeaveDoorwayEffect,
         AwaitProtectEffect, TestWaitingEffect, TestLessEffect, TestEqualEffect,
         AcquiredEffect, ReleaseEffect DEF Ticketed, Step, Acquiring
    <3>3. QED
      BY <3>1, <3>2
  <2>3. QED
    BY <2>1, <2>2
(* The cores p passes in this step were behind p already. *)
<1>2. ASSUME NEW q \in Cores, q # p, HasPassed(p, q)'
      PROVE  Behind(q, p) /\ thread_count'[p] = thread_count[p]
  <2>0. /\ thread_count[p] \in Nat /\ thread_count[q] \in Nat
        /\ idx[q] \in Nat /\ idx[p] \in Nat /\ n_max[q] \in Nat
        /\ p \in Nat /\ q \in Nat /\ p < N_CORES /\ q < N_CORES
    BY Cells
  <2>1. CASE r # p
    BY <1>2, <2>1, Frame DEF HasPassed, Scanning, PassedWait
  <2>2. CASE r = p
    <3>1. HasPassed(p, q) => Behind(q, p)
      BY <1>2 DEF PassedWait
    <3>2. CASE EnterDoorway(p) \/ FindMax(p) \/ TakeTicket(p) \/ LeaveDoorway(p) \/ Release(p)
      BY <1>2, <2>0, <3>2, EnterDoorwayEffect, FindMaxEffect, TakeTicketEffect,
         LeaveDoorwayEffect, ReleaseEffect DEF HasPassed, Scanning
    <3>3. CASE AwaitProtect(p) \/ TestLess(p) \/ Acquired(p)
      BY <1>2, <2>0, <3>1, <3>3, AwaitProtectEffect, TestLessEffect, AcquiredEffect
         DEF HasPassed, Scanning
    <3>4. CASE TestWaiting(p)
      <4>1. CASE idx[p] = q /\ thread_count[q] = 0
        <5>1. pc[q] \in {"idle", "find_max"}
          BY <4>1, <2>0 DEF Ticketed
        <5>2. thread_count[p] > 0
          BY <3>4, TestWaitingEffect DEF Ticketed
        <5>3. pc[q] = "find_max" /\ p < idx[q] => n_max[q] >= thread_count[p]
          BY <1>2, <4>1, <3>4, TestWaitingEffect DEF DoorwaySeen
        <5>4. Behind(q, p)
          BY <5>1, <5>2, <5>3, <2>0 DEF Behind
        <5>5. QED
          BY <3>4, <5>4, TestWaitingEffect
      <4>2. CASE ~(idx[p] = q /\ thread_count[q] = 0)
        BY <1>2, <2>0, <3>1, <3>4, <4>2, TestWaitingEffect DEF HasPassed, Scanning
      <4>3. QED
        BY <4>1, <4>2
    <3>5. CASE TestEqual(p)
      <4>1. CASE q < idx[p]
        BY <3>1, <3>5, <4>1, TestEqualEffect DEF HasPassed, Scanning
      <4>2. CASE ~(q < idx[p])
        <5>1. /\ idx[p] = q
              /\ ~(thread_count[q] = thread_count[p] /\ q < p)
          BY <1>2, <2>0, <3>5, <4>2, TestEqualEffect DEF HasPassed, Scanning
        <5>2. pc[p] = "test_equal" /\ thread_count[p] > 0
          BY <3>5, TestEqualEffect DEF Ticketed
        <5>3. ~HasPassed(q, p)
          <6>1. HasPassed(q, p) => Behind(p, q)
            BY <1>2 DEF PassedWait
          <6>2. ~Behind(p, q)
            BY <2>0, <5>1, <5>2 DEF Behind, Precedes
          <6>3. QED
            BY <6>1, <6>2
        <5>4. CASE thread_count[q] >= thread_count[p]
          <6>1. Precedes(p, q)
            BY <1>2, <2>0, <5>1, <5>4 DEF Precedes
          <6>2. pc[q] = "clear_protect" \/ (Scanning(q) /\ idx[q] <= p)
            <7>1. pc[q] \notin {"idle", "find_max", "cs"}
              BY <2>0, <5>2, <5>3, <5>4 DEF HasPassed, Local
            <7>2. QED
              BY <7>1, <2>0, <5>3, Cells DEF PCs, Scanning, HasPassed
          <6>3. pc[q] = "test_equal" /\ idx[q] = p => thread_count[p] = thread_count[q]
            <7>1. SUFFICES ASSUME pc[q] = "test_equal", idx[q] = p
                           PROVE  thread_count[p] = thread_count[q]
              OBVIOUS
            <7>2. thread_count[p] >= thread_count[q] \/ Behind(p, q)
              BY <1>2, <7>1 DEF LessSeen
            <7>3. ~Behind(p, q)
              BY <2>0, <5>1, <5>2 DEF Behind, Precedes
            <7>4. QED
              BY <2>0, <5>4, <7>2, <7>3
          <6>4. Behind(q, p)
            BY <5>2, <6>1, <6>2, <6>3 DEF Behind
          <6>5. QED
            BY <3>5, <6>4, TestEqualEffect
        <5>5. CASE ~(thread_count[q] >= thread_count[p])
          BY <1>2, <3>5, <5>1, <5>2, <5>5, TestEqualEffect DEF LessSeen
        <5>6. QED
          BY <5>4, <5>5
      <4>3. QED
        BY <4>1, <4>2
    <3>6. QED
      BY <2>2, <3>2, <3>3, <3>4, <3>5 DEF Step, Acquiring
  <2>3. QED
    BY <2>1, <2>2
<1>3. PassedWait(p)'
  BY <1>2, BehindKept DEF PassedWait
<1>4. DoorwaySeen(p)'
  <2> SUFFICES ASSUME NEW q \in Cores, q # p,
                      pc'[p] \in {"test_waiting", "test_less", "test_equal"},
                      idx'[p] = q, pc'[q] = "find_max", p < idx'[q]
               PROVE  n_max'[q] >= thread_count'[p]
    BY DEF DoorwaySeen
  <2>0. /\ thread_count[p] \in Nat /\ idx[q] \in Nat /\ n_max[q] \in Nat
        /\ p \in Nat /\ q \in Nat
    BY Cells
  <2>1. CASE r # p /\ r # q
    BY <2>1, Frame DEF DoorwaySeen
  <2>2. CASE r = p
    <3>1. pc'[q] = pc[q] /\ idx'[q] = idx[q] /\ n_max'[q] = n_max[q]
      BY <2>2, Frame
    <3>2. protect[q] = 1
      BY <3>1 DEF Local
    <3>3. ~AwaitProtect(p)
      BY <2>2, <3>2, AwaitProtectEffect
    <3>4. TestWaiting(p) \/ TestLess(p) \/ TestEqual(p)
      BY <2>2, <3>3, EnterDoorwayEffect, FindMaxEffect, TakeTicketEffect, LeaveDoorwayEffect,
         AcquiredEffect, ReleaseEffect DEF Step, Acquiring
    <3>5. /\ pc[p] \in {"test_waiting", "test_less", "test_equal"}
          /\ idx[p] = q /\ thread_count'[p] = thread_count[p]
      BY <3>4, TestWaitingEffect, TestLessEffect, TestEqualEffect
    <3>6. QED
      BY <3>1, <3>5 DEF DoorwaySeen
  <2>3. CASE r = q
    <3>1. pc'[p] = pc[p] /\ idx'[p] = idx[p] /\ thread_count'[p] = thread_count[p]
      BY <2>3, Frame
    <3>2. FindMax(q)
      BY <2>0, <2>3, EnterDoorwayEffect, TakeTicketEffect, LeaveDoorwayEffect, AwaitProtectEffect,
         TestWaitingEffect, TestLessEffect, TestEqualEffect, AcquiredEffect, ReleaseEffect
         DEF Step, Acquiring
    <3>3. p < idx[q] => n_max[q] >= thread_count[p]
      BY <3>1, <3>2, FindMaxEffect DEF DoorwaySeen
    <3>4. QED
      BY <2>0, <3>1, <3>2, <3>3, FindMaxEffect, Cells
  <2>4. QED
    BY <2>1, <2>2, <2>3
<1>5. LessSeen(p)'
  <2> SUFFICES ASSUME NEW q \in Cores, q # p, pc'[p] = "test_equal", idx'[p] = q
               PROVE  thread_count'[q] >= thread_count'[p] \/ Behind(q, p)'
    BY DEF LessSeen
  <2>0. /\ thread_count[p] \in Nat /\ thread_count[q] \in Nat
    BY Cells
  <2>1. CASE r = p
    <3>1. TestLess(p)
      BY <2>1, EnterDoorwayEffect, FindMaxEffect, TakeTicketEffect, LeaveDoorwayEffect,
         AwaitProtectEffect, TestWaitingEffect, TestEqualEffect, AcquiredEffect, ReleaseEffect
         DEF Step, Acquiring
    <3>2. QED
      BY <2>0, <2>1, <3>1, TestLessEffect, Frame
  <2>2. CASE r # p
    <3>1. pc[p] = "test_equal" /\ idx[p] = q /\ thread_count'[p] = thread_count[p]
      BY <2>2, Frame
    <3>2. CASE Behind(q, p)
      BY <3>1, <3>2, BehindKept
    <3>3. CASE thread_count[q] >= thread_count[p] /\ thread_count'[q] = thread_count[q]
      BY <3>1, <3>3
    <3>4. CASE thread_count[q] >= thread_count[p] /\ thread_count'[q] # thread_count[q]
      <4>1. r = q /\ (TakeTicket(q) \/ Release(q))
        BY <3>4, Frame, EnterDoorwayEffect, FindMaxEffect, LeaveDoorwayEffect, AwaitProtectEffect,
           TestWaitingEffect, TestLessEffect, TestEqualEffect, AcquiredEffect
           DEF Step, Acquiring
      <4>2. thread_count[p] > 0
        BY <3>1 DEF Ticketed
      <4>3. ~TakeTicket(q)
        BY <2>0, <3>4, <4>2, TakeTicketEffect DEF Local
      <4>4. QED
        BY <3>1, <4>1, <4>2, <4>3, ReleaseEffect DEF Behind
    <3>5. QED
      BY <3>1, <3>2, <3>3, <3>4 DEF LessSeen
  <2>3. QED
    BY <2>1, <2>2
<1>6. AheadWait(p)'
  <2> SUFFICES ASSUME pc'[p] # "idle", NEW q \in ahead'[p]
               PROVE  q # p /\ Scanning(q)' /\ Behind(p, q)'
    BY DEF AheadWait
  <2>0. q \in Cores
    BY DEF TypeOK
  <2>1. CASE r = p /\ EnterDoorway(p)
    <3>1. Scanning(q) /\ q # p
      BY <2>1, EnterDoorwayEffect DEF Scanning
    <3>2. pc'[q] = pc[q] /\ thread_count'[q] = thread_count[q]
      BY <2>0, <2>1, <3>1, Frame
    <3>3. thread_count[q] > 0
      BY <2>0, <3>1 DEF Ticketed, Scanning
    <3>4. QED
      BY <2>0, <2>1, <3>1, <3>2, <3>3, EnterDoorwayEffect DEF Behind, Scanning
  <2>2. CASE ~(r = p /\ EnterDoorway(p))
    <3>1. q \in ahead[p] /\ pc[p] # "idle"
      <4>1. CASE r # p
        BY <4>1, Frame
      <4>2. CASE r = p
        BY <2>2, <4>2, FindMaxEffect, TakeTicketEffect, LeaveDoorwayEffect, AwaitProtectEffect,
           TestWaitingEffect, TestLessEffect, TestEqualEffect, AcquiredEffect, ReleaseEffect
           DEF Step, Acquiring
      <4>3. QED
        BY <4>1, <4>2
    <3>2. q # p /\ Scanning(q) /\ Behind(p, q)
      BY <3>1 DEF AheadWait
    <3>3. Scanning(q)' /\ thread_count'[q] = thread_count[q]
      <4>1. CASE r # q
        BY <2>0, <3>2, <4>1, Frame DEF Scanning
      <4>2. CASE r = q
        <5>1. ~Acquired(q)
          BY <2>0, AcquiredEffect
        <5>2. QED
          BY <2>0, <3>2, <4>2, <5>1, EnterDoorwayEffect, FindMaxEffect, TakeTicketEffect,
             LeaveDoorwayEffect, AwaitProtectEffect, TestWaitingEffect, TestLessEffect,
             TestEqualEffect, ReleaseEffect DEF Scanning, Step, Acquiring
      <4>3. QED
        BY <4>1, <4>2
    <3>4. QED
      BY <2>0, <3>2, <3>3, BehindKept
  <2>3. QED
    BY <2>1, <2>2
<1>7. QED
  BY <1>1, <1>3, <1>4, <1>5, <1>6

(* Every step of the lock preserves the invariant; a release that leaves   *)
(* the lock idle re-establishes it, whatever the tickets did before.       *)
LEMMA InductiveStep == IInv /\ [Next]_vars => IInv'
<1> SUFFICES ASSUME IInv, [Next]_vars PROVE IInv'
  OBVIOUS
<1>1. CASE UNCHANGED vars
  BY <1>1 DEF vars, IInv, TypeOK, Local, Ordered, Ticketed, PassedWait, DoorwaySeen,
     LessSeen, AheadWait, HasPassed, Behind, Precedes, Scanning
<1>2. ASSUME NEW r \in Cores, Step(r) PROVE IInv'
  <2>1. TypeOK'
    BY TypeStep DEF IInv
  <2>2. \A p \in Cores : Local(p)'
    BY <1>2, LocalStep DEF IInv
  <2>3. ASSUME burst' < TicketMod PROVE Ordered'
    <3>1. CASE burst < TicketMod
      BY <1>2, <2>1, <2>3, <3>1, OrderedStep DEF IInv
    <3>2. CASE ~(burst < TicketMod)
      <4>1. Release(r) /\ \A q \in Cores \ {r} : pc[q] = "idle"
        BY <1>2, <2>3, <3>2, EnterDoorwayEffect, FindMaxEffect, TakeTicketEffect,
           LeaveDoorwayEffect, AwaitProtectEffect, TestWaitingEffect, TestLessEffect,
           TestEqualEffect, AcquiredEffect, ReleaseEffect DEF IInv, Step, Acquiring
      <4>2. \A q \in Cores : pc'[q] = "idle"
        BY <1>2, <4>1, Frame, ReleaseEffect DEF IInv
      <4>3. QED
        BY <4>2 DEF Ordered, Ticketed, PassedWait, DoorwaySeen, LessSeen, AheadWait,
           HasPassed, Scanning
    <3>3. QED
      BY <3>1, <3>2
  <2>4. QED
    BY <2>1, <2>2, <2>3 DEF IInv
<1>3. QED
  BY <1>1, <1>2 DEF Next, Step

(* The inductive invariant of the bakery lock. *)
LEMMA InvariantHolds == Spec => []IInv
<1>1. Init => IInv
  BY DEF Init, IInv, TypeOK, PCs, Local, Ordered, Ticketed, PassedWait, DoorwaySeen,
     LessSeen, AheadWait, HasPassed, Scanning
<1>2. QED
  BY <1>1, InductiveStep, PTL DEF Spec

(* Two cores never hold the bakery lock together while fewer than          *)
(* TicketMod tickets were issued since the lock was last idle: for every   *)
(* number of cores and every width of thread_count[].                      *)
THEOREM BakeryMutualExclusion == Spec => []MutualExclusion
<1>1. IInv => MutualExclusion
  BY DEF IInv, Ordered, PassedWait, HasPassed, Behind, Scanning, MutualExclusion
<1>2. QED
  BY <1>1, InvariantHolds, PTL

(* A core that left the doorway of bakerylock_acquire before another one   *)
(* entered it is served first, under the same condition.                   *)
THEOREM BakeryFirstComeFirstServed == Spec => []FirstComeFirstServed
<1>1. IInv => FirstComeFirstServed
  BY DEF IInv, Ordered, AheadWait, Behind, Scanning, FirstComeFirstServed, TypeOK
<1>2. QED
  BY <1>1, InvariantHolds, PTL
-----------------------------------------------------------------------------
(* The spin lock. *)
SpinInv == SpinTypeOK /\ Exclusive /\ NoOrphanKey

(* Every access of spinlock.c keeps the key and its holder in step. *)
LEMMA SpinInvStep == SpinInv /\ [SpinNext]_spinVars => SpinInv'
<1> SUFFICES ASSUME SpinInv, [SpinNext]_spinVars PROVE SpinInv'
  OBVIOUS
<1> USE DEF SpinInv, SpinTypeOK, Exclusive, NoOrphanKey, HartTo
<1>1. CASE UNCHANGED spinVars
  BY <1>1 DEF spinVars
<1>2. ASSUME NEW p \in Harts, Call(p) PROVE SpinInv'
  BY <1>2 DEF Call
<1>3. ASSUME NEW p \in Harts, Test(p) PROVE SpinInv'
  BY <1>3 DEF Test
<1>4. ASSUME NEW p \in Harts, Swap(p) PROVE SpinInv'
  <2>1. CASE key = 0
    BY <1>4, <2>1 DEF Swap
  <2>2. CASE key = 1
    BY <1>4, <2>2 DEF Swap
  <2>3. QED
    BY <2>1, <2>2
<1>5. ASSUME NEW p \in Harts, SpinRelease(p) PROVE SpinInv'
  BY <1>5 DEF SpinRelease
<1>6. QED
  BY <1>1, <1>2, <1>3, <1>4, <1>5 DEF SpinNext, SpinAcquiring

(* The inductive invariant of the spin lock. *)
LEMMA SpinInvHolds == SpinSpec => []SpinInv
<1>1. SpinInit => SpinInv
  BY DEF SpinInit, SpinInv, SpinTypeOK, Exclusive, NoOrphanKey
<1>2. QED
  BY <1>1, SpinInvStep, PTL DEF SpinSpec

(* At most one core holds the spin lock, and a free key is held by none:   *)
(* for any set of cores.                                                   *)
THEOREM SpinExclusive == SpinSpec => []Exclusive
BY SpinInvHolds, PTL DEF SpinInv

(* No key is left taken without a holder, for any set of cores. *)
THEOREM SpinNoOrphanKey == SpinSpec => []NoOrphanKey
BY SpinInvHolds, PTL DEF SpinInv

(* The amoswap spin lock implements the lock its callers are promised:     *)
(* the swap that returns 0 is the abstract acquisition, a losing swap and  *)
(* the test are stuttering steps.                                          *)
THEOREM SpinImplementsLock == SpinSpec => ImplementsLock
<1>1. SpinInit => Abstract!Init
  BY DEF SpinInit, Abstract!Init, LockState
<1>2. SpinInv /\ [SpinNext]_spinVars => [Abstract!Next]_LockState
  <2> SUFFICES ASSUME SpinInv, [SpinNext]_spinVars
               PROVE  Abstract!Next \/ UNCHANGED LockState
    OBVIOUS
  <2> USE DEF SpinInv, SpinTypeOK, HartTo, LockState
  <2>1. CASE UNCHANGED spinVars
    BY <2>1 DEF spinVars
  <2>2. ASSUME NEW p \in Harts, Call(p) PROVE Abstract!Next
    <3>1. Abstract!Request(p)
      BY <2>2 DEF Call, Abstract!Request
    <3>2. QED
      BY <3>1 DEF Abstract!Next
  <2>3. ASSUME NEW p \in Harts, Test(p) PROVE UNCHANGED LockState
    BY <2>3 DEF Test
  <2>4. ASSUME NEW p \in Harts, Swap(p), key = 0 PROVE Abstract!Next
    <3>1. Abstract!Acquire(p)
      BY <2>4 DEF Swap, Abstract!Acquire, Exclusive
    <3>2. QED
      BY <3>1 DEF Abstract!Next
  <2>5. ASSUME NEW p \in Harts, Swap(p), key # 0 PROVE UNCHANGED LockState
    BY <2>5 DEF Swap
  <2>6. ASSUME NEW p \in Harts, SpinRelease(p) PROVE Abstract!Next
    <3>1. Abstract!Release(p)
      BY <2>6 DEF SpinRelease, Abstract!Release
    <3>2. QED
      BY <3>1 DEF Abstract!Next
  <2>7. QED
    BY <2>1, <2>2, <2>3, <2>4, <2>5, <2>6 DEF SpinNext, SpinAcquiring
<1>3. QED
  BY <1>1, <1>2, SpinInvHolds, PTL DEF SpinSpec, Abstract!Spec, ImplementsLock
=============================================================================
