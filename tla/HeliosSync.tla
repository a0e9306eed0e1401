------------------------------ MODULE HeliosSync ------------------------------
(***************************************************************************)
(* The semaphore, the mutex and the wait of the Helios kernel              *)
(* (helios_sem.c, helios_mutex.c, helios_task_wait and the scheduler's     *)
(* pass over the wait list), called by tasks.  The context switch that     *)
(* would let a task run is not in this commit: Switch stands for it        *)
(* (external) and makes any ready task the current one between two calls,  *)
(* since the kernel is cooperative.  Module Helios models what the commit  *)
(* does on its own.  Left out: helios_resume_task, which refuses a paused  *)
(* task and leaves a ready one alone, so that it changes nothing here, and *)
(* a create without memory, which returns an error and a null pointer.     *)
(***************************************************************************)
EXTENDS Integers, Sequences, FiniteSets, SequencesExt

CONSTANTS
  STasks,       \* the tasks
  NoTask,       \* HELIOS_NULL_PTR
  MaxVal,       \* bound: the values of the semaphore and of the mutex
  MaxDepth,     \* bound: nested locks of one task
  MaxTicks      \* bound: the ticks of a wait

ASSUME HeliosSyncConstants == NoTask \notin STasks /\ MaxTicks \in Nat \ {0}

VARIABLES
  scurr,     \* g_sched_ctrl.curr_task
  sstatus,   \* the task_status of each task: "ready", "wait" or "pause"
  swait,     \* the wait list from its head
  sticks,    \* task_delay_ticks
  sres,      \* wait_on_resource: "sem", "mutex" or "none"
  sem,       \* sem_val, or NoObject or Deleted
  mobj,      \* the mutex: NoObject, Deleted, or 0 when it is there
  mutex,     \* mutex_val
  lockTask,  \* lock_task
  depth,     \* auxiliary: locks each task was told it has
  stray,     \* auxiliary: a task was told it unlocked a mutex it never locked
  halt       \* why no call returns any more: "no" (calls return), "list" (the
             \* pass over the wait list never ends), "self" (helios_pause_all_task
             \* never ends) or "freed" (a deleted object was used)

NoObject == -1  \* the pointer of the instance is HELIOS_NULL_PTR
Deleted == -2   \* it still points to the memory that was freed

schedVars == <<scurr, sstatus, swait, sticks, sres, halt>>
mutexVars == <<mobj, mutex, lockTask, depth, stray>>
syncVars == <<schedVars, sem, mutexVars>>
Go == halt = "no" /\ scurr # NoTask

-----------------------------------------------------------------------------
(* The scheduler's side of a wait. *)

\* What the pass finds at wait_on_resource: the first member of the object.
Available(r) == CASE r = "sem" -> sem > 0 [] r = "mutex" -> mutex > 0 [] OTHER -> FALSE

\* __helios_sched_wait_list_adjustment over the list w: every task is tested
\* against the resource of the head; the pass stops at the first one it wakes,
\* and stays for ever at one whose status is not wait.  Only a task woken by
\* the resource forgets what it waited for.
Adjust(w, status, res, ticks) ==
  LET free == w # <<>> /\ Available(res[w[1]])
      stops == {i \in DOMAIN w : status[w[i]] # "wait" \/ free \/ ticks[w[i]] = 1}
      at == IF stops = {} THEN Len(w) + 1 ELSE CHOOSE i \in stops : \A j \in stops : i <= j
      spins == stops # {} /\ status[w[at]] # "wait"
      woken == IF stops # {} /\ ~spins THEN {w[at]} ELSE {}
  IN /\ halt' = IF spins THEN "list" ELSE "no"
     /\ sstatus' = [t \in STasks |-> IF t \in woken THEN "ready" ELSE status[t]]
     /\ swait' = IF woken = {} THEN w ELSE RemoveAt(w, at)
     /\ sres' = [t \in STasks |-> IF t \in woken /\ free THEN "none" ELSE res[t]]
     /\ sticks' = [t \in STasks |-> IF t \in woken THEN 0
                                    ELSE IF \E i \in 1 .. at - 1 : w[i] = t THEN ticks[t] - 1
                                    ELSE ticks[t]]

\* _helios_scheduler_despatch up to the switch: _helios_pre_sched first marks
\* the current task ready.
DespatchTask(w, status, res, ticks) ==
  /\ Adjust(w, [status EXCEPT ![scurr] = "ready"], res, ticks)
  /\ scurr' = NoTask

\* helios_task_yield.
TaskYield ==
  /\ Go /\ DespatchTask(swait, sstatus, sres, sticks)
  /\ UNCHANGED <<sem, mutexVars>>

\* helios_task_wait, for the object r: _helios_sched_send_to_wait puts the caller
\* at the end of the wait list (again, if it has paused itself), then it yields.
WaitOn(r, ticks) ==
  DespatchTask(Append(swait, scurr), [sstatus EXCEPT ![scurr] = "wait"],
           [sres EXCEPT ![scurr] = r], [sticks EXCEPT ![scurr] = ticks])
TaskWait(ticks) ==
  /\ Go /\ ticks > 0 /\ WaitOn(sres[scurr], ticks)
  /\ UNCHANGED <<sem, mutexVars>>

\* helios_pause_task of a task that is not paused, the current one included
\* (NULL, or a task that is not found): it is listed, and the caller goes on.
TaskPause(t) ==
  /\ Go /\ sstatus[t] # "pause"
  /\ swait' = Append(swait, t) /\ sstatus' = [sstatus EXCEPT ![t] = "pause"]
  /\ UNCHANGED <<scurr, sres, sticks, halt, sem, mutexVars>>

\* helios_pause_all_task pauses the tasks S that are before the current one on
\* the ready list, and then stays at the current one for ever.
PauseEvery ==
  /\ Go
  /\ \E S \in SUBSET {t \in STasks \ {scurr} : sstatus[t] # "pause"} :
       /\ swait' = swait \o SetToSeq(S)
       /\ sstatus' = [t \in STasks |-> IF t \in S THEN "pause" ELSE sstatus[t]]
  /\ halt' = "self"
  /\ UNCHANGED <<scurr, sres, sticks, sem, mutexVars>>

\* helios_resume_all_task takes every waiting and paused task off the list.
ResumeEvery ==
  /\ Go /\ swait # <<>>
  /\ swait' = <<>> /\ sstatus' = [t \in STasks |-> IF t \in ToSet(swait) THEN "ready" ELSE sstatus[t]]
  /\ sticks' = [t \in STasks |-> IF t \in ToSet(swait) THEN 0 ELSE sticks[t]]
  /\ UNCHANGED <<scurr, sres, halt, sem, mutexVars>>

\* Switch (external): some ready task goes on.
Switch ==
  /\ halt = "no" /\ scurr = NoTask
  /\ \E t \in STasks : sstatus[t] = "ready" /\ scurr' = t
  /\ UNCHANGED <<sstatus, swait, sticks, sres, halt, sem, mutexVars>>

-----------------------------------------------------------------------------
(* helios_sem.c.  A create wants a null pointer, and a delete leaves the      *)
(* pointer: what was deleted is never created again.                          *)
SemCreate(v) ==
  /\ Go /\ sem = NoObject /\ sem' = v
  /\ UNCHANGED <<schedVars, mutexVars>>
SemDelete ==
  /\ Go /\ sem >= 0 /\ sem' = Deleted
  /\ UNCHANGED <<schedVars, mutexVars>>

\* helios_sem_take: an empty semaphore is refused (ticks = 0) or waited for,
\* and is not taken after the wait.
SemTake(ticks) ==
  /\ Go /\ sem >= 0
  /\ \/ sem > 0 /\ sem' = sem - 1 /\ UNCHANGED schedVars
     \/ sem = 0 /\ ticks = 0 /\ UNCHANGED <<sem, schedVars>>
     \/ sem = 0 /\ ticks > 0 /\ WaitOn("sem", ticks) /\ UNCHANGED sem
  /\ UNCHANGED mutexVars
SemGive ==
  /\ Go /\ sem >= 0 /\ sem < MaxVal
  /\ sem' = sem + 1
  /\ UNCHANGED <<schedVars, mutexVars>>

-----------------------------------------------------------------------------
(* helios_mutex.c. *)

\* helios_mutex_create of the dynamic build writes neither lock_task nor
\* anything else but the value: g is what the memory held.
MutexCreate(g) ==
  /\ Go /\ mobj = NoObject
  /\ mobj' = 0 /\ mutex' = 1 /\ lockTask' = g
  /\ UNCHANGED <<schedVars, sem, depth, stray>>

\* helios_mutex_delete asks neither whether it is locked nor by whom.
MutexDelete ==
  /\ Go /\ mobj = 0
  /\ mobj' = Deleted /\ depth' = [t \in STasks |-> 0]
  /\ UNCHANGED <<schedVars, sem, mutex, lockTask, stray>>

\* A call for a deleted object (external): it reads memory that was freed, and
\* what follows is not said.
UseDeleted ==
  /\ Go /\ Deleted \in {sem, mobj}
  /\ halt' = "freed"
  /\ UNCHANGED <<scurr, sstatus, swait, sticks, sres, sem, mutexVars>>

Taken == mutex # 1 /\ lockTask # NoTask
TakeLock ==
  /\ lockTask' = scurr /\ mutex' = mutex - 1 /\ depth' = [depth EXCEPT ![scurr] = @ + 1]
  /\ UNCHANGED <<mobj, stray>>

\* Mutant of MutexLock: any task may lock again.
MutexLockAny(ticks) ==
  /\ Go /\ mobj = 0 /\ depth[scurr] < MaxDepth /\ TakeLock
  /\ UNCHANGED <<schedVars, sem>>
\* helios_mutex_lock: a caller that may not wait is refused even its own mutex.
MutexLock(ticks) ==
  /\ Go /\ mobj = 0 /\ depth[scurr] < MaxDepth
  /\ \/ Taken /\ ticks = 0 /\ UNCHANGED <<mutexVars, schedVars>>
     \/ Taken /\ ticks > 0 /\ lockTask # scurr /\ WaitOn("mutex", ticks) /\ UNCHANGED mutexVars
     \/ (Taken => ticks > 0 /\ lockTask = scurr) /\ TakeLock /\ UNCHANGED schedVars
  /\ UNCHANGED sem

\* What the caller of helios_mutex_unlock is told: one lock less, or none that
\* it ever had.
ToldUnlocked ==
  /\ depth' = [depth EXCEPT ![scurr] = IF @ = 0 THEN 0 ELSE @ - 1]
  /\ stray' = (stray \/ depth[scurr] = 0)
  /\ UNCHANGED mobj

\* Mutant of MutexUnlock: the owner is forgotten at once.
MutexUnlockEarly ==
  /\ Go /\ mobj = 0 /\ lockTask = scurr /\ mutex < MaxVal
  /\ mutex' = mutex + 1 /\ lockTask' = NoTask /\ ToldUnlocked
  /\ UNCHANGED <<schedVars, sem>>
\* helios_mutex_unlock; it refuses every task that lock_task does not name.
MutexUnlock ==
  /\ Go /\ mobj = 0
  /\ IF lockTask # scurr THEN UNCHANGED mutexVars
     ELSE /\ mutex < MaxVal
          /\ mutex' = mutex + 1 /\ ToldUnlocked
          /\ lockTask' = IF mutex + 1 = 1 THEN NoTask ELSE lockTask
  /\ UNCHANGED <<schedVars, sem>>

-----------------------------------------------------------------------------
SyncInit ==
  /\ scurr = NoTask /\ sstatus = [t \in STasks |-> "ready"] /\ swait = <<>>
  /\ sticks = [t \in STasks |-> 0] /\ sres = [t \in STasks |-> "none"]
  /\ sem = NoObject /\ mobj = NoObject /\ mutex = 1 /\ lockTask = NoTask
  /\ depth = [t \in STasks |-> 0] /\ stray = FALSE /\ halt = "no"

SyncNext ==
  \/ Switch \/ TaskYield \/ PauseEvery \/ ResumeEvery \/ UseDeleted
  \/ \E t \in STasks : TaskPause(t)
  \/ \E v \in 0 .. MaxVal : SemCreate(v)
  \/ \E g \in STasks \cup {NoTask} : MutexCreate(g)
  \/ SemDelete \/ SemGive \/ MutexDelete \/ MutexUnlock
  \/ \E n \in 0 .. MaxTicks : TaskWait(n) \/ SemTake(n) \/ MutexLock(n)

SyncSpec == SyncInit /\ [][SyncNext]_syncVars

-----------------------------------------------------------------------------
\* helios_mutex_lock, helios_mutex_unlock, helios_mutex_delete, helios_pause_task
\* and helios_task_yield, called by tasks in any order: until a task unlocks a
\* mutex that it never locked, a task that was told it has the mutex is the only
\* one, owns it, and has it until its last unlock, after which it is free; and as
\* long as calls return the wait list holds each paused task once and no other,
\* also when a task has paused itself and goes on.
SyncExact ==
  /\ ~stray =>
       /\ \A t \in STasks : depth[t] > 0 => mobj = 0 /\ lockTask = t /\ mutex = 1 - depth[t]
       /\ mobj = 0 /\ (\A t \in STasks : depth[t] = 0) => mutex = 1
  /\ halt = "no" =>
       /\ Cardinality(ToSet(swait)) = Len(swait)
       /\ ToSet(swait) = {t \in STasks : sstatus[t] # "ready"}
=============================================================================
