------------------------------- MODULE Helios -------------------------------
(***************************************************************************)
(* The task lists of the Helios kernel, visor/services/kernel/helios, in   *)
(* the build its two demos use: HELIOS_USE_DYNAMIC 1, HELIOS_ANTI_DEADLOCK *)
(* 0, HELIOS_POWER_SAVE_EN 0.  plug() calls the API on the boot thread,    *)
(* where curr_task is NULL, and then helios_run, which despatches once and *)
(* panics: a context switch only sets a status in this commit, so no task  *)
(* ever runs, and no call is made with a current task.                     *)
(*                                                                         *)
(* Every task control block (TCB) is on a circular ready list sorted by    *)
(* priority; a waiting or paused one is on a circular wait list as well.   *)
(* The lists are kept as the pointers of the code.  k.fault records where  *)
(* the code leaves them:                                                   *)
(*   "null"  a member of the NULL TCB is used;                             *)
(*   "wild"  the links of a TCB fresh from malloc are followed;            *)
(*   "hang"  the loop over the wait list never advances.                   *)
(***************************************************************************)
EXTENDS Integers, FiniteSets, Sequences, SequencesExt

CONSTANTS Tasks,      \* the TCBs the user's tasks get
          Idle,       \* the TCB of the idle task
          NullTcb,    \* HELIOS_NULL_PTR
          Priorities, \* priorities the user asks for
          IdlePriority \* HELIOS_IDLE_TASK_PRIORITY

ASSUME HeliosAssumption ==
  /\ IdlePriority \in Nat \ {0} /\ Priorities \subseteq Nat \ {0}
  /\ \A p \in Priorities : p >= IdlePriority   \* asserted by helios_add_task
  /\ IsFiniteSet(Tasks) /\ Idle \notin Tasks /\ NullTcb \notin Tasks \cup {Idle}

Tcbs == Tasks \cup {Idle}
Algos == {"round_robin", "priority_driven"}

VARIABLES
  k,       \* g_sched_ctrl's two lists and the members of every TCB
  curr,    \* g_sched_ctrl.curr_task
  algo,    \* g_sched_ctrl.selected_sched
  phase,   \* "started" once helios_run has despatched and panicked
  order,   \* auxiliary: the TCBs added, oldest first
  want,    \* auxiliary: what the user last asked of each task: "run", "pause" or "gone"
  torn     \* auxiliary: a task was deleted while it was on the wait list

vars == <<k, curr, algo, phase, order, want, torn>>

NoLinks == [next |-> [t \in Tcbs |-> NullTcb], prev |-> [t \in Tcbs |-> NullTcb]]

Init ==
  /\ k = [rhead |-> NullTcb, whead |-> NullTcb, ready |-> NoLinks, wait |-> NoLinks,
          status |-> [t \in Tcbs |-> "exit"], prio |-> [t \in Tcbs |-> 0],
          fault |-> "none"]
  /\ curr = NullTcb
  /\ algo = "round_robin"
  /\ phase = "boot"
  /\ order = <<>>
  /\ want = [t \in Tcbs |-> "run"]
  /\ torn = FALSE

Running == phase = "boot" /\ k.fault = "none"

-----------------------------------------------------------------------------
(* The doubly linked lists.                                                *)

(* _helios_sched_insert_before on a list that is not empty. *)
InsertBefore(links, h, t) ==
  LET prev == [links.prev EXCEPT ![t] = links.prev[h], ![h] = t]
  IN  [next |-> [links.next EXCEPT ![t] = h, ![prev[t]] = t], prev |-> prev]

(* _helios_sched_insert_before on an empty list. *)
Alone(links, t) ==
  [next |-> [links.next EXCEPT ![t] = t], prev |-> [links.prev EXCEPT ![t] = t]]

(* The unlinking of _helios_sched_node_detach. *)
Detach(links, t) ==
  LET next == [links.next EXCEPT ![links.prev[t]] = links.next[t]]
      prev == [links.prev EXCEPT ![next[t]] = links.prev[t]]
  IN  [next |-> [next EXCEPT ![t] = NullTcb], prev |-> [prev EXCEPT ![t] = NullTcb]]

(* The TCBs a loop that follows next from head meets. *)
Walk(head, next) ==
  LET at[i \in 0 .. Cardinality(Tcbs)] ==
        IF i = 0 THEN head ELSE IF at[i - 1] = NullTcb THEN NullTcb ELSE next[at[i - 1]]
  IN  at

(* The ready list as the loops of the code walk it, from its head. *)
ReadyList(s) ==
  LET at == Walk(s.rhead, s.ready.next)
      back == {i \in 1 .. Cardinality(Tcbs) : at[i] = s.rhead}
      len == IF back = {} THEN 0 ELSE Min(back)
  IN  IF s.rhead = NullTcb THEN <<>> ELSE [i \in 1 .. len |-> at[i - 1]]

(* __helios_get_tcb_using_task_id: its loop stops before the last TCB. *)
GetTcb(t) ==
  IF \E i \in 1 .. Len(ReadyList(k)) - 1 : ReadyList(k)[i] = t THEN t ELSE NullTcb

-----------------------------------------------------------------------------
(* The state changes of helios_sched.c.                                    *)

(* _helios_sched_send_to_pause. *)
SendToPause(s, t) ==
  IF s.status[t] = "pause" \/ s.fault # "none" THEN s
  ELSE [s EXCEPT !.wait = IF s.whead = NullTcb THEN Alone(s.wait, t)
                          ELSE InsertBefore(s.wait, s.whead, t),
                 !.whead = IF s.whead = NullTcb THEN t ELSE s.whead,
                 !.status[t] = "pause"]

(* Mutant of SendToResume: the head of the wait list is left in place. *)
SendToResumeKeepHead(s, t) ==
  IF s.status[t] \notin {"wait", "pause"} \/ s.fault # "none" THEN s
  ELSE IF NullTcb \in {s.wait.next[t], s.wait.prev[t]} THEN [s EXCEPT !.fault = "null"]
  ELSE [s EXCEPT !.wait = Detach(s.wait, t), !.status[t] = "ready"]

(* _helios_sched_send_to_resume, with its call of node_detach.  A task     *)
(* that was deleted while it was on the wait list is put there twice by    *)
(* the next pause, and its links may then be NULL.                         *)
SendToResume(s, t) ==
  LET next == s.wait.next[t]
      last == next = t /\ s.wait.prev[t] = t
  IN  IF s.status[t] \notin {"wait", "pause"} \/ s.fault # "none" THEN s
      ELSE IF NullTcb \in {next, s.wait.prev[t]} THEN [s EXCEPT !.fault = "null"]
      ELSE [s EXCEPT !.whead = IF t # s.whead THEN s.whead
                               ELSE IF last THEN NullTcb ELSE next,
                     !.wait = Detach(s.wait, t),
                     !.status[t] = "ready"]

(* The loop of helios_pause_all_task. *)
PauseAll(s) == FoldLeft(SendToPause, s, ReadyList(s))

(* Mutant of ResumeAll: the loop ends when it meets the head. *)
ResumeAllShort(s) ==
  IF ReadyList(s) = <<>> THEN s ELSE FoldLeft(SendToResume, s, Tail(ReadyList(s)))

(* The loop of helios_resume_all_task starts behind the head and ends      *)
(* with it.                                                                *)
ResumeAll(s) ==
  IF ReadyList(s) = <<>> THEN s
  ELSE FoldLeft(SendToResume, s, Append(Tail(ReadyList(s)), Head(ReadyList(s))))

(* Mutant of BackOfPriority: a new task goes before its equals. *)
FrontOfPriority(s, t) ==
  LET L == ReadyList(s)
      higher == {i \in DOMAIN L : s.prio[L[i]] >= s.prio[t]}
      ref == IF higher = {} THEN s.rhead ELSE L[Min(higher)]
      least == s.prio[t] <= s.prio[s.rhead]
  IN  [s EXCEPT !.rhead = IF least THEN t ELSE s.rhead,
                !.ready = InsertBefore(s.ready, ref, t)]

(* _helios_sched_send_back_of_task_prio of a TCB that is not the head and  *)
(* whose two ready links are equal: it goes before the first TCB of a      *)
(* higher priority, and becomes the head if that is the old head.          *)
BackOfPriority(s, t) ==
  LET L == ReadyList(s)
      higher == {i \in DOMAIN L : s.prio[L[i]] > s.prio[t]}
      ref == IF higher = {} THEN s.rhead ELSE L[Min(higher)]
      least == s.prio[t] < s.prio[s.rhead]
  IN  [s EXCEPT !.rhead = IF least THEN t ELSE s.rhead,
                !.ready = InsertBefore(s.ready, ref, t)]

(* helios_add_task between its pause and its resume.  malloc does not      *)
(* clear a TCB: clean says that its two ready links happen to be equal.    *)
LinkTask(s, t, p, clean) ==
  LET named == [s EXCEPT !.prio[t] = p]
      linked == IF s.rhead = NullTcb
                THEN [named EXCEPT !.rhead = t, !.ready = Alone(s.ready, t)]
                ELSE IF clean THEN BackOfPriority(named, t)
                ELSE [named EXCEPT !.fault = "wild"]
  IN  [linked EXCEPT !.status[t] = "ready"]

AddTcb(s, t, p, clean) == ResumeAll(LinkTask(PauseAll(s), t, p, clean))

-----------------------------------------------------------------------------
(* The calls of plug().                                                    *)

Want(what, ts) == want' = [t \in Tcbs |-> IF t \in ts /\ want[t] # "gone" THEN what ELSE want[t]]

AddTask(t, p, clean) ==
  /\ Running
  /\ t \notin ToSet(order)
  /\ k' = AddTcb(k, t, p, clean)
  /\ order' = Append(order, t)
  /\ UNCHANGED <<curr, algo, phase, want, torn>>

(* helios_add_task when malloc fails, for the TCB or for its stack. *)
AddTaskLow ==
  /\ Running
  /\ k' = ResumeAll(PauseAll(k))
  /\ UNCHANGED <<curr, algo, phase, order, want, torn>>

(* helios_pause_task: a task that is not found is the current one. *)
PauseTask(t) ==
  LET found == GetTcb(t)
  IN  /\ Running /\ t \in ToSet(order)
      /\ k' = IF found # NullTcb THEN SendToPause(k, found)
              ELSE [k EXCEPT !.fault = "null"]   \* curr is NULL
      /\ Want("pause", {found})
      /\ UNCHANGED <<curr, algo, phase, order, torn>>

(* helios_resume_task: a paused task is refused, as is one not found. *)
ResumeTask(t) ==
  LET found == GetTcb(t)
  IN  /\ Running /\ t \in ToSet(order)
      /\ k' = IF found # NullTcb /\ k.status[found] # "pause" THEN SendToResume(k, found) ELSE k
      /\ Want("run", {found})
      /\ UNCHANGED <<curr, algo, phase, order, torn>>

(* helios_del_task: the head of the ready list is taken for the idle task  *)
(* and refused; the TCB stays on its lists.                                *)
DelTask(t) ==
  LET found == GetTcb(t)
  IN  /\ Running /\ t \in ToSet(order)
      /\ k' = IF found = NullTcb THEN [k EXCEPT !.fault = "null"]
              ELSE IF found = k.rhead THEN k
              ELSE [k EXCEPT !.status[found] = "exit"]
      /\ Want("gone", {found} \ {k.rhead})
      /\ torn' = (torn \/ (found \notin {NullTcb, k.rhead} /\ k.status[t] = "pause"))
      /\ UNCHANGED <<curr, algo, phase, order>>

PauseAllTask ==
  /\ Running
  /\ k' = PauseAll(k)
  /\ Want("pause", ToSet(order))
  /\ UNCHANGED <<curr, algo, phase, order, torn>>

ResumeAllTask ==
  /\ Running
  /\ k' = ResumeAll(k)
  /\ Want("run", ToSet(order))
  /\ UNCHANGED <<curr, algo, phase, order, torn>>

SetSchedAlgo(a) ==
  /\ Running
  /\ algo' = a
  /\ UNCHANGED <<k, curr, phase, order, want, torn>>

(* The algorithms.  Round robin looks at the TCB behind the current one    *)
(* and marks the one behind that; priority takes the end of the list.      *)
RoundRobin(s, c) ==
  LET t == s.ready.next[c]
      u == IF t = s.rhead THEN SendToResume(s, t) ELSE s
  IN  IF u.status[t] = "ready" THEN [u EXCEPT !.status[u.ready.next[t]] = "running"] ELSE u

(* Mutant of PriorityDriven: the head of the list is taken. *)
PriorityDrivenHead(s) == [s EXCEPT !.status[s.rhead] = "running"]

(* Every task is ready when helios_run despatches: the loop over wait_link *)
(* is not entered.                                                         *)
PriorityDriven(s) == [s EXCEPT !.status[s.ready.prev[s.rhead]] = "running"]

(* _helios_scheduler_despatch with curr_task the head of the ready list:   *)
(* _helios_pre_sched makes it ready and leaves its place alone.  Nothing   *)
(* is in the state wait, so a wait list that is not empty is walked for    *)
(* ever.                                                                   *)
Despatch(s, c) ==
  IF s.fault # "none" THEN s
  ELSE IF c = NullTcb THEN [s EXCEPT !.fault = "null"]
  ELSE IF s.whead # NullTcb THEN [s EXCEPT !.fault = "hang"]
  ELSE LET r == [s EXCEPT !.status[c] = "ready"]
       IN  IF algo = "round_robin" THEN RoundRobin(r, c) ELSE PriorityDriven(r)

(* helios_run: the status of its helios_add_task is ignored.  It ends in   *)
(* HELIOS_SCHED_PANIC.                                                     *)
HeliosRun(added, clean) ==
  LET s == IF added THEN AddTcb(k, Idle, IdlePriority, clean) ELSE ResumeAll(PauseAll(k))
  IN  /\ Running
      /\ curr' = s.rhead
      /\ k' = Despatch(s, s.rhead)
      /\ phase' = "started"
      /\ order' = IF added THEN Append(order, Idle) ELSE order
      /\ UNCHANGED <<algo, want, torn>>

Next ==
  \/ \E t \in Tasks, p \in Priorities, clean \in BOOLEAN : AddTask(t, p, clean)
  \/ AddTaskLow
  \/ \E t \in Tasks : PauseTask(t) \/ ResumeTask(t) \/ DelTask(t)
  \/ PauseAllTask \/ ResumeAllTask
  \/ \E a \in Algos : SetSchedAlgo(a)
  \/ \E added, clean \in BOOLEAN : HeliosRun(added, clean)

Spec == Init /\ [][Next]_vars
-----------------------------------------------------------------------------
(* The position at which a TCB was added. *)
Age(t) == CHOOSE i \in DOMAIN order : order[i] = t

(* _helios_sched_send_back_of_task_prio keeps the ready list a ring of     *)
(* tasks that were added, each once and every one that is not deleted,     *)
(* linked both ways, in ascending priority and, among equals, in the order *)
(* of their addition, whatever calls came between the additions; only      *)
(* unequal garbage in a new TCB breaks it.                                 *)
ReadySorted ==
  k.fault # "wild" =>
    LET L == ReadyList(k)
    IN  /\ ToSet(L) \subseteq ToSet(order)
        /\ \A t \in ToSet(order) : want[t] # "gone" => t \in ToSet(L)
        /\ \A i \in DOMAIN L : k.ready.prev[L[i]] = IF i = 1 THEN L[Len(L)] ELSE L[i - 1]
        /\ \A i, j \in DOMAIN L : i < j =>
             \/ k.prio[L[i]] < k.prio[L[j]]
             \/ k.prio[L[i]] = k.prio[L[j]] /\ Age(L[i]) < Age(L[j])

(* The TCBs reached from the head of the wait list. *)
OnWaitList ==
  {Walk(k.whead, k.wait.next)[i] : i \in 0 .. Cardinality(Tcbs)} \ {NullTcb}

(* The calls that pause and resume keep the wait list a ring, linked both  *)
(* ways, of exactly the paused tasks, and the wait list of a started       *)
(* kernel empty.  helios_del_task of a paused task ends that (torn).       *)
WaitListExact ==
  ~torn /\ k.fault \in {"none", "hang"} =>
    /\ {t \in Tcbs : k.status[t] \in {"wait", "pause"}} = OnWaitList
    /\ \A t \in OnWaitList : k.wait.prev[k.wait.next[t]] = t

(* helios_run never spins in the loop over the wait list, and never loses  *)
(* a task: exactly one TCB is running, and every other one that is to run  *)
(* is ready (helios_add_task of the idle task makes the paused and deleted *)
(* ones ready too, against helios_tasks.h:64 and :73: not asked for here), *)
(* unless a paused task was deleted, a TCB came with unequal     *)
(* links, or nothing was ever added.                                       *)
StartsOne ==
  phase = "started" /\ ~torn /\ k.fault # "wild" /\ order # <<>> =>
    /\ k.fault = "none"
    /\ \E t \in ToSet(order) :
         /\ k.status[t] = "running"
         /\ \A u \in Tcbs \ {t} :
              /\ k.status[u] # "running"
              /\ u \in ToSet(order) /\ want[u] = "run" => k.status[u] = "ready"

(* The priority driven algorithm starts a task above every other that is   *)
(* to run, in its priority or, among equals, as the newer one.             *)
StartsHighest ==
  phase = "started" /\ algo = "priority_driven" =>
    \A t, u \in ToSet(order) : k.status[t] = "running" /\ want[u] = "run" /\ t # u =>
      k.prio[t] > k.prio[u] \/ (k.prio[t] = k.prio[u] /\ Age(t) > Age(u))

(* The two lists under the calls of helios_tasks.c, and what helios_run    *)
(* makes of them.                                                          *)
ListsSound == ReadySorted /\ WaitListExact /\ StartsOne /\ StartsHighest

-----------------------------------------------------------------------------
(* What include/visor/helios/helios_tasks.h:75 says, and the code does not *)
(* do: helios_pause_task takes a "pointer to the TASK_instance".  The      *)
(* lookup misses the last task of the ready list, and the code falls back  *)
(* on curr_task, which is NULL before helios_run.                          *)
InstanceFound == order # <<>> /\ ~torn => k.fault # "null"
=============================================================================
