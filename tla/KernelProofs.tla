----------------------------- MODULE KernelProofs -----------------------------
(***************************************************************************)
(* Proofs about the task lists, the semaphore, the mutex and the wait of   *)
(* Helios, for every set of tasks, and about what libposix makes of a      *)
(* kernel, for every number of threads, of units and of ticks.             *)
(***************************************************************************)
EXTENDS Helios, HeliosSync, Posix, FoldFacts, FiniteSetTheorems, TLAPS

-----------------------------------------------------------------------------
(* libposix. *)
TimedCall == [at : {"lock", "try", "delay", "held", "deinit"}, op : {"sem", "send", "recv", "open", "close"},
              left : Nat, waited : Nat, asked : Nat]
CreateCall == [at : {"create", "created"}, op : {"pt"}]
Outcome == [err : {"none", "ok", "timedout", "busy"}, of : {"none", "sem", "send", "recv", "open", "close"},
            took : BOOLEAN, waited : Nat, asked : Nat]

(* A timed call has as many ticks left as it was asked to wait less those  *)
(* it waited; it sleeps only with one left, and has none left at a try     *)
(* only when it was given none.                                            *)
TicksAddUp(c) ==
  c.at \in {"lock", "try", "delay", "held", "deinit"} =>
    /\ c.left + c.waited = c.asked
    /\ c.at = "delay" => c.left > 0
    /\ c.at = "try" /\ c.left = 0 => c.waited = 0
    /\ c.at = "lock" => c.waited = 0
    /\ c.at \in {"try", "delay"} => c.op \in {"sem", "send", "recv"}
    /\ c.at \in {"lock", "held", "deinit"} => c.op # "sem"
    /\ c.at = "held" => c.op \in {"open", "close"}

(* A thread between a lock and the unlock of g_mq_mutex. *)
InQueue(c) == c.at \in {"try", "delay", "held"} /\ c.op # "sem"

(* What a timed call returned, as PosixSafe states it. *)
OutcomeOK(r) ==
  /\ r.err = "ok" /\ r.of \in {"sem", "send", "recv"} /\ (r.asked > 0 => r.waited < r.asked) => r.took
  /\ r.err = "timedout" => ~r.took
  /\ r.waited <= r.asked
(* EBUSY after the work was done needs a lock that was lost. *)
BusyOK == \A p \in Threads : result[p].err = "busy" /\ result[p].took => redone

PosixTypes ==
  /\ kval \in [{"sem", "mq"} -> Int]
  /\ redone \in BOOLEAN
  /\ mqLock \in Threads \cup {Nobody} /\ ptLock \in Threads \cup {Nobody}
  /\ holds \in SUBSET Threads
  /\ call \in [Threads -> {Resting, Dead} \cup TimedCall \cup CreateCall]
  /\ result \in [Threads -> Outcome]

Calls == \A p \in Threads : TicksAddUp(call[p]) /\ OutcomeOK(result[p])

(* holds is who is inside, and unless g_mq_mutex was initialised or        *)
(* destroyed while held that is its holder and nobody else.                *)
QueueLock ==
  /\ \A p \in Threads : p \in holds <=> InQueue(call[p])
  /\ ~redone => holds = {mqLock} \ {Nobody}

CreateLock ==
  /\ ptLock # Nobody => call[ptLock].at \in {"created", "dead"}
  /\ \A p \in Threads : call[p].at = "created" => ptLock = p

PosixInv == PosixTypes /\ moved = kval /\ Calls /\ BusyOK /\ QueueLock /\ CreateLock

(* The initial state satisfies the inductive invariant. *)
LEMMA PosixInit == PInit => PosixInv
<1> SUFFICES ASSUME PInit PROVE PosixInv
  OBVIOUS
<1> USE DEF PInit, Resting, None
<1>1. PosixTypes
  <2>1. kval \in [{"sem", "mq"} -> Int]
    OBVIOUS
  <2>2. result \in [Threads -> Outcome]
    BY DEF Outcome
  <2> QED
    BY <2>1, <2>2 DEF PosixTypes
<1>2. Calls /\ BusyOK
  BY DEF Calls, TicksAddUp, OutcomeOK, BusyOK
<1>3. QueueLock /\ CreateLock
  BY DEF QueueLock, CreateLock, InQueue
<1> QED
  BY <1>1, <1>2, <1>3 DEF PosixInv

(* A step of one thread that returns, or goes on, with its call c and the  *)
(* outcome r, keeps the parts that are about each thread.                  *)
LEMMA OneThread ==
  ASSUME PosixInv, NEW p \in Threads, NEW c, NEW r,
         c \in {Resting, Dead} \cup TimedCall \cup CreateCall, r \in Outcome,
         TicksAddUp(c), OutcomeOK(r), r.err = "busy" /\ r.took => redone', redone => redone',
         call' = [call EXCEPT ![p] = c], result' = [result EXCEPT ![p] = r]
  PROVE  /\ call' \in [Threads -> {Resting, Dead} \cup TimedCall \cup CreateCall]
         /\ result' \in [Threads -> Outcome]
         /\ Calls' /\ BusyOK'
         /\ call'[p] = c /\ \A q \in Threads \ {p} : call'[q] = call[q]
<1>1. /\ call \in [Threads -> {Resting, Dead} \cup TimedCall \cup CreateCall]
      /\ result \in [Threads -> Outcome] /\ Calls
  BY DEF PosixInv, PosixTypes
<1>2. /\ call' \in [Threads -> {Resting, Dead} \cup TimedCall \cup CreateCall]
      /\ result' \in [Threads -> Outcome]
  BY <1>1
<1>3. /\ call'[p] = c /\ \A q \in Threads \ {p} : call'[q] = call[q]
      /\ result'[p] = r /\ \A q \in Threads \ {p} : result'[q] = result[q]
  BY <1>1
<1>4. ASSUME NEW q \in Threads PROVE TicksAddUp(call'[q]) /\ OutcomeOK(result'[q])
  <2>1. CASE q = p
    BY <1>3, <2>1
  <2>2. CASE q # p
    BY <1>1, <1>3, <2>2 DEF Calls
  <2> QED
    BY <2>1, <2>2
<1>5. Calls'
  BY <1>4 DEF Calls, TicksAddUp, OutcomeOK
<1>6. BusyOK'
  BY <1>3 DEF BusyOK, PosixInv
<1> QED
  BY <1>2, <1>3, <1>5, <1>6

(* A step of one thread that neither enters nor leaves a lock. *)
LEMMA NoLock ==
  ASSUME PosixInv, NEW p \in Threads,
         \A q \in Threads \ {p} : call'[q] = call[q],
         InQueue(call'[p]) <=> InQueue(call[p]),
         call[p].at \notin {"created", "dead"}, call'[p].at # "created",
         UNCHANGED <<mqLock, holds, redone, ptLock>>
  PROVE  QueueLock' /\ CreateLock'
<1>1. \A q \in Threads : InQueue(call'[q]) <=> InQueue(call[q])
  OBVIOUS
<1>2. QueueLock'
  BY <1>1 DEF PosixInv, QueueLock, InQueue
<1>3. CreateLock'
  BY PosixConstants DEF PosixInv, PosixTypes, CreateLock
<1> QED
  BY <1>2, <1>3

(* A call leaves the lock: it is released, or the release is refused. *)
LEMMA Leaves ==
  ASSUME PosixInv, NEW p \in Threads,
         \A q \in Threads \ {p} : call'[q] = call[q], ~InQueue(call'[p]), call'[p].at # "created",
         call[p].at \in {"try", "delay", "held"},
         Unlock(p) \/ (redone /\ holds' = holds \ {p} /\ UNCHANGED mqLock),
         UNCHANGED <<redone, ptLock>>
  PROVE  /\ QueueLock' /\ CreateLock'
         /\ mqLock' \in Threads \cup {Nobody} /\ holds' \in SUBSET Threads
<1>1. mqLock' \in Threads \cup {Nobody} /\ holds' \in SUBSET Threads
  BY DEF PosixInv, PosixTypes, Unlock
<1>2. CreateLock'
  BY PosixConstants DEF PosixInv, PosixTypes, CreateLock
<1>3. \A q \in Threads : q \in holds' <=> InQueue(call'[q])
  <2>1. holds' = holds \ {p}
    BY DEF Unlock
  <2>2. \A q \in Threads \ {p} : InQueue(call'[q]) <=> InQueue(call[q])
    BY DEF InQueue
  <2> QED
    BY <2>1, <2>2 DEF PosixInv, QueueLock
<1>4. ~redone' => holds' = {mqLock'} \ {Nobody}
  <2>1. CASE redone
    BY <2>1
  <2>2. CASE ~redone /\ call[p].op = "sem"
    BY <2>2 DEF PosixInv, QueueLock, InQueue, Unlock
  <2>3. CASE ~redone /\ call[p].op # "sem"
    <3>1. p \in holds /\ mqLock' = Nobody /\ holds' = holds \ {p}
      BY <2>3 DEF PosixInv, QueueLock, InQueue, Unlock
    <3> QED
      BY <2>3, <3>1 DEF PosixInv, QueueLock
  <2> QED
    BY <2>1, <2>2, <2>3
<1> QED
  BY <1>1, <1>2, <1>3, <1>4 DEF QueueLock, InQueue

(* A call returns, with the unlock it has, or EBUSY. *)
LEMMA EndsKeeps ==
  ASSUME PosixInv, NEW p \in Threads, NEW err \in {"ok", "timedout"}, NEW took \in BOOLEAN, NEW n \in Nat,
         call[p] \in TimedCall, call[p].at \in {"try", "delay", "held"}, n <= call[p].asked,
         err = "ok" => took \/ call[p].at = "held" \/ (call[p].asked > 0 /\ n = call[p].asked),
         call[p].at = "held" => call[p].op \in {"open", "close"},
         err = "timedout" => ~took,
         Ends(p, err, took, n), kval' \in [{"sem", "mq"} -> Int], moved' = kval',
         UNCHANGED <<redone, ptLock>>
  PROVE  PosixInv'
<1> DEFINE r(e) == [err |-> e, of |-> call[p].op, took |-> took, waited |-> n, asked |-> call[p].asked]
<1>1. call[p].op \in {"sem", "send", "recv", "open", "close"} /\ call[p].asked \in Nat
  BY DEF TimedCall
<1>2. \A e \in {"ok", "timedout", "busy"} : r(e) \in Outcome
  BY <1>1 DEF Outcome
<1>3. OutcomeOK(r(err)) /\ OutcomeOK(r("busy"))
  BY <1>1 DEF OutcomeOK
<1>4. PICK e \in {err, "busy"} :
        /\ call' = [call EXCEPT ![p] = Resting] /\ result' = [result EXCEPT ![p] = r(e)]
        /\ e = "busy" => redone
        /\ Unlock(p) \/ (redone /\ holds' = holds \ {p} /\ UNCHANGED mqLock)
  BY DEF Ends, Return
<1>5. r(e) \in Outcome /\ OutcomeOK(r(e)) /\ (r(e).err = "busy" /\ r(e).took => redone')
  BY <1>2, <1>3, <1>4
<1>6. TicksAddUp(Resting) /\ ~InQueue(Resting) /\ Resting.at = "idle"
  BY DEF TicksAddUp, InQueue, Resting
<1> HIDE DEF r
<1>7. /\ call' \in [Threads -> {Resting, Dead} \cup TimedCall \cup CreateCall]
      /\ result' \in [Threads -> Outcome] /\ Calls' /\ BusyOK'
      /\ call'[p] = Resting /\ \A q \in Threads \ {p} : call'[q] = call[q]
  BY <1>4, <1>5, <1>6, OneThread
<1>8. /\ QueueLock' /\ CreateLock'
      /\ mqLock' \in Threads \cup {Nobody} /\ holds' \in SUBSET Threads
  BY <1>4, <1>6, <1>7, Leaves
<1> QED
  BY <1>7, <1>8 DEF PosixInv, PosixTypes

(* The loop of the timed calls keeps the invariant. *)
LEMMA LoopKeeps ==
  ASSUME PosixInv, NEW p \in Threads, Try(p) \/ Delayed(p)
  PROVE  PosixInv'
<1> DEFINE c == call[p]
<1>0. call[p].at \in {"try", "delay"}
  BY DEF Try, Delayed
<1>1. c \in TimedCall /\ TicksAddUp(c) /\ result[p] \in Outcome /\ OutcomeOK(result[p])
      /\ (result[p].err = "busy" /\ result[p].took => redone)
  BY <1>0 DEF PosixInv, PosixTypes, Calls, BusyOK, Resting, Dead, CreateCall
<1>2. kval' \in [{"sem", "mq"} -> Int] /\ moved' = kval'
  <2>1. CASE Try(p)
    <3>1. Object(c.op) \in {"sem", "mq"} /\ kval \in [{"sem", "mq"} -> Int] /\ moved = kval
      BY DEF Object, PosixInv, PosixTypes
    <3> QED
      BY <2>1, <3>1 DEF Try, KernelTry
  <2>2. CASE Delayed(p)
    BY <2>2 DEF Delayed, PosixInv, PosixTypes
  <2> QED
    BY <2>1, <2>2
<1>3. UNCHANGED <<redone, ptLock>>
  BY DEF Try, Delayed
<1>5. ASSUME NEW d \in TimedCall, call' = [call EXCEPT ![p] = d], d.op = c.op, d.at \in {"try", "delay"},
             TicksAddUp(d), UNCHANGED <<result, mqLock, holds>>
      PROVE  PosixInv'
  <2>1. result' = [result EXCEPT ![p] = result[p]]
    BY <1>5 DEF PosixInv, PosixTypes
  <2>2. /\ call' \in [Threads -> {Resting, Dead} \cup TimedCall \cup CreateCall]
        /\ result' \in [Threads -> Outcome] /\ Calls' /\ BusyOK'
        /\ call'[p] = d /\ \A q \in Threads \ {p} : call'[q] = call[q]
    BY <1>1, <1>3, <1>5, <2>1, OneThread
  <2>3. QueueLock' /\ CreateLock'
    BY <1>0, <1>3, <1>5, <2>2, NoLock DEF InQueue
  <2> QED
    BY <1>2, <1>3, <1>5, <2>2, <2>3 DEF PosixInv, PosixTypes
<1>6. CASE Try(p)
  <2>0. c.at = "try" /\ c.waited \in Nat /\ c.asked \in Nat /\ c.left \in Nat /\ c.op \in {"sem", "send", "recv"}
        /\ c.left + c.waited = c.asked
    BY <1>1, <1>6 DEF Try, TimedCall, TicksAddUp
  <2> HIDE DEF c
  <2>4. call[p] \in TimedCall /\ call[p].at = "try" /\ call[p].waited \in Nat /\ call[p].waited <= call[p].asked
    BY <1>1, <2>0 DEF c
  <2>1. CASE Ends(p, "ok", TRUE, c.waited)
    <3>1. Ends(p, "ok", TRUE, call[p].waited)
      BY <2>1 DEF c
    <3> QED
      BY <1>2, <1>3, <2>4, <3>1, EndsKeeps
  <2>2. CASE Ends(p, "timedout", FALSE, c.waited)
    <3>1. Ends(p, "timedout", FALSE, call[p].waited)
      BY <2>2 DEF c
    <3> QED
      BY <1>2, <1>3, <2>4, <3>1, EndsKeeps
  <2>3. CASE c.left > 0 /\ call' = [call EXCEPT ![p].at = "delay"] /\ UNCHANGED <<result, mqLock, holds>>
    <3> DEFINE d == [c EXCEPT !.at = "delay"]
    <3>1. call' = [call EXCEPT ![p] = d]
      BY <2>3 DEF c
    <3>2. d \in TimedCall /\ d.op = c.op /\ d.at = "delay" /\ d.left = c.left /\ d.waited = c.waited /\ d.asked = c.asked
      BY <1>1 DEF TimedCall
    <3> HIDE DEF d
    <3>3. TicksAddUp(d)
      BY <2>0, <2>3, <3>2 DEF TicksAddUp
    <3> QED
      BY <1>5, <2>3, <3>1, <3>2, <3>3
  <2>5. \/ Ends(p, "ok", TRUE, c.waited) \/ Ends(p, "timedout", FALSE, c.waited)
        \/ /\ (IF c.op # "sem" /\ "nonblock" \in flags THEN 0 ELSE c.left) > 0
           /\ call' = [call EXCEPT ![p].at = "delay"] /\ UNCHANGED <<result, mqLock, holds>>
    BY <1>6, Zenon DEF Try, c
  <2>6. (IF c.op # "sem" /\ "nonblock" \in flags THEN 0 ELSE c.left) > 0 => c.left > 0
    OBVIOUS
  <2> QED
    BY <2>1, <2>2, <2>3, <2>5, <2>6, Zenon
<1>7. CASE Delayed(p)
  <2>0. c.at = "delay" /\ c.waited \in Nat /\ c.asked \in Nat /\ c.left \in Nat /\ c.op \in {"sem", "send", "recv"}
        /\ c.left + c.waited = c.asked /\ c.left > 0
    BY <1>1, <1>7 DEF Delayed, TimedCall, TicksAddUp
  <2> HIDE DEF c
  <2>1. CASE c.left = 1
    <3>1. Ends(p, "ok", FALSE, c.waited + 1)
      BY <1>7, <2>1 DEF Delayed, c
    <3>2. c.waited + 1 = c.asked /\ c.asked \in Nat /\ c.asked > 0
      BY <2>0, <2>1
    <3>3. /\ call[p] \in TimedCall /\ call[p].at = "delay" /\ call[p].asked \in Nat
          /\ call[p].asked > 0 /\ call[p].asked <= call[p].asked
      BY <1>1, <2>0, <3>2 DEF c
    <3>4. Ends(p, "ok", FALSE, call[p].asked)
      BY <3>1, <3>2, Zenon DEF c
    <3> QED
      BY <1>2, <1>3, <3>3, <3>4, EndsKeeps
  <2>2. CASE c.left # 1
    <3> DEFINE d == [c EXCEPT !.at = "try", !.left = @ - 1, !.waited = @ + 1]
    <3>1. call' = [call EXCEPT ![p] = d] /\ UNCHANGED <<result, mqLock, holds>>
      BY <1>7, <2>2 DEF Delayed, c
    <3>2. c.left - 1 \in Nat /\ c.left - 1 # 0 /\ c.waited + 1 \in Nat
      BY <2>0, <2>2
    <3>3. /\ d \in TimedCall /\ d.op = c.op /\ d.at = "try"
          /\ d.left = c.left - 1 /\ d.waited = c.waited + 1 /\ d.asked = c.asked
      BY <1>1, <3>2 DEF TimedCall
    <3> HIDE DEF d
    <3>4. TicksAddUp(d)
      BY <2>0, <3>2, <3>3 DEF TicksAddUp
    <3> QED
      BY <1>5, <3>1, <3>3, <3>4
  <2> QED
    BY <2>1, <2>2
<1> QED
  BY <1>6, <1>7

(* A call that is over when it has begun, or changes only what the calls   *)
(* below change, keeps the invariant.                                      *)
LEMMA AtOnce ==
  ASSUME PosixInv, NEW p \in Threads, UNCHANGED <<call, result, mqLock, ptLock, holds, redone>>,
         kval' \in [{"sem", "mq"} -> Int], moved' = kval'
  PROVE  PosixInv'
<1>1. PosixTypes'
  BY DEF PosixInv, PosixTypes
<1>2. Calls' /\ BusyOK'
  BY DEF PosixInv, Calls, TicksAddUp, OutcomeOK, BusyOK
<1>3. QueueLock' /\ CreateLock'
  BY DEF PosixInv, QueueLock, CreateLock, InQueue
<1> QED
  BY <1>1, <1>2, <1>3 DEF PosixInv

(* A call begins, and has no lock yet. *)
LEMMA Begins ==
  ASSUME PosixInv, NEW p \in Threads, NEW c \in TimedCall \cup CreateCall,
         call[p] = Resting, call' = [call EXCEPT ![p] = c],
         TicksAddUp(c), ~InQueue(c), c.at # "created",
         UNCHANGED <<kval, moved, ptLock, holds, result>>,
         UNCHANGED <<mqLock, redone>> \/ (mqLock' = Nobody /\ redone' = (redone \/ holds # {}))
  PROVE  PosixInv'
<1>1. /\ result' = [result EXCEPT ![p] = result[p]] /\ result[p] \in Outcome /\ OutcomeOK(result[p])
      /\ redone => redone'
      /\ result[p].err = "busy" /\ result[p].took => redone'
  BY DEF PosixInv, PosixTypes, Calls, BusyOK
<1>2. /\ call' \in [Threads -> {Resting, Dead} \cup TimedCall \cup CreateCall]
      /\ result' \in [Threads -> Outcome] /\ Calls' /\ BusyOK'
      /\ call'[p] = c /\ \A q \in Threads \ {p} : call'[q] = call[q]
  BY <1>1, OneThread
<1>3. Resting.at = "idle" /\ ~InQueue(Resting)
  BY DEF Resting, InQueue
<1>4. CASE UNCHANGED <<mqLock, redone>>
  <2>1. QueueLock' /\ CreateLock'
    BY <1>2, <1>3, <1>4, NoLock
  <2> QED
    BY <1>2, <1>4, <2>1 DEF PosixInv, PosixTypes
<1>5. CASE mqLock' = Nobody /\ redone' = (redone \/ holds # {})
  <2>1. redone' \in BOOLEAN
    BY <1>5
  <2>2. \A q \in Threads : q \in holds' <=> InQueue(call'[q])
    BY <1>2, <1>3 DEF PosixInv, QueueLock
  <2>3. ~redone' => holds' = {mqLock'} \ {Nobody}
    BY <1>5
  <2>4. CreateLock'
    BY <1>2, <1>3, PosixConstants DEF PosixInv, PosixTypes, CreateLock
  <2> QED
    BY <1>2, <1>5, <2>1, <2>2, <2>3, <2>4 DEF PosixInv, PosixTypes, QueueLock, InQueue
<1> QED
  BY <1>4, <1>5

(* Every call of a thread keeps the invariant. *)
LEMMA NewCallKeeps ==
  ASSUME PosixInv, NEW p \in Threads, NewCall(p)
  PROVE  PosixInv'
<1>0. /\ kval \in [{"sem", "mq"} -> Int] /\ moved = kval /\ redone \in BOOLEAN
      /\ call[p] = Resting => [call EXCEPT ![p] = Resting] = call
  BY DEF PosixInv, PosixTypes
<1>1. ASSUME NEW n \in Waits, SemTimedwait(p, n) PROVE PosixInv'
  <2> DEFINE c == [at |-> "try", op |-> "sem", left |-> n, waited |-> 0, asked |-> n]
  <2>1. call' = [call EXCEPT ![p] = c] /\ call[p] = Resting
    BY <1>1 DEF SemTimedwait, Enters
  <2>2. c \in TimedCall /\ TicksAddUp(c) /\ ~InQueue(c) /\ c.at # "created"
    BY PosixConstants DEF TimedCall, TicksAddUp, InQueue
  <2> HIDE DEF c
  <2> QED
    BY <1>1, <2>1, <2>2, Begins DEF SemTimedwait
<1>2. ASSUME NEW n \in Nat, NEW op \in {"send", "recv", "open", "close"}, Enters(p), ToLock(p, op, n),
             UNCHANGED <<kval, moved, ptLock, holds, result>>,
             UNCHANGED <<mqLock, redone>> \/ (mqLock' = Nobody /\ redone' = (redone \/ holds # {}))
      PROVE  PosixInv'
  <2> DEFINE c == [at |-> "lock", op |-> op, left |-> n, waited |-> 0, asked |-> n]
  <2>1. call' = [call EXCEPT ![p] = c] /\ call[p] = Resting
    BY <1>2 DEF ToLock, Enters
  <2>2. c \in TimedCall /\ TicksAddUp(c) /\ ~InQueue(c) /\ c.at # "created"
    BY <1>2 DEF TimedCall, TicksAddUp, InQueue
  <2> HIDE DEF c
  <2> QED
    BY <1>2, <2>1, <2>2, Begins
<1>3. ASSUME NEW v \in 0 .. MaxUnits, SemInit(p, v) PROVE PosixInv'
  <2>1. kval' \in [{"sem", "mq"} -> Int] /\ moved' = kval'
    BY <1>0, <1>3, PosixConstants DEF SemInit
  <2> QED
    BY <1>0, <1>3, <2>1, AtOnce DEF SemInit
<1>4. CASE SemDestroy(p) \/ SemPost(p)
  <2>1. kval' \in [{"sem", "mq"} -> Int] /\ moved' = kval'
    BY <1>0, <1>4 DEF SemDestroy, SemPost
  <2> QED
    BY <1>0, <1>4, <2>1, AtOnce DEF SemDestroy, SemPost
<1>5. CASE MqRefused(p)
  BY <1>0, <1>5, AtOnce DEF MqRefused, Enters, Returned
<1>6. CASE MqClose(p) \/ MqOpen(p) \/ \E n \in Waits : MqTimedsend(p, n) \/ MqTimedreceive(p, n)
  BY <1>2, <1>6, PosixConstants DEF MqClose, MqOpen, MqTimedsend, MqTimedreceive, MqTimed
<1>7. ASSUME NEW size, Attr(p, size) PROVE PosixInv'
  BY <1>0, <1>7, AtOnce DEF Attr
<1>8. CASE PthreadCreate(p)
  <2>1. CASE attr = "enough"
    <3> DEFINE c == [at |-> "create", op |-> "pt"]
    <3>1. call' = [call EXCEPT ![p] = c] /\ call[p] = Resting /\ UNCHANGED result
      BY <1>8, <2>1 DEF PthreadCreate, Enters
    <3>2. c \in CreateCall /\ TicksAddUp(c) /\ ~InQueue(c) /\ c.at # "created"
      BY DEF CreateCall, TicksAddUp, InQueue
    <3> HIDE DEF c
    <3> QED
      BY <1>8, <3>1, <3>2, Begins DEF PthreadCreate
  <2>2. CASE attr # "enough"
    BY <1>0, <1>8, <2>2, AtOnce DEF PthreadCreate, Enters, Returned
  <2> QED
    BY <2>1, <2>2
<1>10. CASE PthreadExit(p)
  <2>1. /\ call[p] = Resting /\ call' = [call EXCEPT ![p] = Dead] /\ result' = [result EXCEPT ![p] = result[p]]
        /\ result[p] \in Outcome /\ OutcomeOK(result[p]) /\ TicksAddUp(Dead)
        /\ redone' = redone /\ (result[p].err = "busy" /\ result[p].took => redone)
    BY <1>10 DEF PthreadExit, Enters, PosixInv, PosixTypes, Calls, BusyOK, TicksAddUp, Dead
  <2>2. /\ call' \in [Threads -> {Resting, Dead} \cup TimedCall \cup CreateCall]
        /\ result' \in [Threads -> Outcome] /\ Calls' /\ BusyOK'
        /\ call'[p] = Dead /\ \A q \in Threads \ {p} : call'[q] = call[q]
    BY <2>1, OneThread
  <2>3. /\ (ptLock = Nobody /\ ptLock' = p) \/ ptLock' = ptLock
        /\ UNCHANGED <<kval, moved, mqLock, holds, redone>>
    BY <1>10 DEF PthreadExit
  <2>4. ~InQueue(Dead) /\ ~InQueue(Resting) /\ Dead.at = "dead"
    BY DEF InQueue, Dead, Resting
  <2>5. \A q \in Threads : InQueue(call'[q]) <=> InQueue(call[q])
    BY <2>1, <2>2, <2>4
  <2>6. QueueLock'
    BY <2>3, <2>5 DEF PosixInv, QueueLock, InQueue
  <2>7. CreateLock'
    BY <2>1, <2>2, <2>3, <2>4, PosixConstants DEF PosixInv, PosixTypes, CreateLock
  <2> QED
    BY <2>2, <2>3, <2>6, <2>7 DEF PosixInv, PosixTypes
<1> QED
  BY <1>1, <1>3, <1>4, <1>5, <1>6, <1>7, <1>8, <1>10
     DEF NewCall, AttrInit, AttrDestroy, AttrSetstacksize

(* Every step inside a call keeps the invariant. *)
LEMMA InCallKeeps ==
  ASSUME PosixInv, NEW p \in Threads, InCall(p)
  PROVE  PosixInv'
<1>0. call[p] \in {Resting, Dead} \cup TimedCall \cup CreateCall
      /\ result[p] \in Outcome /\ OutcomeOK(result[p]) /\ TicksAddUp(call[p])
      /\ [result EXCEPT ![p] = result[p]] = result
      /\ (result[p].err = "busy" /\ result[p].took => redone)
  BY DEF PosixInv, PosixTypes, Calls, BusyOK
<1>1. CASE Try(p) \/ Delayed(p)
  BY <1>1, LoopKeeps
<1>2. CASE MqLock(p)
  <2>1. /\ call[p].at = "lock" /\ call[p] \in TimedCall /\ call[p].waited = 0 /\ call[p].op # "sem"
        /\ UNCHANGED <<kval, moved, ptLock, redone>>
    BY <1>0, <1>2 DEF MqLock, Resting, Dead, CreateCall, TicksAddUp
  <2>2. CASE /\ mqLock = Nobody /\ mqLock' = p /\ holds' = holds \cup {p}
             /\ call' = [call EXCEPT ![p].at = Inside(call[p].op)] /\ UNCHANGED result
    <3> DEFINE c == [call[p] EXCEPT !.at = Inside(call[p].op)]
    <3>1. c \in TimedCall /\ TicksAddUp(c) /\ InQueue(c) /\ c.at \in {"try", "held"}
      BY <1>0, <2>1 DEF TimedCall, TicksAddUp, InQueue, Inside
    <3>2. call' = [call EXCEPT ![p] = c] /\ result' = [result EXCEPT ![p] = result[p]]
      BY <1>0, <2>2
    <3> HIDE DEF c
    <3>3. /\ call' \in [Threads -> {Resting, Dead} \cup TimedCall \cup CreateCall]
          /\ result' \in [Threads -> Outcome] /\ Calls' /\ BusyOK'
          /\ call'[p] = c /\ \A q \in Threads \ {p} : call'[q] = call[q]
      BY <1>0, <2>1, <3>1, <3>2, OneThread
    <3>4. \A q \in Threads : q \in holds' <=> InQueue(call'[q])
      BY <2>2, <3>1, <3>3 DEF PosixInv, QueueLock
    <3>5. ~redone' => holds' = {mqLock'} \ {Nobody}
      BY <2>1, <2>2, PosixConstants DEF PosixInv, QueueLock
    <3>6. CreateLock'
      BY <2>1, <3>1, <3>3, PosixConstants DEF PosixInv, PosixTypes, CreateLock
    <3> QED
      BY <2>1, <2>2, <3>3, <3>4, <3>5, <3>6 DEF PosixInv, PosixTypes, QueueLock, InQueue
  <2>3. CASE Return(p, "busy", call[p].op, FALSE, 0, call[p].asked) /\ UNCHANGED <<mqLock, holds>>
    <3> DEFINE r == [err |-> "busy", of |-> call[p].op, took |-> FALSE, waited |-> 0, asked |-> call[p].asked]
    <3>1. r \in Outcome /\ OutcomeOK(r) /\ ~r.took
      BY <2>1 DEF TimedCall, Outcome, OutcomeOK
    <3>2. TicksAddUp(Resting) /\ ~InQueue(Resting) /\ Resting.at = "idle"
      BY DEF TicksAddUp, InQueue, Resting
    <3>3. call' = [call EXCEPT ![p] = Resting] /\ result' = [result EXCEPT ![p] = r]
      BY <2>3 DEF Return
    <3> HIDE DEF r
    <3>4. /\ call' \in [Threads -> {Resting, Dead} \cup TimedCall \cup CreateCall]
          /\ result' \in [Threads -> Outcome] /\ Calls' /\ BusyOK'
          /\ call'[p] = Resting /\ \A q \in Threads \ {p} : call'[q] = call[q]
      BY <2>1, <3>1, <3>2, <3>3, OneThread
    <3>5. ~InQueue(call[p])
      BY <2>1 DEF InQueue
    <3>6. QueueLock' /\ CreateLock'
      BY <2>1, <2>3, <3>2, <3>4, <3>5, NoLock
    <3> QED
      BY <2>1, <2>3, <3>4, <3>6 DEF PosixInv, PosixTypes
  <2> QED
    BY <1>2, <2>2, <2>3 DEF MqLock, Return
<1>3. CASE MqOpened(p)
  <2>3. /\ call[p].at = "held" /\ call[p].op = "open" /\ Ends(p, "ok", FALSE, 0)
        /\ UNCHANGED <<kval, moved, ptLock, redone>>
    BY <1>3, Zenon DEF MqOpened
  <2>4. call[p] \in TimedCall
    BY <1>0, <2>3 DEF Resting, Dead, CreateCall
  <2>1. /\ call[p] \in TimedCall /\ call[p].at = "held" /\ call[p].op = "open" /\ Ends(p, "ok", FALSE, 0)
        /\ UNCHANGED <<kval, moved, ptLock, redone>>
    BY <2>3, <2>4, Zenon
  <2>2. 0 <= call[p].asked /\ kval' \in [{"sem", "mq"} -> Int] /\ moved' = kval'
    BY <2>1 DEF TimedCall, PosixInv, PosixTypes
  <2> QED
    BY <2>1, <2>2, EndsKeeps
<1>6. CASE MqClosed(p)
  <2>1. /\ call[p] \in TimedCall /\ call[p].at = "held" /\ call[p].op = "close"
        /\ UNCHANGED <<kval, moved, ptLock, redone>>
    BY <1>0, <1>6 DEF MqClosed, Resting, Dead, CreateCall
  <2>2. CASE call' = [call EXCEPT ![p].at = "deinit"] /\ Unlock(p) /\ UNCHANGED result
    <3> DEFINE c == [call[p] EXCEPT !.at = "deinit"]
    <3>1. c \in TimedCall /\ TicksAddUp(c) /\ ~InQueue(c) /\ c.at = "deinit"
      BY <1>0, <2>1 DEF TimedCall, TicksAddUp, InQueue
    <3>2. call' = [call EXCEPT ![p] = c] /\ result' = [result EXCEPT ![p] = result[p]]
      BY <1>0, <2>2
    <3> HIDE DEF c
    <3>3. /\ call' \in [Threads -> {Resting, Dead} \cup TimedCall \cup CreateCall]
          /\ result' \in [Threads -> Outcome] /\ Calls' /\ BusyOK'
          /\ call'[p] = c /\ \A q \in Threads \ {p} : call'[q] = call[q]
      BY <1>0, <2>1, <3>1, <3>2, OneThread
    <3>4. /\ QueueLock' /\ CreateLock'
          /\ mqLock' \in Threads \cup {Nobody} /\ holds' \in SUBSET Threads
      BY <2>1, <2>2, <3>1, <3>3, Leaves
    <3> QED
      BY <2>1, <3>3, <3>4 DEF PosixInv, PosixTypes
  <2>3. CASE redone /\ Return(p, "busy", "close", FALSE, 0, 0) /\ holds' = holds \ {p} /\ UNCHANGED mqLock
    <3> DEFINE r == [err |-> "busy", of |-> "close", took |-> FALSE, waited |-> 0, asked |-> 0]
    <3>1. r \in Outcome /\ OutcomeOK(r) /\ ~r.took
      BY DEF Outcome, OutcomeOK
    <3>2. TicksAddUp(Resting) /\ ~InQueue(Resting) /\ Resting.at = "idle"
      BY DEF TicksAddUp, InQueue, Resting
    <3>3. call' = [call EXCEPT ![p] = Resting] /\ result' = [result EXCEPT ![p] = r]
      BY <2>3 DEF Return
    <3> HIDE DEF r
    <3>4. /\ call' \in [Threads -> {Resting, Dead} \cup TimedCall \cup CreateCall]
          /\ result' \in [Threads -> Outcome] /\ Calls' /\ BusyOK'
          /\ call'[p] = Resting /\ \A q \in Threads \ {p} : call'[q] = call[q]
      BY <2>1, <3>1, <3>2, <3>3, OneThread
    <3>5. /\ QueueLock' /\ CreateLock'
          /\ mqLock' \in Threads \cup {Nobody} /\ holds' \in SUBSET Threads
      BY <2>1, <2>3, <3>2, <3>4, Leaves
    <3> QED
      BY <2>1, <3>4, <3>5 DEF PosixInv, PosixTypes
  <2> QED
    BY <1>6, <2>2, <2>3 DEF MqClosed
<1>7. CASE MqLockDeinit(p)
  <2>1. /\ call[p].at = "deinit" /\ call' = [call EXCEPT ![p] = Resting]
        /\ redone' = (redone \/ holds # {}) /\ mqLock' \in {mqLock, Nobody}
        /\ UNCHANGED <<kval, moved, ptLock, holds, result>>
    BY <1>7 DEF MqLockDeinit, Returned
  <2>2. TicksAddUp(Resting) /\ ~InQueue(Resting) /\ Resting.at = "idle" /\ ~InQueue(call[p])
    BY <2>1 DEF TicksAddUp, InQueue, Resting
  <2>3. /\ call' \in [Threads -> {Resting, Dead} \cup TimedCall \cup CreateCall]
        /\ result' \in [Threads -> Outcome] /\ Calls' /\ BusyOK'
        /\ call'[p] = Resting /\ \A q \in Threads \ {p} : call'[q] = call[q]
    BY <1>0, <2>1, <2>2, OneThread
  <2>4. \A q \in Threads : q \in holds' <=> InQueue(call'[q])
    BY <2>1, <2>2, <2>3 DEF PosixInv, QueueLock
  <2>5. ~redone' => holds' = {mqLock'} \ {Nobody}
    BY <2>1 DEF PosixInv, QueueLock
  <2>6. CreateLock'
    BY <2>1, <2>2, <2>3, PosixConstants DEF PosixInv, PosixTypes, CreateLock
  <2>7. redone' \in BOOLEAN /\ mqLock' \in Threads \cup {Nobody}
    BY <2>1 DEF PosixInv, PosixTypes
  <2> QED
    BY <2>1, <2>3, <2>4, <2>5, <2>6, <2>7 DEF PosixInv, PosixTypes, QueueLock, InQueue
<1>8. CASE PthreadCreateLock(p) /\ Returned(p) /\ UNCHANGED ptLock
  <2>1. /\ call[p].at = "create" /\ call' = [call EXCEPT ![p] = Resting]
        /\ UNCHANGED <<kval, moved, mqLock, ptLock, holds, redone, result>>
    BY <1>8 DEF PthreadCreateLock, Returned
  <2>2. TicksAddUp(Resting) /\ ~InQueue(Resting) /\ Resting.at = "idle" /\ ~InQueue(call[p])
    BY <2>1 DEF TicksAddUp, InQueue, Resting
  <2>3. /\ call' \in [Threads -> {Resting, Dead} \cup TimedCall \cup CreateCall]
        /\ result' \in [Threads -> Outcome] /\ Calls' /\ BusyOK'
        /\ call'[p] = Resting /\ \A q \in Threads \ {p} : call'[q] = call[q]
    BY <1>0, <2>1, <2>2, OneThread
  <2>4. QueueLock' /\ CreateLock'
    BY <2>1, <2>2, <2>3, NoLock
  <2> QED
    BY <2>1, <2>3, <2>4 DEF PosixInv, PosixTypes
<1>4. CASE PthreadCreateLock(p) /\ ~(Returned(p) /\ UNCHANGED ptLock)
  <2> DEFINE c == [call[p] EXCEPT !.at = "created"]
  <2>1. /\ call[p].at = "create" /\ call[p] \in CreateCall /\ ptLock = Nobody /\ ptLock' = p
        /\ call' = [call EXCEPT ![p] = c] /\ UNCHANGED <<kval, moved, mqLock, holds, redone, result>>
    BY <1>0, <1>4 DEF PthreadCreateLock, Resting, Dead, TimedCall
  <2>2. c \in CreateCall /\ TicksAddUp(c) /\ ~InQueue(c) /\ c.at = "created" /\ ~InQueue(call[p])
    BY <2>1 DEF CreateCall, TicksAddUp, InQueue
  <2> HIDE DEF c
  <2>3. /\ call' \in [Threads -> {Resting, Dead} \cup TimedCall \cup CreateCall]
        /\ result' \in [Threads -> Outcome] /\ Calls' /\ BusyOK'
        /\ call'[p] = c /\ \A q \in Threads \ {p} : call'[q] = call[q]
    BY <1>0, <2>1, <2>2, OneThread
  <2>4. \A q \in Threads : InQueue(call'[q]) <=> InQueue(call[q])
    BY <2>2, <2>3
  <2>5. QueueLock'
    BY <2>1, <2>4 DEF PosixInv, QueueLock, InQueue
  <2>6. CreateLock'
    BY <2>1, <2>2, <2>3, PosixConstants DEF PosixInv, CreateLock
  <2> QED
    BY <2>1, <2>3, <2>5, <2>6 DEF PosixInv, PosixTypes
<1>5. CASE PthreadCreated(p)
  <2>1. /\ call[p].at = "created" /\ ptLock' = Nobody /\ UNCHANGED <<kval, moved, mqLock, holds, redone, result>>
        /\ call' = [call EXCEPT ![p] = Resting]
    BY <1>5 DEF PthreadCreated, Returned
  <2>2. TicksAddUp(Resting) /\ ~InQueue(Resting) /\ Resting.at = "idle" /\ ~InQueue(call[p])
    BY <2>1 DEF TicksAddUp, InQueue, Resting
  <2>3. /\ call' \in [Threads -> {Resting, Dead} \cup TimedCall \cup CreateCall]
        /\ result' \in [Threads -> Outcome] /\ Calls' /\ BusyOK'
        /\ call'[p] = Resting /\ \A q \in Threads \ {p} : call'[q] = call[q]
    BY <1>0, <2>1, <2>2, OneThread
  <2>4. \A q \in Threads : InQueue(call'[q]) <=> InQueue(call[q])
    BY <2>2, <2>3
  <2>5. QueueLock'
    BY <2>1, <2>4 DEF PosixInv, QueueLock, InQueue
  <2>6. CreateLock'
    BY <2>1, <2>2, <2>3 DEF PosixInv, CreateLock
  <2> QED
    BY <2>1, <2>3, <2>5, <2>6 DEF PosixInv, PosixTypes
<1> QED
  BY <1>1, <1>2, <1>3, <1>4, <1>5, <1>6, <1>7, <1>8 DEF InCall

(* For every number of threads, units and ticks: the kernel holds exactly  *)
(* what the calls put in less what they took; a success with time left, a  *)
(* timeout and an EBUSY are what PosixSafe says, and no call sleeps longer *)
(* than asked; at most one thread is inside g_mq_mutex until it is         *)
(* initialised or destroyed while held; and until a thread exits whoever   *)
(* has g_pthread_mutex is creating a thread.  What a timed call answers    *)
(* when its time is over is not in it: there the code answers success with *)
(* nothing done, as SuccessLocked shows of sem_timedwait.                  *)
THEOREM PosixCorrect == PosixSpec => []PosixSafe
<1>1. ASSUME PosixInv, [PosixNext]_pvars PROVE PosixInv'
  <2>1. CASE UNCHANGED pvars
    BY <1>1, <2>1 DEF pvars, PosixInv, PosixTypes, Calls, BusyOK, QueueLock, CreateLock, TicksAddUp, OutcomeOK, InQueue
  <2> QED
    BY <1>1, <2>1, InCallKeeps, NewCallKeeps DEF PosixNext
<1>2. PosixInv => PosixSafe
  <2> SUFFICES ASSUME PosixInv PROVE PosixSafe
    OBVIOUS
  <2>1. ~redone => Cardinality(holds) <= 1
    <3>1. ~redone => holds = {} \/ holds = {mqLock}
      BY DEF PosixInv, QueueLock
    <3>2. Cardinality({}) = 0 /\ Cardinality({mqLock}) = 1
      BY FS_EmptySet, FS_Singleton
    <3> QED
      BY <3>1, <3>2
  <2>2. ptLock # Nobody /\ (\A p \in Threads : call[p].at # "dead") => call[ptLock].at = "created"
    BY DEF PosixInv, PosixTypes, CreateLock
  <2> QED
    BY <2>1, <2>2 DEF PosixInv, Calls, OutcomeOK, BusyOK, PosixSafe
<1> QED
  BY PosixInit, <1>1, <1>2, PTL DEF PosixSpec

-----------------------------------------------------------------------------
(* The semaphore, the mutex and the wait of Helios. *)
SyncTypes ==
  /\ sstatus \in [STasks -> {"ready", "wait", "pause"}]
  /\ halt = "no" => swait \in Seq(STasks)
  /\ scurr \in STasks \cup {NoTask}
  /\ depth \in [STasks -> Nat]
  /\ mutex \in Int

(* Whoever was told it has the mutex has it, and is alone. *)
MutexOwned ==
  /\ \A t \in STasks : depth[t] > 0 => mobj = 0 /\ lockTask = t /\ mutex = 1 - depth[t]
  /\ mobj = 0 /\ (\A t \in STasks : depth[t] = 0) => mutex = 1

(* While calls return, each task is on the list once, no task has the status *)
(* wait, and the list is of the tasks that are not ready.                    *)
ListedOnce == halt = "no" => \A i, j \in 1 .. Len(swait) : swait[i] = swait[j] => i = j
GoesOn ==
  halt = "no" => /\ \A t \in STasks : sstatus[t] # "wait"
                 /\ \A t \in STasks : sstatus[t] # "ready" <=> \E i \in 1 .. Len(swait) : swait[i] = t

SyncInv == SyncTypes /\ (~stray => MutexOwned) /\ ListedOnce /\ GoesOn

(* The pass over a list in which no task has the status wait: it ends only *)
(* when the list is empty, and changes neither the list nor a status.      *)
LEMMA PassSpins ==
  ASSUME NEW w \in Seq(STasks), NEW status \in [STasks -> {"ready", "wait", "pause"}],
         NEW res, NEW ticks,
         \A i \in 1 .. Len(w) : status[w[i]] # "wait",
         Adjust(w, status, res, ticks)
  PROVE  (halt' = "no" <=> w = <<>>) /\ swait' = w /\ sstatus' = status
<1> DEFINE free == w # <<>> /\ Available(res[w[1]])
           stops == {i \in DOMAIN w : status[w[i]] # "wait" \/ free \/ ticks[w[i]] = 1}
           least == CHOOSE i \in stops : \A j \in stops : i <= j
           at == IF stops = {} THEN Len(w) + 1 ELSE least
           spins == stops # {} /\ status[w[at]] # "wait"
           woken == IF stops # {} /\ ~spins THEN {w[at]} ELSE {}
<1>1. DOMAIN w = 1 .. Len(w)
  OBVIOUS
<1>2. stops = 1 .. Len(w)
  BY <1>1
<1>3. /\ halt' = IF spins THEN "list" ELSE "no"
      /\ sstatus' = [t \in STasks |-> IF t \in woken THEN "ready" ELSE status[t]]
      /\ swait' = IF woken = {} THEN w ELSE RemoveAt(w, at)
  BY Zenon DEF Adjust
<1>4. stops # {} <=> w # <<>>
  BY <1>2
<1>5. stops # {} => least \in stops
  <2> HIDE DEF stops
  <2> SUFFICES ASSUME stops # {} PROVE least \in stops
    OBVIOUS
  <2>1. 1 \in stops /\ \A j \in stops : 1 <= j
    BY <1>2
  <2> QED
    BY <2>1, Zenon
<1>6. stops # {} => spins
  <2> HIDE DEF stops, least
  <2> SUFFICES ASSUME stops # {} PROVE status[w[least]] # "wait"
    OBVIOUS
  <2> QED
    BY <1>2, <1>5
<1>7. woken = {}
  <2> HIDE DEF spins, stops, at
  <2> QED
    BY <1>6
<1>8. spins <=> stops # {}
  <2> HIDE DEF stops, at
  <2> QED
    BY <1>6, Zenon DEF spins
<1>9. halt' = "no" <=> w = <<>>
  <2> HIDE DEF spins, stops
  <2> QED
    BY <1>3, <1>4, <1>8
<1>10. swait' = w
  <2> HIDE DEF woken, at
  <2> QED
    BY <1>3, <1>7, Zenon
<1>11. sstatus' = status
  <2> HIDE DEF woken
  <2> QED
    BY <1>3, <1>7
<1> QED
  BY <1>9, <1>10, <1>11

(* The kernel starts with an empty list. *)
LEMMA SyncStart == SyncInit => SyncInv
<1> SUFFICES ASSUME SyncInit PROVE SyncInv
  OBVIOUS
<1>1. Len(swait) = 0 /\ \A t \in STasks : sstatus[t] = "ready"
  BY DEF SyncInit
<1>2. SyncTypes
  BY DEF SyncInit, SyncTypes
<1>3. MutexOwned
  BY DEF SyncInit, MutexOwned, NoObject
<1>4. ListedOnce /\ GoesOn
  BY <1>1 DEF ListedOnce, GoesOn
<1> QED
  BY <1>2, <1>3, <1>4 DEF SyncInv

(* A step that leaves the mutex alone leaves its owner alone. *)
LEMMA MutexKept ==
  (~stray => MutexOwned) /\ UNCHANGED mutexVars => (~stray => MutexOwned)'
BY DEF MutexOwned, mutexVars

(* A step that leaves the scheduler's state alone leaves the list alone. *)
LEMMA ListKept == ListedOnce /\ GoesOn /\ UNCHANGED schedVars => ListedOnce' /\ GoesOn'
BY DEF ListedOnce, GoesOn, schedVars

(* A step after which no call returns says nothing of the list. *)
LEMMA Halted == halt' # "no" => ListedOnce' /\ GoesOn'
BY DEF ListedOnce, GoesOn

(* _helios_scheduler_despatch of a kernel that goes on, for the list that is *)
(* there or for one with the caller at its end.                              *)
LEMMA DespatchKeeps ==
  ASSUME SyncInv, Go, UNCHANGED mutexVars, NEW w \in Seq(STasks), NEW status, NEW res, NEW ticks,
         DespatchTask(w, status, res, ticks),
         [status EXCEPT ![scurr] = "ready"] = [sstatus EXCEPT ![scurr] = "ready"],
         w = <<>> => swait = <<>>
  PROVE  SyncInv'
<1> USE DEF SyncInv, SyncTypes
<1> DEFINE now == [sstatus EXCEPT ![scurr] = "ready"]
<1>1. scurr \in STasks /\ halt = "no"
  BY DEF Go
<1>2. now \in [STasks -> {"ready", "wait", "pause"}] /\ \A t \in STasks : now[t] # "wait"
  BY <1>1 DEF GoesOn
<1>3. Adjust(w, now, res, ticks) /\ scurr' = NoTask
  BY DEF DespatchTask
<1>4. \A i \in 1 .. Len(w) : w[i] \in STasks
  OBVIOUS
<1> HIDE DEF now
<1>5. \A i \in 1 .. Len(w) : now[w[i]] # "wait"
  BY <1>2, <1>4
<1>6. (halt' = "no" <=> w = <<>>) /\ swait' = w /\ sstatus' = now
  BY <1>2, <1>3, <1>5, PassSpins
<1>7. SyncTypes'
  BY <1>2, <1>3, <1>6 DEF mutexVars
<1>8. CASE halt' # "no"
  BY <1>7, <1>8, MutexKept, Halted
<1>9. CASE halt' = "no"
  <2>1. w = <<>> /\ Len(w) = 0 /\ Len(swait) = 0
    BY <1>6, <1>9
  <2>2. \A t \in STasks : sstatus[t] = "ready"
    BY <1>1, <2>1 DEF GoesOn
  <2>3. \A t \in STasks : now[t] = "ready"
    BY <1>1, <2>2 DEF now
  <2>4. ListedOnce' /\ GoesOn'
    BY <1>6, <2>1, <2>3 DEF ListedOnce, GoesOn
  <2> QED
    BY <1>7, <2>4, MutexKept
<1> QED
  BY <1>8, <1>9

(* helios_task_wait. *)
LEMMA WaitKeeps ==
  ASSUME SyncInv, NEW r, NEW n, Go, WaitOn(r, n), UNCHANGED mutexVars
  PROVE  SyncInv'
<1> DEFINE w == Append(swait, scurr)
<1>1. scurr \in STasks /\ swait \in Seq(STasks) /\ sstatus \in [STasks -> {"ready", "wait", "pause"}]
  BY DEF Go, SyncInv, SyncTypes
<1>2. w \in Seq(STasks) /\ w # <<>>
  BY <1>1
<1>3. [[sstatus EXCEPT ![scurr] = "wait"] EXCEPT ![scurr] = "ready"] = [sstatus EXCEPT ![scurr] = "ready"]
  BY <1>1
<1>4. DespatchTask(w, [sstatus EXCEPT ![scurr] = "wait"], [sres EXCEPT ![scurr] = r],
                   [sticks EXCEPT ![scurr] = n])
  BY DEF WaitOn
<1> HIDE DEF w
<1> QED
  BY <1>2, <1>3, <1>4, DespatchKeeps

(* helios_pause_task. *)
LEMMA PauseKeeps ==
  ASSUME SyncInv, NEW t \in STasks, TaskPause(t)
  PROVE  SyncInv'
<1> USE DEF SyncInv, SyncTypes
<1> DEFINE w == Append(swait, t)
<1>1. scurr \in STasks /\ halt = "no" /\ swait \in Seq(STasks) /\ sstatus[t] # "pause"
  BY DEF Go, TaskPause
<1>2. /\ w \in Seq(STasks) /\ Len(w) = Len(swait) + 1
      /\ w[Len(swait) + 1] = t /\ \A i \in 1 .. Len(swait) : w[i] = swait[i]
  BY <1>1
<1>3. /\ swait' = w /\ sstatus' = [sstatus EXCEPT ![t] = "pause"]
      /\ scurr' = scurr /\ halt' = halt /\ UNCHANGED mutexVars
  BY DEF TaskPause
<1> HIDE DEF w
<1>4. \A u \in STasks : sstatus[u] # "ready" <=> \E i \in 1 .. Len(swait) : swait[i] = u
  BY <1>1 DEF GoesOn
<1>5. sstatus[t] = "ready"
  BY <1>1 DEF GoesOn
<1>6. SyncTypes'
  BY <1>2, <1>3 DEF mutexVars
<1>7. ListedOnce'
  <2>1. \A i \in 1 .. Len(swait) : swait[i] # t
    BY <1>4, <1>5
  <2>2. \A i, j \in 1 .. Len(swait) : swait[i] = swait[j] => i = j
    BY <1>1 DEF ListedOnce
  <2>3. \A i, j \in 1 .. Len(w) : w[i] = w[j] => i = j
    BY <1>2, <2>1, <2>2, SMTT(30)
  <2> QED
    BY <1>3, <2>3, Zenon DEF ListedOnce
<1>8. GoesOn'
  <2>1. \A u \in STasks : sstatus'[u] # "wait"
    BY <1>1, <1>3 DEF GoesOn
  <2>2. ASSUME NEW u \in STasks
        PROVE  sstatus'[u] # "ready" <=> \E i \in 1 .. Len(w) : w[i] = u
    <3>1. sstatus'[u] # "ready" <=> u = t \/ sstatus[u] # "ready"
      BY <1>3
    <3>2. (\E i \in 1 .. Len(w) : w[i] = u) <=> u = t \/ \E i \in 1 .. Len(swait) : swait[i] = u
      <4>1. \A i \in 1 .. Len(w) : w[i] = u => u = t \/ (i \in 1 .. Len(swait) /\ swait[i] = u)
        BY <1>2
      <4>2. \A i \in 1 .. Len(swait) : i \in 1 .. Len(w) /\ w[i] = swait[i]
        BY <1>2
      <4>3. Len(swait) + 1 \in 1 .. Len(w) /\ w[Len(swait) + 1] = t
        BY <1>2
      <4> QED
        BY <4>1, <4>2, <4>3, Zenon
    <3> QED
      BY <1>4, <3>1, <3>2, Zenon
  <2> QED
    BY <1>3, <2>1, <2>2, Zenon DEF GoesOn
<1> QED
  BY <1>3, <1>6, <1>7, <1>8, MutexKept

(* helios_pause_all_task. *)
LEMMA PauseEveryKeeps == ASSUME SyncInv, PauseEvery PROVE SyncInv'
<1> USE DEF SyncInv, SyncTypes
<1>1. PICK S \in SUBSET {t \in STasks \ {scurr} : sstatus[t] # "pause"} :
        /\ swait' = swait \o SetToSeq(S)
        /\ sstatus' = [t \in STasks |-> IF t \in S THEN "pause" ELSE sstatus[t]]
  BY DEF PauseEvery
<1>2. halt' = "self" /\ scurr' = scurr /\ UNCHANGED mutexVars
  BY DEF PauseEvery
<1>3. SyncTypes'
  BY <1>1, <1>2 DEF mutexVars
<1> QED
  BY <1>2, <1>3, MutexKept, Halted

(* helios_resume_all_task. *)
LEMMA ResumeKeeps == ASSUME SyncInv, ResumeEvery PROVE SyncInv'
<1> USE DEF SyncInv, SyncTypes
<1>1. halt = "no"
  BY DEF Go, ResumeEvery
<1>2. /\ swait' = <<>> /\ scurr' = scurr /\ halt' = halt /\ UNCHANGED mutexVars
      /\ sstatus' = [t \in STasks |-> IF t \in ToSet(swait) THEN "ready" ELSE sstatus[t]]
  BY DEF ResumeEvery
<1>3. \A u \in STasks : u \in ToSet(swait) <=> \E i \in 1 .. Len(swait) : swait[i] = u
  <2>1. DOMAIN swait = 1 .. Len(swait)
    BY <1>1
  <2> QED
    BY <2>1, Zenon DEF ToSet
<1>4. \A u \in STasks : sstatus[u] # "ready" <=> \E i \in 1 .. Len(swait) : swait[i] = u
  BY <1>1 DEF GoesOn
<1>5. \A u \in STasks : sstatus'[u] = "ready"
  <2>1. \A u \in STasks : u \notin ToSet(swait) => sstatus[u] = "ready"
    BY <1>3, <1>4, Zenon
  <2> QED
    BY <1>2, <2>1
<1>6. SyncTypes'
  BY <1>2 DEF mutexVars
<1>7. ListedOnce'
  BY <1>2 DEF ListedOnce
<1>8. GoesOn'
  BY <1>1, <1>2, <1>5 DEF GoesOn
<1> QED
  BY <1>2, <1>6, <1>7, <1>8, MutexKept

(* The lock that helios_mutex_lock gives to a free mutex or to its owner. *)
LEMMA TakeKeeps ==
  ASSUME SyncTypes, MutexOwned, mobj = 0, scurr \in STasks, TakeLock, Taken => lockTask = scurr
  PROVE  MutexOwned'
<1> USE DEF SyncTypes
<1>1. \A t \in STasks : t # scurr => depth[t] = 0
  BY HeliosSyncConstants DEF MutexOwned, Taken
<1>2. mutex = 1 - depth[scurr]
  BY <1>1 DEF MutexOwned
<1>3. /\ lockTask' = scurr /\ mutex' = mutex - 1 /\ mobj' = mobj
      /\ depth'[scurr] = depth[scurr] + 1 /\ \A t \in STasks : t # scurr => depth'[t] = 0
  BY <1>1 DEF TakeLock
<1>4. depth'[scurr] > 0
  BY <1>3
<1> QED
  BY <1>2, <1>3, <1>4 DEF MutexOwned

(* helios_mutex_unlock by the task that lock_task names. *)
LEMMA UnlockKeeps ==
  ASSUME SyncTypes, ~stray => MutexOwned, mobj = 0, scurr \in STasks, lockTask = scurr,
         mutex' = mutex + 1, ToldUnlocked,
         lockTask' = IF mutex + 1 = 1 THEN NoTask ELSE lockTask
  PROVE  (~stray => MutexOwned)'
<1> USE DEF SyncTypes
<1> SUFFICES ASSUME ~stray' PROVE MutexOwned'
  OBVIOUS
<1>1. ~stray /\ depth[scurr] # 0
  BY DEF ToldUnlocked
<1>2. MutexOwned
  BY <1>1
<1>3. depth[scurr] > 0 /\ mutex = 1 - depth[scurr]
  BY <1>1, <1>2 DEF MutexOwned
<1>4. \A u \in STasks : u # scurr => depth[u] = 0
  BY <1>2 DEF MutexOwned
<1>5. /\ depth'[scurr] = depth[scurr] - 1 /\ mobj' = mobj
      /\ \A u \in STasks : u # scurr => depth'[u] = 0
  BY <1>1, <1>4 DEF ToldUnlocked
<1> QED
  BY <1>3, <1>5 DEF MutexOwned

(* Every step keeps the invariant. *)
LEMMA SyncStepInv == SyncInv /\ [SyncNext]_syncVars => SyncInv'
<1> SUFFICES ASSUME SyncInv, [SyncNext]_syncVars PROVE SyncInv'
  OBVIOUS
<1> USE DEF SyncInv, SyncTypes
<1>1. CASE Switch
  <2>1. UNCHANGED <<sstatus, swait, halt, mutexVars>> /\ scurr' \in STasks
    BY <1>1 DEF Switch
  <2>2. SyncTypes' /\ ListedOnce' /\ GoesOn'
    BY <2>1 DEF ListedOnce, GoesOn, mutexVars
  <2> QED
    BY <2>1, <2>2, MutexKept
<1>2. CASE TaskYield
  <2>1. Go /\ DespatchTask(swait, sstatus, sres, sticks) /\ UNCHANGED mutexVars
    BY <1>2 DEF TaskYield
  <2>2. swait \in Seq(STasks)
    BY <2>1 DEF Go
  <2> QED
    BY <2>1, <2>2, DespatchKeeps
<1>3. CASE ResumeEvery
  BY <1>3, ResumeKeeps
<1>4. ASSUME NEW t \in STasks, TaskPause(t) PROVE SyncInv'
  BY <1>4, PauseKeeps
<1>5. CASE UNCHANGED <<schedVars, mutexVars>>
  <2>1. SyncTypes'
    BY <1>5 DEF schedVars, mutexVars
  <2> QED
    BY <1>5, <2>1, MutexKept, ListKept
<1>6. ASSUME NEW n \in 0 .. MaxTicks, SemTake(n) PROVE SyncInv'
  <2>1. CASE UNCHANGED schedVars
    BY <1>5, <1>6, <2>1 DEF SemTake
  <2>2. CASE WaitOn("sem", n)
    BY <1>6, <2>2, WaitKeeps DEF SemTake
  <2> QED
    BY <1>6, <2>1, <2>2, Zenon DEF SemTake
<1>7. ASSUME NEW n \in 0 .. MaxTicks, MutexLock(n) PROVE SyncInv'
  <2>1. scurr \in STasks /\ Go /\ mobj = 0
    BY <1>7 DEF MutexLock, Go
  <2>2. CASE UNCHANGED <<mutexVars, schedVars>>
    BY <1>5, <2>2
  <2>3. CASE WaitOn("mutex", n) /\ UNCHANGED mutexVars
    BY <2>1, <2>3, WaitKeeps
  <2>4. CASE (Taken => n > 0 /\ lockTask = scurr) /\ TakeLock /\ UNCHANGED schedVars
    <3>1. (~stray => MutexOwned)'
      BY <2>1, <2>4, TakeKeeps DEF TakeLock
    <3>2. depth' \in [STasks -> Nat] /\ mutex' \in Int
      BY <2>1, <2>4 DEF TakeLock
    <3>3. SyncTypes'
      BY <2>4, <3>2 DEF schedVars
    <3> QED
      BY <2>4, <3>1, <3>3, ListKept
  <2> QED
    BY <1>7, <2>2, <2>3, <2>4, Zenon DEF MutexLock
<1>8. CASE MutexUnlock
  <2>1. scurr \in STasks /\ mobj = 0 /\ UNCHANGED schedVars
    BY <1>8 DEF MutexUnlock, Go
  <2>2. CASE lockTask # scurr
    BY <1>5, <1>8, <2>1, <2>2 DEF MutexUnlock
  <2>3. CASE lockTask = scurr
    <3>1. /\ mutex' = mutex + 1 /\ ToldUnlocked
          /\ lockTask' = IF mutex + 1 = 1 THEN NoTask ELSE lockTask
      BY <1>8, <2>3 DEF MutexUnlock
    <3>2. (~stray => MutexOwned)'
      BY <2>1, <2>3, <3>1, UnlockKeeps
    <3>3. depth' \in [STasks -> Nat]
      <4>1. (IF depth[scurr] = 0 THEN 0 ELSE depth[scurr] - 1) \in Nat
        BY <2>1
      <4> QED
        BY <2>1, <3>1, <4>1 DEF ToldUnlocked
    <3>4. SyncTypes'
      BY <2>1, <3>1, <3>3 DEF schedVars
    <3> QED
      BY <2>1, <3>2, <3>4, ListKept
  <2> QED
    BY <2>2, <2>3
<1>9. CASE UNCHANGED syncVars
  BY <1>5, <1>9 DEF syncVars
<1>10. (\E v \in 0 .. MaxVal : SemCreate(v)) \/ SemDelete \/ SemGive => SyncInv'
  BY <1>5 DEF SemCreate, SemDelete, SemGive
<1>11. ASSUME NEW n \in 0 .. MaxTicks, TaskWait(n) PROVE SyncInv'
  BY <1>11, WaitKeeps DEF TaskWait
<1>12. ASSUME NEW g, MutexCreate(g) PROVE SyncInv'
  <2>1. mobj = NoObject /\ mobj' = 0 /\ mutex' = 1 /\ depth' = depth /\ stray' = stray /\ UNCHANGED schedVars
    BY <1>12 DEF MutexCreate
  <2>2. SyncTypes'
    BY <2>1 DEF schedVars
  <2>3. (~stray => MutexOwned)'
    BY <2>1 DEF MutexOwned, NoObject
  <2> QED
    BY <2>1, <2>2, <2>3, ListKept
<1>13. CASE MutexDelete
  <2>1. /\ mobj' = Deleted /\ depth' = [t \in STasks |-> 0]
        /\ mutex' = mutex /\ UNCHANGED schedVars
    BY <1>13 DEF MutexDelete
  <2>2. SyncTypes'
    BY <2>1 DEF schedVars
  <2>3. MutexOwned'
    BY <2>1 DEF MutexOwned, Deleted
  <2> QED
    BY <2>1, <2>2, <2>3, ListKept
<1>14. CASE UseDeleted
  <2>1. halt' = "freed" /\ UNCHANGED <<scurr, sstatus, swait, mutexVars>>
    BY <1>14 DEF UseDeleted
  <2>2. SyncTypes'
    BY <2>1 DEF mutexVars
  <2> QED
    BY <2>1, <2>2, MutexKept, Halted
<1>15. CASE PauseEvery
  BY <1>15, PauseEveryKeeps
<1> QED
  BY <1>1, <1>2, <1>3, <1>4, <1>6, <1>7, <1>8, <1>9, <1>10, <1>11, <1>12, <1>13, <1>14, <1>15, Zenon
     DEF SyncNext

(* The inductive invariant implies the property. *)
LEMMA SyncInvExact == SyncInv => SyncExact
<1> SUFFICES ASSUME SyncInv PROVE SyncExact
  OBVIOUS
<1> USE DEF SyncInv, SyncTypes
<1>1. ASSUME halt = "no"
      PROVE  /\ Cardinality(ToSet(swait)) = Len(swait)
             /\ ToSet(swait) = {t \in STasks : sstatus[t] # "ready"}
  <2>1. DOMAIN swait = 1 .. Len(swait) /\ Len(swait) \in Nat
    BY <1>1
  <2>2. ToSet(swait) = {swait[i] : i \in 1 .. Len(swait)}
    BY <2>1, Zenon DEF ToSet
  <2>3. \A i \in 1 .. Len(swait) : swait[i] \in STasks
    BY <1>1
  <2> DEFINE f == [i \in 1 .. Len(swait) |-> swait[i]]
  <2>4. f \in Bijection(1 .. Len(swait), ToSet(swait))
    BY <1>1, <2>2 DEF ListedOnce, Bijection, Injection, Surjection, IsInjective
  <2>5. ExistsBijection(1 .. Len(swait), ToSet(swait))
    BY <2>4, Zenon DEF ExistsBijection
  <2>6. Cardinality(ToSet(swait)) = Len(swait)
    BY <2>1, <2>5, FS_CountingElements, Zenon
  <2>7. \A t \in STasks : sstatus[t] # "ready" <=> \E i \in 1 .. Len(swait) : swait[i] = t
    BY <1>1, Zenon DEF GoesOn
  <2>8. ToSet(swait) = {t \in STasks : sstatus[t] # "ready"}
    <3>1. ToSet(swait) \subseteq {t \in STasks : sstatus[t] # "ready"}
      BY <2>2, <2>3, <2>7
    <3>2. {t \in STasks : sstatus[t] # "ready"} \subseteq ToSet(swait)
      BY <2>2, <2>7
    <3> QED
      BY <3>1, <3>2
  <2> QED
    BY <2>6, <2>8
<1> QED
  BY <1>1, Zenon DEF MutexOwned, SyncExact

(* For every set of tasks, every value of the semaphore, depth of locking   *)
(* and time-out: until a task unlocks a mutex it never locked, at most one  *)
(* task was told it has the mutex, and it has it until its last unlock; and *)
(* as long as calls return the wait list holds each paused task once and no *)
(* other (helios_mutex.c, helios_sem.c, helios_pause_task and the pass over *)
(* the wait list).                                                          *)
THEOREM SyncCorrect == SyncSpec => []SyncExact
<1>1. SyncSpec => []SyncInv
  BY SyncStart, SyncStepInv, PTL DEF SyncSpec
<1> QED
  BY <1>1, SyncInvExact, PTL

-----------------------------------------------------------------------------
(* The task lists.  The pointers of the code are related to sequences: the *)
(* links of a list are a Ring of a sequence L, the operations of the code  *)
(* on the links are insertion into L and removal from L, and the loops of  *)
(* the code walk L.  The loops that pause and resume are folds, taken one  *)
(* step at a time by PauseAllFold and ResumeAllFold.                       *)

Tcb0 == Tcbs \cup {NullTcb}
Links == [next : [Tcbs -> Tcb0], prev : [Tcbs -> Tcb0]]
Kernel == [rhead : Tcb0, whead : Tcb0, ready : Links, wait : Links,
           status : [Tcbs -> {"exit", "ready", "pause", "running"}], prio : [Tcbs -> Nat],
           fault : {"none", "null", "wild", "hang"}]

(* No TCB is twice in L. *)
Once(L) == \A i, j \in 1 .. Len(L) : L[i] = L[j] => i = j

(* The links make a ring of L that is entered at head. *)
Ring(links, head, L) ==
  /\ L \in Seq(Tcbs) /\ Once(L)
  /\ head = IF Len(L) = 0 THEN NullTcb ELSE L[1]
  /\ \A i \in 1 .. Len(L) :
       /\ links.next[L[i]] = L[IF i = Len(L) THEN 1 ELSE i + 1]
       /\ links.prev[L[i]] = L[IF i = 1 THEN Len(L) ELSE i - 1]

LEMMA TcbsFinite ==
  IsFiniteSet(Tcbs) /\ Cardinality(Tcbs) \in Nat /\ NullTcb \notin Tcbs
<1>1. IsFiniteSet(Tcbs)
  BY HeliosAssumption, FS_AddElement DEF Tcbs
<1> QED  BY <1>1, HeliosAssumption, FS_CardinalityType DEF Tcbs

(* A list without repetition is no longer than there are TCBs. *)
LEMMA OnceBound ==
  ASSUME NEW L \in Seq(Tcbs), Once(L)
  PROVE  Len(L) \in Nat /\ Len(L) <= Cardinality(Tcbs)
<1> DEFINE n == Len(L)
<1>1. n \in Nat /\ L \in [1 .. n -> Tcbs]  OBVIOUS
<1>2. L \in Injection(1 .. n, Tcbs)  BY <1>1 DEF Once, Injection, IsInjective
<1> HIDE DEF n
<1>3. Cardinality(1 .. n) <= Cardinality(Tcbs)  BY <1>2, TcbsFinite, FS_Injection
<1>4. Cardinality(1 .. n) = n
  <2>1. 1 \in Int /\ n \in Int  BY <1>1
  <2>2. Cardinality(1 .. n) = IF 1 > n THEN 0 ELSE n - 1 + 1  BY <2>1, FS_Interval
  <2> QED  BY <1>1, <2>2
<1> QED  BY <1>1, <1>3, <1>4 DEF n

(* The walk of a loop, step by step. *)
LEMMA WalkIs ==
  ASSUME NEW head \in Tcb0, NEW next \in [Tcbs -> Tcb0]
  PROVE  /\ Walk(head, next) \in [0 .. Cardinality(Tcbs) -> Tcb0]
         /\ Walk(head, next)[0] = head
         /\ \A i \in 1 .. Cardinality(Tcbs) :
              Walk(head, next)[i] = IF Walk(head, next)[i - 1] = NullTcb THEN NullTcb
                                    ELSE next[Walk(head, next)[i - 1]]
<1> DEFINE n == Cardinality(Tcbs)
           F(f) == [i \in 0 .. n |-> IF i = 0 THEN head
                                     ELSE IF f[i - 1] = NullTcb THEN NullTcb ELSE next[f[i - 1]]]
           Good(m, f) == /\ f \in [0 .. m -> Tcb0] /\ f[0] = head
                         /\ \A i \in 1 .. m : f[i] = IF f[i - 1] = NullTcb THEN NullTcb
                                                     ELSE next[f[i - 1]]
           T == {m \in 0 .. n : \E f : Good(m, f)}
<1>1. n \in Nat  BY TcbsFinite
<1>2. Walk(head, next) = CHOOSE f : f = F(f)  BY DEF Walk
<1> HIDE DEF n
<1>3. 0 \in T
  <2> DEFINE f == [i \in 0 .. 0 |-> head]
  <2>1. Good(0, f)  OBVIOUS
  <2> HIDE DEF Good, f
  <2> QED  BY <1>1, <2>1
<1>4. ASSUME NEW m \in 1 .. n, m - 1 \in T PROVE m \in T
  <2>1. PICK f : Good(m - 1, f)  BY <1>4
  <2> DEFINE h == [i \in 0 .. m |-> IF i < m THEN f[i]
                                    ELSE IF f[m - 1] = NullTcb THEN NullTcb ELSE next[f[m - 1]]]
  <2>2. m - 1 \in 0 .. m - 1 /\ f[m - 1] \in Tcb0  BY <2>1
  <2>3. \A x \in Tcb0 : x # NullTcb => next[x] \in Tcb0  BY DEF Tcb0
  <2>4. \A i \in 0 .. m - 1 : h[i] = f[i] /\ f[i] \in Tcb0  BY <2>1
  <2>5. h[m] = IF f[m - 1] = NullTcb THEN NullTcb ELSE next[f[m - 1]]  BY <1>1
  <2>6. h \in [0 .. m -> Tcb0]
    <3>1. h[m] \in Tcb0  BY <2>2, <2>3, <2>5 DEF Tcb0
    <3>2. \A i \in 0 .. m : i \in 0 .. m - 1 \/ i = m  OBVIOUS
    <3> QED  BY <2>4, <3>1, <3>2
  <2>7. h[0] = head  BY <2>1, <2>4
  <2>8. ASSUME NEW i \in 1 .. m
        PROVE  h[i] = IF h[i - 1] = NullTcb THEN NullTcb ELSE next[h[i - 1]]
    <3>1. i - 1 \in 0 .. m - 1  OBVIOUS
    <3>2. h[i - 1] = f[i - 1]  BY <2>4, <3>1
    <3>3. CASE i = m  BY <2>5, <3>2, <3>3
    <3>4. CASE i # m
      <4>1. i \in 0 .. m - 1 /\ i \in 1 .. m - 1  BY <3>4
      <4>2. h[i] = f[i]  BY <2>4, <4>1
      <4> QED  BY <2>1, <3>2, <4>1, <4>2
    <3> QED  BY <3>3, <3>4
  <2>9. Good(m, h)
    <3> HIDE DEF h
    <3> QED  BY <2>6, <2>7, <2>8
  <2> HIDE DEF Good, h
  <2> QED  BY <2>9
<1> HIDE DEF T
<1>5. \A m \in 0 .. n : m \in T  BY <1>1, <1>3, <1>4, UpTo
<1>6. n \in T  BY <1>1, <1>5
<1>7. PICK f : Good(n, f)  BY <1>6 DEF T
<1>8. f = F(f)
  <2>1. \A i \in 0 .. n : f[i] = IF i = 0 THEN head
                                 ELSE IF f[i - 1] = NullTcb THEN NullTcb ELSE next[f[i - 1]]
    BY <1>1, <1>7
  <2>2. f = [i \in 0 .. n |-> f[i]]  BY <1>7
  <2> QED  BY <2>1, <2>2
<1>9. PICK h : h = Walk(head, next)  OBVIOUS
<1>10. h = F(h)
  <2> HIDE DEF F
  <2> QED  BY <1>2, <1>8, <1>9
<1>11. h[0] = head  BY <1>1, <1>10
<1>12. ASSUME NEW i \in 1 .. n
       PROVE  h[i] = IF h[i - 1] = NullTcb THEN NullTcb ELSE next[h[i - 1]]
  BY <1>1, <1>10
<1>13. \A i \in 0 .. n : h[i] \in Tcb0
  <2> DEFINE U == {i \in 0 .. n : h[i] \in Tcb0}
  <2>1. 0 \in U  BY <1>1, <1>11
  <2>2. ASSUME NEW i \in 1 .. n, i - 1 \in U PROVE i \in U
    <3>1. h[i - 1] \in Tcb0  BY <2>2
    <3>2. h[i] \in Tcb0  BY <1>12, <3>1 DEF Tcb0
    <3> QED  BY <3>2
  <2> HIDE DEF U
  <2>3. \A i \in 0 .. n : i \in U  BY <1>1, <2>1, <2>2, UpTo
  <2> QED  BY <2>3 DEF U
<1>14. h \in [0 .. n -> Tcb0]
  <2>1. DOMAIN h = 0 .. n /\ h = [i \in 0 .. n |-> h[i]]  BY <1>10
  <2> QED  BY <1>13, <2>1
<1> QED  BY <1>9, <1>11, <1>12, <1>14 DEF n

(* The walk of a ring meets its members in their order, and the first one  *)
(* again after the last.                                                   *)
LEMMA WalkRing ==
  ASSUME NEW links \in Links, NEW L, NEW head, Ring(links, head, L), Len(L) > 0
  PROVE  /\ \A i \in 0 .. Len(L) - 1 : Walk(head, links.next)[i] = L[i + 1]
         /\ Walk(head, links.next)[Len(L)] = L[1]
         /\ \A i \in 0 .. Cardinality(Tcbs) : Walk(head, links.next)[i] \in ToSet(L)
<1> DEFINE at == Walk(head, links.next)
           n == Len(L)
           c == Cardinality(Tcbs)
<1>1. /\ L \in Seq(Tcbs) /\ head = L[1]
      /\ \A i \in 1 .. n : links.next[L[i]] = L[IF i = n THEN 1 ELSE i + 1]
  BY DEF Ring
<1>2. n \in Nat /\ n <= c /\ c \in Nat /\ n > 0  BY OnceBound, TcbsFinite DEF Ring
<1>3. \A i \in 1 .. n : L[i] \in Tcbs /\ L[i] # NullTcb  BY <1>1, TcbsFinite
<1>4. head \in Tcb0 /\ links.next \in [Tcbs -> Tcb0]  BY <1>1, <1>2, <1>3 DEF Tcb0, Links
<1>5. /\ at[0] = head
      /\ \A i \in 1 .. c : at[i] = IF at[i - 1] = NullTcb THEN NullTcb ELSE links.next[at[i - 1]]
  BY <1>4, WalkIs
<1>6. ToSet(L) = {L[i] : i \in 1 .. n}  BY <1>1, ToSetIs
<1> HIDE DEF at, n, c
<1>7. \A i \in 0 .. n - 1 : at[i] = L[i + 1]
  <2> DEFINE U == {i \in 0 .. n - 1 : at[i] = L[i + 1]}
  <2>1. 0 \in U  BY <1>1, <1>2, <1>5
  <2>2. ASSUME NEW i \in 1 .. n - 1, i - 1 \in U PROVE i \in U
    <3>1. at[i - 1] = L[i] /\ i \in 1 .. c /\ i \in 1 .. n /\ i # n
      <4>1. at[i - 1] = L[i - 1 + 1] /\ i - 1 + 1 = i  BY <2>2
      <4> QED  BY <1>2, <4>1
    <3>2. at[i] = links.next[L[i]]  BY <1>3, <1>5, <3>1
    <3>3. at[i] = L[i + 1]  BY <1>1, <3>1, <3>2
    <3> QED  BY <1>2, <3>3
  <2> HIDE DEF U
  <2>3. n - 1 \in Nat  BY <1>2
  <2>4. \A i \in 0 .. n - 1 : i \in U  BY <2>1, <2>2, <2>3, UpTo
  <2> QED  BY <2>4 DEF U
<1>8. at[n] = L[1]
  <2>1. at[n - 1] = L[n]
    <3>1. n - 1 \in 0 .. n - 1 /\ n - 1 + 1 = n  BY <1>2
    <3> QED  BY <1>7, <3>1
  <2>2. n \in 1 .. c /\ n \in 1 .. n  BY <1>2
  <2>3. at[n] = links.next[L[n]]  BY <1>3, <1>5, <2>1, <2>2
  <2> QED  BY <1>1, <2>2, <2>3
<1>9. \A i \in 0 .. c : at[i] \in ToSet(L)
  <2> DEFINE U == {i \in 0 .. c : at[i] \in ToSet(L)}
  <2>1. 0 \in U
    <3>1. 1 \in 1 .. n  BY <1>2
    <3>2. L[1] \in ToSet(L)  BY <1>6, <3>1
    <3> QED  BY <1>1, <1>2, <1>5, <3>2
  <2>2. ASSUME NEW i \in 1 .. c, i - 1 \in U PROVE i \in U
    <3>1. PICK j \in 1 .. n : at[i - 1] = L[j]  BY <1>6, <2>2
    <3>2. at[i] = links.next[L[j]]  BY <1>3, <1>5, <3>1
    <3> DEFINE m == IF j = n THEN 1 ELSE j + 1
    <3>3. m \in 1 .. n  BY <1>2
    <3>4. at[i] = L[m]  BY <1>1, <3>2
    <3> HIDE DEF m
    <3>5. at[i] \in ToSet(L)  BY <1>6, <3>3, <3>4
    <3> QED  BY <1>2, <3>5
  <2> HIDE DEF U
  <2>3. \A i \in 0 .. c : i \in U  BY <1>2, <2>1, <2>2, UpTo
  <2> QED  BY <2>3 DEF U
<1> QED  BY <1>7, <1>8, <1>9 DEF at, n, c

(* The least number of a set. *)
LEMMA LeastOf ==
  ASSUME NEW T \in SUBSET Nat, T # {}
  PROVE  Min(T) \in T /\ \A y \in T : Min(T) <= y
<1>1. PICK x \in T : \A y \in T : x <= y  BY LeastNumber
<1> QED  BY <1>1 DEF Min

(* The loops over the ready list walk the ring. *)
LEMMA ReadyIs ==
  ASSUME NEW s \in Kernel, NEW L, Ring(s.ready, s.rhead, L)
  PROVE  ReadyList(s) = L
<1> DEFINE at == Walk(s.rhead, s.ready.next)
           n == Len(L)
           c == Cardinality(Tcbs)
           back == {i \in 1 .. c : at[i] = s.rhead}
           len == IF back = {} THEN 0 ELSE Min(back)
<1>1. L \in Seq(Tcbs) /\ n \in Nat /\ c \in Nat /\ n <= c  BY OnceBound, TcbsFinite DEF Ring
<1>2. ReadyList(s) = IF s.rhead = NullTcb THEN <<>> ELSE [i \in 1 .. len |-> at[i - 1]]
  BY DEF ReadyList
<1>3. CASE n = 0
  BY <1>1, <1>2, <1>3, EmptySeq DEF Ring
<1>4. CASE n > 0
  <2>1. s.rhead = L[1] /\ 1 \in 1 .. n  BY <1>1, <1>4 DEF Ring
  <2>2. s.rhead # NullTcb  BY <1>1, <2>1, TcbsFinite
  <2>3. s.ready \in Links  BY DEF Kernel
  <2>4. (\A i \in 0 .. n - 1 : at[i] = L[i + 1]) /\ at[n] = L[1]
    BY <1>4, <2>3, WalkRing
  <2>5. \A i, j \in 1 .. n : L[i] = L[j] => i = j  BY DEF Ring, Once
  <2> HIDE DEF at, n, c
  <2>6. n \in back  BY <1>1, <1>4, <2>1, <2>4
  <2>7. ASSUME NEW i \in back PROVE n <= i
    <3> SUFFICES ASSUME i < n PROVE FALSE  BY <1>1
    <3>1. i \in 1 .. n - 1 /\ i \in 0 .. n - 1 /\ i + 1 \in 1 .. n /\ i + 1 # 1  BY <1>1, <1>4
    <3>2. L[i + 1] = L[1]  BY <2>1, <2>4, <3>1
    <3> QED  BY <2>1, <2>5, <3>1, <3>2
  <2>8. back \in SUBSET Nat /\ back # {}  BY <1>1, <2>6
  <2> HIDE DEF back
  <2>9. Min(back) \in back /\ \A y \in back : Min(back) <= y  BY <2>8, LeastOf
  <2>10. Min(back) = n
    <3>1. Min(back) <= n /\ n <= Min(back) /\ Min(back) \in Nat  BY <2>6, <2>7, <2>8, <2>9
    <3> QED  BY <1>1, <3>1
  <2>11. ReadyList(s) = [i \in 1 .. n |-> at[i - 1]]  BY <1>2, <2>2, <2>8, <2>10
  <2>12. \A i \in 1 .. n : at[i - 1] = L[i]
    <3> TAKE i \in 1 .. n
    <3>1. i - 1 \in 0 .. n - 1 /\ i - 1 + 1 = i  BY <1>1
    <3> QED  BY <2>4, <3>1
  <2>13. L = [i \in 1 .. n |-> L[i]]  BY <1>1 DEF n
  <2> QED  BY <2>11, <2>12, <2>13
<1> QED  BY <1>1, <1>3, <1>4

(* The TCBs met from the head of a ring are its members. *)
LEMMA MetIs ==
  ASSUME NEW links \in Links, NEW head \in Tcb0, NEW W, Ring(links, head, W)
  PROVE  {Walk(head, links.next)[i] : i \in 0 .. Cardinality(Tcbs)} \ {NullTcb} = ToSet(W)
<1> DEFINE at == Walk(head, links.next)
           n == Len(W)
           c == Cardinality(Tcbs)
<1>1. W \in Seq(Tcbs) /\ n \in Nat /\ c \in Nat /\ n <= c  BY OnceBound, TcbsFinite DEF Ring
<1>2. ToSet(W) = {W[i] : i \in 1 .. n} /\ ToSet(W) \subseteq Tcbs  BY <1>1, ToSetIs
<1>3. CASE n = 0
  <2>1. head = NullTcb /\ ToSet(W) = {}  BY <1>2, <1>3 DEF Ring
  <2>2. /\ at[0] = head
        /\ \A i \in 1 .. c : at[i] = IF at[i - 1] = NullTcb THEN NullTcb ELSE links.next[at[i - 1]]
    BY WalkIs DEF Links
  <2> HIDE DEF at, c
  <2> DEFINE U == {i \in 0 .. c : at[i] = NullTcb}
  <2>3. 0 \in U  BY <1>1, <2>1, <2>2
  <2>4. ASSUME NEW i \in 1 .. c, i - 1 \in U PROVE i \in U
    BY <2>2, <2>4
  <2> HIDE DEF U
  <2>5. \A i \in 0 .. c : i \in U  BY <1>1, <2>3, <2>4, UpTo
  <2>6. \A i \in 0 .. c : at[i] = NullTcb  BY <2>5 DEF U
  <2>7. {at[i] : i \in 0 .. c} \ {NullTcb} = ToSet(W)  BY <2>1, <2>6
  <2> QED  BY <2>7 DEF at, c
<1>4. CASE n > 0
  <2>1. (\A i \in 0 .. n - 1 : at[i] = W[i + 1]) /\ \A i \in 0 .. c : at[i] \in ToSet(W)
    BY <1>4, WalkRing
  <2> HIDE DEF at, c, n
  <2>2. ASSUME NEW x \in ToSet(W) PROVE \E i \in 0 .. c : x = at[i]
    <3>1. PICK j \in 1 .. n : x = W[j]  BY <1>2
    <3>2. j - 1 \in 0 .. n - 1 /\ j - 1 \in 0 .. c /\ j - 1 + 1 = j  BY <1>1
    <3>3. at[j - 1] = x  BY <2>1, <3>1, <3>2
    <3> QED  BY <3>2, <3>3
  <2>3. NullTcb \notin ToSet(W)  BY <1>2, TcbsFinite
  <2>4. {at[i] : i \in 0 .. c} \ {NullTcb} = ToSet(W)  BY <2>1, <2>2, <2>3
  <2> QED  BY <2>4 DEF at, c
<1> QED  BY <1>1, <1>3, <1>4

-----------------------------------------------------------------------------
(* The rings. *)

(* L with t put at place m, and without its member at place m. *)
Inserted(L, m, t) ==
  [i \in 1 .. Len(L) + 1 |-> IF i < m THEN L[i] ELSE IF i = m THEN t ELSE L[i - 1]]
Removed(L, m) == [i \in 1 .. Len(L) - 1 |-> IF i < m THEN L[i] ELSE L[i + 1]]

LEMMA InsertedIs ==
  ASSUME NEW L \in Seq(Tcbs), Once(L), NEW t \in Tcbs, t \notin ToSet(L), NEW m \in 1 .. Len(L) + 1
  PROVE  /\ Inserted(L, m, t) \in Seq(Tcbs) /\ Len(Inserted(L, m, t)) = Len(L) + 1
         /\ Once(Inserted(L, m, t)) /\ ToSet(Inserted(L, m, t)) = ToSet(L) \cup {t}
<1> DEFINE n == Len(L)
           M == Inserted(L, m, t)
<1>1. n \in Nat /\ \A i \in 1 .. n : L[i] \in Tcbs  OBVIOUS
<1>2. ToSet(L) = {L[i] : i \in 1 .. n}  BY ToSetIs
<1>3. M = [i \in 1 .. n + 1 |-> IF i < m THEN L[i] ELSE IF i = m THEN t ELSE L[i - 1]]
  BY DEF Inserted
<1>4. \A i, j \in 1 .. n : L[i] = L[j] => i = j  BY DEF Once
<1>5. m \in 1 .. n + 1  OBVIOUS
<1> HIDE DEF n, M
<1>6. \A i \in 1 .. n + 1 : M[i] = IF i < m THEN L[i] ELSE IF i = m THEN t ELSE L[i - 1]
  BY <1>3
<1>7. \A i \in 1 .. n + 1 : /\ i < m => i \in 1 .. n
                            /\ i > m => i - 1 \in 1 .. n
                            /\ i < m \/ i = m \/ i > m
  BY <1>1, <1>5
<1>8. \A i \in 1 .. n + 1 : M[i] \in Tcbs
  BY <1>1, <1>5, <1>6, <1>7
<1>9. M \in Seq(Tcbs) /\ Len(M) = n + 1
  <2>1. M \in [1 .. n + 1 -> Tcbs] /\ n + 1 \in Nat  BY <1>1, <1>3, <1>8
  <2> QED  BY <2>1
<1>10. Once(M)
  <2>1. ASSUME NEW i \in 1 .. n + 1, NEW j \in 1 .. n + 1, M[i] = M[j] PROVE i = j
    <3>1. \A x \in 1 .. n : L[x] # t  BY <1>2
    <3>2. CASE i = m
      <4>1. M[i] = t  BY <1>1, <1>5, <1>6, <3>2
      <4> QED  BY <1>1, <1>5, <1>6, <1>7, <2>1, <3>1, <3>2, <4>1
    <3>3. CASE j = m
      <4>1. M[j] = t  BY <1>1, <1>5, <1>6, <3>3
      <4> QED  BY <1>1, <1>5, <1>6, <1>7, <2>1, <3>1, <3>3, <4>1
    <3>4. CASE i # m /\ j # m
      <4> DEFINE a == IF i < m THEN i ELSE i - 1
                 b == IF j < m THEN j ELSE j - 1
      <4>1. a \in 1 .. n /\ b \in 1 .. n  BY <1>5, <1>7, <3>4
      <4>2. M[i] = L[a] /\ M[j] = L[b]  BY <1>6, <3>4
      <4>3. a = b => i = j  BY <1>1, <1>5, <3>4
      <4> HIDE DEF a, b
      <4>4. a = b  BY <1>4, <2>1, <4>1, <4>2
      <4> QED  BY <4>3, <4>4
    <3> QED  BY <3>2, <3>3, <3>4
  <2> QED  BY <1>9, <2>1 DEF Once
<1>11. ToSet(M) = ToSet(L) \cup {t}
  <2>1. ToSet(M) = {M[i] : i \in 1 .. n + 1}  BY <1>9, ToSetIs
  <2>2. ASSUME NEW x \in ToSet(M) PROVE x \in ToSet(L) \cup {t}
    <3>1. PICK i \in 1 .. n + 1 : x = M[i]  BY <2>1, <2>2
    <3> QED  BY <1>2, <1>6, <1>7, <3>1
  <2>3. ASSUME NEW x \in ToSet(L) PROVE x \in ToSet(M)
    <3>1. PICK i \in 1 .. n : x = L[i]  BY <1>2, <2>3
    <3> DEFINE j == IF i < m THEN i ELSE i + 1
    <3>2. j \in 1 .. n + 1  BY <1>1
    <3>3. M[j] = L[i]
      <4>1. CASE i < m  BY <1>1, <1>6, <3>2, <4>1
      <4>2. CASE ~(i < m)
        <5>1. j = i + 1 /\ ~(j < m) /\ j # m /\ j - 1 = i  BY <1>1, <1>5, <4>2
        <5> HIDE DEF j
        <5> QED  BY <1>6, <3>2, <5>1
      <4> QED  BY <4>1, <4>2
    <3> HIDE DEF j
    <3> QED  BY <2>1, <3>1, <3>2, <3>3
  <2>4. t \in ToSet(M)
    <3>1. M[m] = t  BY <1>1, <1>5, <1>6
    <3> QED  BY <1>5, <2>1, <3>1
  <2> QED  BY <2>2, <2>3, <2>4
<1> QED  BY <1>9, <1>10, <1>11 DEF n, M

(* _helios_sched_insert_before at the member a new TCB goes before. *)
LEMMA InsertRing ==
  ASSUME NEW links \in Links, NEW head, NEW L, Ring(links, head, L), Len(L) > 0,
         NEW t \in Tcbs, t \notin ToSet(L), NEW m \in 1 .. Len(L) + 1,
         NEW h, h = L[IF m = Len(L) + 1 THEN 1 ELSE m]
  PROVE  Ring(InsertBefore(links, h, t), IF m = 1 THEN t ELSE head, Inserted(L, m, t))
<1> DEFINE n == Len(L)
           M == Inserted(L, m, t)
           R == InsertBefore(links, h, t)
           hm == IF m = n + 1 THEN 1 ELSE m
           pm == IF m = 1 THEN n ELSE m - 1
<1>1. L \in Seq(Tcbs) /\ Once(L) /\ head = L[1]  BY DEF Ring
<1>2. n \in Nat /\ n > 0 /\ m \in 1 .. n + 1 /\ \A i \in 1 .. n : L[i] \in Tcbs  BY <1>1
<1>3. M \in Seq(Tcbs) /\ Len(M) = n + 1 /\ Once(M)  BY <1>1, InsertedIs
<1>4. \A i \in 1 .. n + 1 : M[i] = IF i < m THEN L[i] ELSE IF i = m THEN t ELSE L[i - 1]
  BY DEF Inserted
<1>5. \A i, j \in 1 .. n : L[i] = L[j] => i = j  BY <1>1 DEF Once
<1>6. \A i \in 1 .. n : L[i] # t
  <2>1. ToSet(L) = {L[i] : i \in 1 .. n}  BY <1>1, ToSetIs
  <2> QED  BY <2>1
<1>7. \A i \in 1 .. n : /\ links.next[L[i]] = L[IF i = n THEN 1 ELSE i + 1]
                        /\ links.prev[L[i]] = L[IF i = 1 THEN n ELSE i - 1]
  BY DEF Ring
<1>8. h = L[hm]  OBVIOUS
<1>9. links.next \in [Tcbs -> Tcb0] /\ links.prev \in [Tcbs -> Tcb0]  BY DEF Links
<1>10. R = [next |-> [links.next EXCEPT ![t] = h,
                        ![[links.prev EXCEPT ![t] = links.prev[h], ![h] = t][t]] = t],
            prev |-> [links.prev EXCEPT ![t] = links.prev[h], ![h] = t]]
  BY DEF InsertBefore
<1> HIDE DEF n, M, R
<1>11. hm \in 1 .. n /\ pm \in 1 .. n /\ pm = IF hm = 1 THEN n ELSE hm - 1
  BY <1>2
<1> HIDE DEF hm, pm
<1>12. h \in Tcbs /\ h # t /\ L[pm] \in Tcbs /\ L[pm] # t /\ links.prev[h] = L[pm]
  BY <1>2, <1>6, <1>7, <1>8, <1>11
<1>13. [links.prev EXCEPT ![t] = links.prev[h], ![h] = t][t] = L[pm]  BY <1>9, <1>12
<1>14. /\ R.next = [links.next EXCEPT ![t] = h, ![L[pm]] = t]
       /\ R.prev = [links.prev EXCEPT ![t] = L[pm], ![h] = t]
  BY <1>10, <1>12, <1>13
<1>15. R.next[t] = L[hm] /\ R.prev[t] = L[pm]  BY <1>8, <1>9, <1>12, <1>14
<1>16. ASSUME NEW i \in 1 .. n
       PROVE  /\ R.next[L[i]] = IF i = pm THEN t ELSE L[IF i = n THEN 1 ELSE i + 1]
              /\ R.prev[L[i]] = IF i = hm THEN t ELSE L[IF i = 1 THEN n ELSE i - 1]
  <2>1. L[i] \in Tcbs /\ L[i] # t /\ (L[i] = L[pm] <=> i = pm) /\ (L[i] = h <=> i = hm)
    BY <1>2, <1>5, <1>6, <1>8, <1>11
  <2>2. R.next[L[i]] = IF L[i] = L[pm] THEN t ELSE links.next[L[i]]  BY <1>9, <1>12, <1>14, <2>1
  <2>3. R.prev[L[i]] = IF L[i] = h THEN t ELSE links.prev[L[i]]  BY <1>9, <1>12, <1>14, <2>1
  <2> QED  BY <1>7, <2>1, <2>2, <2>3
<1>17. ASSUME NEW i \in 1 .. n + 1
       PROVE  /\ R.next[M[i]] = M[IF i = n + 1 THEN 1 ELSE i + 1]
              /\ R.prev[M[i]] = M[IF i = 1 THEN n + 1 ELSE i - 1]
  <2> DEFINE a == IF i = n + 1 THEN 1 ELSE i + 1
             b == IF i = 1 THEN n + 1 ELSE i - 1
  <2>1. a \in 1 .. n + 1 /\ b \in 1 .. n + 1  BY <1>2
  <2>2. CASE i = m
    <3>1. M[i] = t  BY <1>2, <1>4, <2>2
    <3>2. M[a] = L[hm]
      <4>1. CASE m = n + 1
        <5>1. a = 1 /\ 1 < m /\ hm = 1  BY <1>2, <2>2, <4>1 DEF hm
        <5> QED  BY <1>4, <2>1, <5>1
      <4>2. CASE m # n + 1
        <5>1. a = m + 1 /\ ~(a < m) /\ a # m /\ a - 1 = m /\ hm = m  BY <1>2, <2>2, <4>2 DEF hm
        <5> HIDE DEF a
        <5> QED  BY <1>4, <2>1, <5>1
      <4> QED  BY <4>1, <4>2
    <3>3. M[b] = L[pm]
      <4>1. CASE m = 1
        <5>1. b = n + 1 /\ ~(b < m) /\ b # m /\ b - 1 = n /\ pm = n  BY <1>2, <2>2, <4>1 DEF pm
        <5> HIDE DEF b
        <5> QED  BY <1>4, <2>1, <5>1
      <4>2. CASE m # 1
        <5>1. b = m - 1 /\ b < m /\ pm = m - 1  BY <1>2, <2>2, <4>2 DEF pm
        <5> HIDE DEF b
        <5> QED  BY <1>4, <2>1, <5>1
      <4> QED  BY <4>1, <4>2
    <3> HIDE DEF a, b
    <3>4. R.next[M[i]] = M[a] /\ R.prev[M[i]] = M[b]  BY <1>15, <3>1, <3>2, <3>3
    <3> QED  BY <3>4 DEF a, b
  <2>3. CASE i # m
    <3> DEFINE j == IF i < m THEN i ELSE i - 1
    <3>1. j \in 1 .. n  BY <1>2, <2>3
    <3>2. M[i] = L[j]  BY <1>4, <2>3
    <3>3. R.next[M[i]] = M[a]
      <4>1. CASE j = pm
        <5>1. a = m  BY <1>2, <2>3, <4>1 DEF pm
        <5>2. M[m] = t  BY <1>2, <1>4
        <5> HIDE DEF a, j
        <5> QED  BY <1>16, <3>1, <3>2, <4>1, <5>1, <5>2
      <4>2. CASE j # pm
        <5> DEFINE u == IF j = n THEN 1 ELSE j + 1
        <5>1. u = IF a < m THEN a ELSE a - 1  BY <1>2, <2>3, <4>2 DEF pm
        <5>2. a # m  BY <1>2, <2>3, <4>2 DEF pm
        <5>3. R.next[L[j]] = L[u]  BY <1>16, <3>1, <4>2
        <5>4. M[a] = IF a < m THEN L[a] ELSE L[a - 1]  BY <1>4, <2>1, <5>2
        <5> HIDE DEF a, j, u
        <5> QED  BY <3>2, <5>1, <5>3, <5>4
      <4> QED  BY <4>1, <4>2
    <3>4. R.prev[M[i]] = M[b]
      <4>1. CASE j = hm
        <5>1. b = m  BY <1>2, <2>3, <4>1 DEF hm
        <5>2. M[m] = t  BY <1>2, <1>4
        <5> HIDE DEF b, j
        <5> QED  BY <1>16, <3>1, <3>2, <4>1, <5>1, <5>2
      <4>2. CASE j # hm
        <5> DEFINE u == IF j = 1 THEN n ELSE j - 1
        <5>1. u = IF b < m THEN b ELSE b - 1  BY <1>2, <2>3, <4>2 DEF hm
        <5>2. b # m  BY <1>2, <2>3, <4>2 DEF hm
        <5>3. R.prev[L[j]] = L[u]  BY <1>16, <3>1, <4>2
        <5>4. M[b] = IF b < m THEN L[b] ELSE L[b - 1]  BY <1>4, <2>1, <5>2
        <5> HIDE DEF b, j, u
        <5> QED  BY <3>2, <5>1, <5>3, <5>4
      <4> QED  BY <4>1, <4>2
    <3> QED  BY <3>3, <3>4
  <2> QED  BY <2>2, <2>3
<1>18. M[1] = IF m = 1 THEN t ELSE head  BY <1>1, <1>2, <1>4
<1>19. Ring(R, IF m = 1 THEN t ELSE head, M)  BY <1>2, <1>3, <1>17, <1>18 DEF Ring
<1> QED  BY <1>19 DEF R, M

LEMMA LinksKept ==
  ASSUME NEW links \in Links, NEW h \in Tcbs, NEW t \in Tcbs
  PROVE  /\ InsertBefore(links, h, t) \in Links /\ Alone(links, t) \in Links
         /\ Detach(links, t) \in Links
<1>1. links.next \in [Tcbs -> Tcb0] /\ links.prev \in [Tcbs -> Tcb0] /\ Tcbs \subseteq Tcb0
      /\ NullTcb \in Tcb0
  BY DEF Links, Tcb0
<1>2. links.next[t] \in Tcb0 /\ links.prev[t] \in Tcb0 /\ links.prev[h] \in Tcb0  BY <1>1
<1>3. Alone(links, t) \in Links  BY <1>1 DEF Alone, Links
<1>4. InsertBefore(links, h, t) \in Links
  <2> DEFINE prev == [links.prev EXCEPT ![t] = links.prev[h], ![h] = t]
             next == [links.next EXCEPT ![t] = h, ![prev[t]] = t]
  <2>1. prev \in [Tcbs -> Tcb0]  BY <1>1, <1>2
  <2>2. next \in [Tcbs -> Tcb0]
    <3> HIDE DEF prev
    <3> QED  BY <1>1
  <2>3. InsertBefore(links, h, t) = [next |-> next, prev |-> prev]  BY DEF InsertBefore
  <2> HIDE DEF prev, next
  <2> QED  BY <2>1, <2>2, <2>3 DEF Links
<1>5. Detach(links, t) \in Links
  <2> DEFINE next == [links.next EXCEPT ![links.prev[t]] = links.next[t]]
             prev == [links.prev EXCEPT ![next[t]] = links.prev[t]]
             next2 == [next EXCEPT ![t] = NullTcb]
             prev2 == [prev EXCEPT ![t] = NullTcb]
  <2>1. next \in [Tcbs -> Tcb0]  BY <1>1, <1>2
  <2>2. prev \in [Tcbs -> Tcb0]
    <3> HIDE DEF next
    <3> QED  BY <1>1, <1>2
  <2>3. next2 \in [Tcbs -> Tcb0] /\ prev2 \in [Tcbs -> Tcb0]
    <3> HIDE DEF next, prev
    <3> QED  BY <1>1, <2>1, <2>2
  <2>4. Detach(links, t) = [next |-> next2, prev |-> prev2]  BY DEF Detach
  <2> HIDE DEF next2, prev2
  <2> QED  BY <2>3, <2>4 DEF Links
<1> QED  BY <1>3, <1>4, <1>5

(* A TCB alone on its list. *)
LEMMA AloneRing ==
  ASSUME NEW links \in Links, NEW t \in Tcbs
  PROVE  Ring(Alone(links, t), t, <<t>>) /\ ToSet(<<t>>) = {t}
<1>1. links.next \in [Tcbs -> Tcb0] /\ links.prev \in [Tcbs -> Tcb0]  BY DEF Links
<1>2. Alone(links, t).next[t] = t /\ Alone(links, t).prev[t] = t  BY <1>1 DEF Alone
<1>3. <<t>> \in Seq(Tcbs) /\ Len(<<t>>) = 1 /\ <<t>>[1] = t  OBVIOUS
<1> DEFINE q == <<t>>
<1>4. ToSet(q) = {q[i] : i \in 1 .. Len(q)}  BY <1>3, ToSetIs
<1>5. q \in Seq(Tcbs) /\ Len(q) = 1 /\ q[1] = t  BY <1>3
<1> HIDE DEF q
<1>6. ToSet(q) = {t}  BY <1>4, <1>5
<1>7. Once(q)  BY <1>5 DEF Once
<1>8. \A i \in 1 .. Len(q) : i = 1 /\ i = Len(q)  BY <1>5
<1>9. Ring(Alone(links, t), t, q)  BY <1>2, <1>5, <1>7, <1>8 DEF Ring
<1> QED  BY <1>6, <1>9 DEF q

LEMMA RemovedIs ==
  ASSUME NEW L \in Seq(Tcbs), Once(L), NEW m \in 1 .. Len(L)
  PROVE  /\ Removed(L, m) \in Seq(Tcbs) /\ Len(Removed(L, m)) = Len(L) - 1
         /\ Once(Removed(L, m)) /\ ToSet(Removed(L, m)) = ToSet(L) \ {L[m]}
<1> DEFINE n == Len(L)
           M == Removed(L, m)
<1>1. n \in Nat /\ (\A i \in 1 .. n : L[i] \in Tcbs) /\ m \in 1 .. n  OBVIOUS
<1>2. ToSet(L) = {L[i] : i \in 1 .. n}  BY ToSetIs
<1>3. M = [i \in 1 .. n - 1 |-> IF i < m THEN L[i] ELSE L[i + 1]]  BY DEF Removed
<1>4. \A i, j \in 1 .. n : L[i] = L[j] => i = j  BY DEF Once
<1> HIDE DEF n, M
<1>5. \A i \in 1 .. n - 1 : M[i] = IF i < m THEN L[i] ELSE L[i + 1]  BY <1>3
<1>6. \A i \in 1 .. n - 1 : i \in 1 .. n /\ i + 1 \in 1 .. n  BY <1>1
<1>7. M \in Seq(Tcbs) /\ Len(M) = n - 1
  <2>1. \A i \in 1 .. n - 1 : M[i] \in Tcbs  BY <1>1, <1>5, <1>6
  <2>2. M \in [1 .. n - 1 -> Tcbs] /\ n - 1 \in Nat  BY <1>1, <1>3, <2>1
  <2> QED  BY <2>2
<1>8. Once(M)
  <2>1. ASSUME NEW i \in 1 .. n - 1, NEW j \in 1 .. n - 1, M[i] = M[j] PROVE i = j
    <3> DEFINE a == IF i < m THEN i ELSE i + 1
               b == IF j < m THEN j ELSE j + 1
    <3>1. a \in 1 .. n /\ b \in 1 .. n  BY <1>6
    <3>2. M[i] = L[a] /\ M[j] = L[b]  BY <1>5
    <3>3. a = b => i = j  BY <1>1
    <3> HIDE DEF a, b
    <3>4. a = b  BY <1>4, <2>1, <3>1, <3>2
    <3> QED  BY <3>3, <3>4
  <2> QED  BY <1>7, <2>1 DEF Once
<1>9. ToSet(M) = ToSet(L) \ {L[m]}
  <2>1. ToSet(M) = {M[i] : i \in 1 .. n - 1}  BY <1>7, ToSetIs
  <2>2. ASSUME NEW x \in ToSet(M) PROVE x \in ToSet(L) /\ x # L[m]
    <3>1. PICK i \in 1 .. n - 1 : x = M[i]  BY <2>1, <2>2
    <3> DEFINE a == IF i < m THEN i ELSE i + 1
    <3>2. a \in 1 .. n /\ a # m  BY <1>1, <1>6
    <3>3. x = L[a]  BY <1>5, <3>1
    <3> HIDE DEF a
    <3> QED  BY <1>1, <1>2, <1>4, <3>2, <3>3
  <2>3. ASSUME NEW x \in ToSet(L), x # L[m] PROVE x \in ToSet(M)
    <3>1. PICK i \in 1 .. n : x = L[i]  BY <1>2, <2>3
    <3>2. i # m  BY <2>3, <3>1
    <3>3. CASE i < m
      <4>1. i \in 1 .. n - 1  BY <1>1, <3>3
      <4>2. M[i] = x  BY <1>5, <3>1, <3>3, <4>1
      <4> QED  BY <2>1, <4>1, <4>2
    <3>4. CASE ~(i < m)
      <4>1. i - 1 \in 1 .. n - 1 /\ ~(i - 1 < m) /\ i - 1 + 1 = i  BY <1>1, <3>2, <3>4
      <4>2. M[i - 1] = x  BY <1>5, <3>1, <4>1
      <4> QED  BY <2>1, <4>1, <4>2
    <3> QED  BY <3>3, <3>4
  <2> QED  BY <2>2, <2>3
<1> QED  BY <1>7, <1>8, <1>9 DEF n, M

(* _helios_sched_node_detach of a member of a ring. *)
LEMMA DetachRing ==
  ASSUME NEW links \in Links, NEW head, NEW L, Ring(links, head, L),
         NEW m \in 1 .. Len(L), NEW t, t = L[m]
  PROVE  /\ NullTcb \notin {links.next[t], links.prev[t]}
         /\ Ring(Detach(links, t),
                 IF t # head THEN head
                 ELSE IF links.next[t] = t /\ links.prev[t] = t THEN NullTcb ELSE links.next[t],
                 Removed(L, m))
<1> DEFINE n == Len(L)
           M == Removed(L, m)
           R == Detach(links, t)
           nm == IF m = n THEN 1 ELSE m + 1
           pm == IF m = 1 THEN n ELSE m - 1
           h2 == IF t # head THEN head
                 ELSE IF links.next[t] = t /\ links.prev[t] = t THEN NullTcb ELSE links.next[t]
<1>1. L \in Seq(Tcbs) /\ Once(L) /\ (Len(L) # 0 => head = L[1])  BY DEF Ring
<1>2. n \in Nat /\ n > 0 /\ m \in 1 .. n /\ (\A i \in 1 .. n : L[i] \in Tcbs) /\ head = L[1]
  BY <1>1
<1>3. M \in Seq(Tcbs) /\ Len(M) = n - 1 /\ Once(M)  BY <1>1, RemovedIs
<1>4. \A i \in 1 .. n - 1 : M[i] = IF i < m THEN L[i] ELSE L[i + 1]  BY DEF Removed
<1>5. \A i, j \in 1 .. n : L[i] = L[j] => i = j  BY <1>1 DEF Once
<1>6. \A i \in 1 .. n : /\ links.next[L[i]] = L[IF i = n THEN 1 ELSE i + 1]
                        /\ links.prev[L[i]] = L[IF i = 1 THEN n ELSE i - 1]
  BY DEF Ring
<1>7. links.next \in [Tcbs -> Tcb0] /\ links.prev \in [Tcbs -> Tcb0]  BY DEF Links
<1>8. R = [next |-> [[links.next EXCEPT ![links.prev[t]] = links.next[t]] EXCEPT ![t] = NullTcb],
           prev |-> [[links.prev EXCEPT
                        ![[links.next EXCEPT ![links.prev[t]] = links.next[t]][t]] = links.prev[t]]
                      EXCEPT ![t] = NullTcb]]
  BY DEF Detach
<1> HIDE DEF n, M, R
<1>9. nm \in 1 .. n /\ pm \in 1 .. n  BY <1>2
<1>10. links.next[t] = L[nm] /\ links.prev[t] = L[pm]  BY <1>2, <1>6
<1> HIDE DEF nm, pm
<1>11. t \in Tcbs /\ L[nm] \in Tcbs /\ L[pm] \in Tcbs  BY <1>2, <1>9
<1>12. NullTcb \notin {links.next[t], links.prev[t]}  BY <1>10, <1>11, TcbsFinite
<1>13. CASE n = 1
  <2>1. m = 1 /\ nm = 1 /\ pm = 1 /\ t = head  BY <1>2, <1>13 DEF nm, pm
  <2>2. h2 = NullTcb  BY <1>2, <1>10, <2>1
  <2>3. Len(M) = 0  BY <1>3, <1>13
  <2> HIDE DEF h2
  <2>4. Ring(R, h2, M)
    <3>1. \A i \in 1 .. Len(M) : FALSE  BY <2>3
    <3> QED  BY <1>3, <2>2, <2>3, <3>1 DEF Ring
  <2> QED  BY <1>12, <2>4 DEF R, M, h2
<1>14. CASE n > 1
  <2>1. nm # m /\ pm # m  BY <1>2, <1>14 DEF nm, pm
  <2>2. L[nm] # t /\ L[pm] # t  BY <1>2, <1>5, <1>9, <2>1
  <2>3. [links.next EXCEPT ![links.prev[t]] = links.next[t]][t] = L[nm]
    BY <1>7, <1>10, <1>11, <2>2
  <2>4. /\ R.next = [[links.next EXCEPT ![L[pm]] = L[nm]] EXCEPT ![t] = NullTcb]
        /\ R.prev = [[links.prev EXCEPT ![L[nm]] = L[pm]] EXCEPT ![t] = NullTcb]
    BY <1>8, <1>10, <2>3
  <2>5. ASSUME NEW i \in 1 .. n, i # m
        PROVE  /\ R.next[L[i]] = L[IF i = pm THEN nm ELSE IF i = n THEN 1 ELSE i + 1]
               /\ R.prev[L[i]] = L[IF i = nm THEN pm ELSE IF i = 1 THEN n ELSE i - 1]
    <3>1. /\ L[i] \in Tcbs /\ L[i] # t
          /\ L[i] = L[pm] <=> i = pm
          /\ L[i] = L[nm] <=> i = nm
      BY <1>2, <1>5, <1>9, <2>5
    <3>2. R.next[L[i]] = IF L[i] = L[pm] THEN L[nm] ELSE links.next[L[i]]
      BY <1>7, <1>11, <2>4, <3>1
    <3>3. R.prev[L[i]] = IF L[i] = L[nm] THEN L[pm] ELSE links.prev[L[i]]
      BY <1>7, <1>11, <2>4, <3>1
    <3> QED  BY <1>6, <3>1, <3>2, <3>3
  <2>6. ASSUME NEW i \in 1 .. n - 1
        PROVE  /\ R.next[M[i]] = M[IF i = n - 1 THEN 1 ELSE i + 1]
               /\ R.prev[M[i]] = M[IF i = 1 THEN n - 1 ELSE i - 1]
    <3> DEFINE j == IF i < m THEN i ELSE i + 1
               a == IF i = n - 1 THEN 1 ELSE i + 1
               b == IF i = 1 THEN n - 1 ELSE i - 1
               u == IF j = pm THEN nm ELSE IF j = n THEN 1 ELSE j + 1
               v == IF j = nm THEN pm ELSE IF j = 1 THEN n ELSE j - 1
    <3>1. j \in 1 .. n /\ j # m /\ a \in 1 .. n - 1 /\ b \in 1 .. n - 1  BY <1>2, <1>14
    <3>2. u = IF a < m THEN a ELSE a + 1  BY <1>2, <1>14 DEF nm, pm
    <3>3. v = IF b < m THEN b ELSE b + 1  BY <1>2, <1>14 DEF nm, pm
    <3>4. M[i] = L[j]  BY <1>4
    <3>5. R.next[L[j]] = L[u] /\ R.prev[L[j]] = L[v]  BY <2>5, <3>1
    <3>6. M[a] = IF a < m THEN L[a] ELSE L[a + 1]  BY <1>4, <3>1
    <3>7. M[b] = IF b < m THEN L[b] ELSE L[b + 1]  BY <1>4, <3>1
    <3> HIDE DEF j, a, b, u, v
    <3>8. R.next[M[i]] = M[a] /\ R.prev[M[i]] = M[b]  BY <3>2, <3>3, <3>4, <3>5, <3>6, <3>7
    <3> QED  BY <3>8 DEF a, b
  <2>7. M[1] = h2
    <3>0. 1 \in 1 .. n - 1  BY <1>2, <1>14
    <3>1. CASE m = 1
      <4>1. t = head /\ nm = 2  BY <1>2, <1>14, <3>1 DEF nm
      <4>2. h2 = L[2]  BY <1>10, <2>2, <4>1
      <4>3. M[1] = L[1 + 1]  BY <1>4, <3>0, <3>1
      <4> QED  BY <4>2, <4>3
    <3>2. CASE m # 1
      <4>1. t # head  BY <1>2, <1>5, <3>2
      <4>2. h2 = L[1]  BY <1>2, <4>1
      <4>3. 1 < m  BY <1>2, <3>2
      <4>4. M[1] = L[1]  BY <1>4, <3>0, <4>3
      <4> QED  BY <4>2, <4>4
    <3> QED  BY <3>1, <3>2
  <2> HIDE DEF h2
  <2>8. Len(M) # 0  BY <1>2, <1>3, <1>14
  <2>9. Ring(R, h2, M)  BY <1>3, <2>6, <2>7, <2>8 DEF Ring
  <2> QED  BY <1>12, <2>9 DEF R, M, h2
<1> QED  BY <1>2, <1>13, <1>14

-----------------------------------------------------------------------------
(* The state changes of helios_sched.c. *)

(* The wait list is a ring of exactly the paused TCBs. *)
Waiting(s) == {t \in Tcbs : s.status[t] \in {"wait", "pause"}}
WaitOK(s) == \E W : Ring(s.wait, s.whead, W) /\ ToSet(W) = Waiting(s)

(* r has the ready list and the priorities of s. *)
SameReady(s, r) == r.ready = s.ready /\ r.rhead = s.rhead /\ r.prio = s.prio

LEMMA PauseIs ==
  ASSUME NEW s \in Kernel, s.fault = "none", NEW t \in Tcbs
  PROVE  LET r == SendToPause(s, t)
         IN  /\ r \in Kernel /\ SameReady(s, r) /\ r.fault = "none"
             /\ r.status = [s.status EXCEPT ![t] = "pause"]
             /\ WaitOK(s) => WaitOK(r)
<1>1. /\ s.status \in [Tcbs -> {"exit", "ready", "pause", "running"}]
      /\ s.wait \in Links /\ s.whead \in Tcb0
  BY DEF Kernel
<1>2. CASE s.status[t] = "pause"
  <2>1. SendToPause(s, t) = s  BY <1>2 DEF SendToPause
  <2>2. s.status = [s.status EXCEPT ![t] = "pause"]  BY <1>1, <1>2
  <2> QED  BY <2>1, <2>2 DEF SameReady
<1>3. CASE s.status[t] # "pause"
  <2> DEFINE w == IF s.whead = NullTcb THEN Alone(s.wait, t) ELSE InsertBefore(s.wait, s.whead, t)
             h == IF s.whead = NullTcb THEN t ELSE s.whead
             st == [s.status EXCEPT ![t] = "pause"]
             r == [s EXCEPT !.wait = w, !.whead = h, !.status = st]
  <2>1. SendToPause(s, t) = r  BY <1>3 DEF SendToPause
  <2>2. w \in Links /\ h \in Tcb0 /\ st \in [Tcbs -> {"exit", "ready", "pause", "running"}]
    <3>1. s.whead # NullTcb => s.whead \in Tcbs  BY <1>1 DEF Tcb0
    <3> QED  BY <1>1, <3>1, LinksKept DEF Tcb0
  <2> HIDE DEF w, h, st
  <2>3. /\ r \in Kernel /\ r.ready = s.ready /\ r.rhead = s.rhead /\ r.prio = s.prio
        /\ r.fault = s.fault /\ r.wait = w /\ r.whead = h /\ r.status = st
    BY <2>2 DEF Kernel
  <2> HIDE DEF r
  <2>4. ASSUME WaitOK(s) PROVE WaitOK(r)
    <3>1. PICK W : Ring(s.wait, s.whead, W) /\ ToSet(W) = Waiting(s)  BY <2>4 DEF WaitOK
    <3>2. W \in Seq(Tcbs) /\ Once(W) /\ Len(W) \in Nat  BY <3>1 DEF Ring
    <3>3. t \notin ToSet(W)  BY <1>1, <1>3, <3>1 DEF Waiting
    <3>4. Waiting(r) = Waiting(s) \cup {t}
      <4>1. \A u \in Tcbs : st[u] = IF u = t THEN "pause" ELSE s.status[u]  BY <1>1 DEF st
      <4> QED  BY <2>3, <4>1 DEF Waiting
    <3>5. CASE Len(W) = 0
      <4>1. s.whead = NullTcb /\ W = <<>>  BY <3>1, <3>2, <3>5, EmptySeq DEF Ring
      <4>2. ToSet(W) = {}  BY <3>2, <4>1, ToSetIs
      <4>3. w = Alone(s.wait, t) /\ h = t  BY <4>1 DEF w, h
      <4>4. Ring(r.wait, r.whead, <<t>>) /\ ToSet(<<t>>) = {t}  BY <1>1, <2>3, <4>3, AloneRing
      <4> QED  BY <3>1, <3>4, <4>2, <4>4 DEF WaitOK
    <3>6. CASE Len(W) > 0
      <4>1. s.whead = W[1] /\ W[1] \in Tcbs  BY <3>1, <3>2, <3>6 DEF Ring
      <4>2. w = InsertBefore(s.wait, W[1], t) /\ h = s.whead  BY <4>1, TcbsFinite DEF w, h
      <4> DEFINE m == Len(W) + 1
      <4>3. m \in 1 .. Len(W) + 1 /\ m # 1  BY <3>2, <3>6
      <4>4. W[1] = W[IF m = Len(W) + 1 THEN 1 ELSE m]  OBVIOUS
      <4> HIDE DEF m
      <4>5. Ring(w, IF m = 1 THEN t ELSE s.whead, Inserted(W, m, t))
        BY <1>1, <3>1, <3>3, <3>6, <4>2, <4>3, <4>4, InsertRing
      <4>6. Ring(r.wait, r.whead, Inserted(W, m, t))  BY <2>3, <4>2, <4>3, <4>5
      <4>7. ToSet(Inserted(W, m, t)) = ToSet(W) \cup {t}  BY <3>2, <3>3, <4>3, InsertedIs
      <4> QED  BY <3>1, <3>4, <4>6, <4>7 DEF WaitOK
    <3> QED  BY <3>2, <3>5, <3>6
  <2> QED  BY <2>1, <2>3, <2>4 DEF SameReady, st
<1> QED  BY <1>2, <1>3

LEMMA ResumeIs ==
  ASSUME NEW s \in Kernel, s.fault = "none", NEW t \in Tcbs
  PROVE  LET r == SendToResume(s, t)
         IN  /\ r \in Kernel /\ SameReady(s, r) /\ r.fault \in {"none", "null"}
             /\ r.fault = "null" => r.status = s.status
             /\ r.fault = "none" => r.status = IF s.status[t] = "pause"
                                               THEN [s.status EXCEPT ![t] = "ready"] ELSE s.status
             /\ WaitOK(s) => WaitOK(r) /\ r.fault = "none"
<1>1. /\ s.status \in [Tcbs -> {"exit", "ready", "pause", "running"}]
      /\ s.wait \in Links /\ s.whead \in Tcb0
      /\ s.wait.next \in [Tcbs -> Tcb0]
  BY DEF Kernel, Links
<1> DEFINE next == s.wait.next[t]
           prev == s.wait.prev[t]
<1>2. CASE s.status[t] # "pause"
  <2>1. s.status[t] \notin {"wait", "pause"}  BY <1>1, <1>2
  <2>2. SendToResume(s, t) = s  BY <2>1 DEF SendToResume
  <2> QED  BY <1>2, <2>2 DEF SameReady
<1>3. CASE s.status[t] = "pause" /\ NullTcb \in {next, prev}
  <2> DEFINE r == [s EXCEPT !.fault = "null"]
  <2>1. SendToResume(s, t) = r  BY <1>3 DEF SendToResume
  <2>2. /\ r \in Kernel /\ r.ready = s.ready /\ r.rhead = s.rhead /\ r.prio = s.prio
        /\ r.fault = "null" /\ r.status = s.status
    BY DEF Kernel
  <2> HIDE DEF r
  <2>3. ~WaitOK(s)
    <3> SUFFICES ASSUME NEW W, Ring(s.wait, s.whead, W), ToSet(W) = Waiting(s) PROVE FALSE
      BY DEF WaitOK
    <3>1. t \in ToSet(W)  BY <1>3 DEF Waiting
    <3>2. W \in Seq(Tcbs)  BY DEF Ring
    <3>3. PICK m \in 1 .. Len(W) : t = W[m]  BY <3>1, <3>2, ToSetIs
    <3>4. NullTcb \notin {s.wait.next[t], s.wait.prev[t]}  BY <1>1, <3>3, DetachRing
    <3> QED  BY <1>3, <3>4
  <2> QED  BY <2>1, <2>2, <2>3 DEF SameReady
<1>4. CASE s.status[t] = "pause" /\ NullTcb \notin {next, prev}
  <2> DEFINE h == IF t # s.whead THEN s.whead
                  ELSE IF next = t /\ prev = t THEN NullTcb ELSE next
             w == Detach(s.wait, t)
             st == [s.status EXCEPT ![t] = "ready"]
             r == [s EXCEPT !.whead = h, !.wait = w, !.status = st]
  <2>1. SendToResume(s, t) = r  BY <1>4 DEF SendToResume
  <2>2. w \in Links /\ h \in Tcb0 /\ st \in [Tcbs -> {"exit", "ready", "pause", "running"}]
    <3>1. next \in Tcb0  BY <1>1
    <3> HIDE DEF next, prev
    <3> QED  BY <1>1, <3>1, LinksKept DEF Tcb0
  <2> HIDE DEF w, h, st
  <2>3. /\ r \in Kernel /\ r.ready = s.ready /\ r.rhead = s.rhead /\ r.prio = s.prio
        /\ r.fault = s.fault /\ r.wait = w /\ r.whead = h /\ r.status = st
    BY <2>2 DEF Kernel
  <2> HIDE DEF r
  <2>4. ASSUME WaitOK(s) PROVE WaitOK(r)
    <3>1. PICK W : Ring(s.wait, s.whead, W) /\ ToSet(W) = Waiting(s)  BY <2>4 DEF WaitOK
    <3>2. W \in Seq(Tcbs) /\ Once(W)  BY <3>1 DEF Ring
    <3>3. t \in ToSet(W)  BY <1>4, <3>1 DEF Waiting
    <3>4. PICK m \in 1 .. Len(W) : t = W[m]  BY <3>2, <3>3, ToSetIs
    <3>5. Waiting(r) = Waiting(s) \ {t}
      <4>1. \A u \in Tcbs : st[u] = IF u = t THEN "ready" ELSE s.status[u]  BY <1>1 DEF st
      <4> QED  BY <2>3, <4>1 DEF Waiting
    <3>6. Ring(w, h, Removed(W, m))
      BY <1>1, <3>1, <3>4, DetachRing DEF w, h
    <3>7. ToSet(Removed(W, m)) = ToSet(W) \ {t}  BY <3>2, <3>4, RemovedIs
    <3> QED  BY <2>3, <3>1, <3>5, <3>6, <3>7 DEF WaitOK
  <2> QED  BY <1>4, <2>1, <2>3, <2>4 DEF SameReady, st
<1> QED  BY <1>2, <1>3, <1>4

LEMMA KernelKept ==
  ASSUME NEW s \in Kernel, NEW t \in Tcbs
  PROVE  SendToPause(s, t) \in Kernel /\ SendToResume(s, t) \in Kernel
<1>1. CASE s.fault = "none"  BY <1>1, PauseIs, ResumeIs
<1>2. CASE s.fault # "none"
  BY <1>2 DEF SendToPause, SendToResume
<1> QED  BY <1>1, <1>2

(* The loop of helios_pause_all_task keeps what each of its steps keeps. *)
LEMMA PauseAllFold ==
  ASSUME NEW s \in Kernel, NEW L \in Seq(Tcbs), L = ReadyList(s),
         NEW inv, s \in inv[0],
         \A i \in 1 .. Len(L) : \A g \in Kernel : g \in inv[i - 1] => SendToPause(g, L[i]) \in inv[i]
  PROVE  PauseAll(s) \in Kernel /\ PauseAll(s) \in inv[Len(L)]
<1> DEFINE n == Len(L)
           step == [i \in 1 .. n |-> [g \in Kernel |-> SendToPause(g, L[i])]]
           F(f) == [z \in SUBSET DOMAIN L |->
                      IF z = {} THEN s ELSE SendToPause(f[z \ {Max(z)}], L[Max(z)])]
<1>1. n \in Nat /\ DOMAIN L = 1 .. n /\ \A i \in 1 .. n : L[i] \in Tcbs  OBVIOUS
<1>2. step \in [1 .. n -> [Kernel -> Kernel]]  BY <1>1, KernelKept
<1> HIDE DEF n
<1>3. \A z \in SUBSET (1 .. n) : z # {} => Max(z) \in 1 .. n
  BY <1>1, LargestNumber
<1>4. ASSUME NEW f, NEW z \in SUBSET (1 .. n), z # {}, f[z \ {Max(z)}] \in Kernel
      PROVE  step[Max(z)][f[z \ {Max(z)}]] = SendToPause(f[z \ {Max(z)}], L[Max(z)])
  BY <1>3, <1>4
<1>5. Keeps(inv, n, Kernel, step)  BY DEF n, Keeps
<1> HIDE DEF step
<1>6. PICK f : f \in [SUBSET (1 .. n) -> Kernel] /\ Follows(f, n, Kernel, s, step)
  BY <1>1, <1>2, FoldDefined
<1>7. f = F(f)
  <2>1. ASSUME NEW z \in SUBSET (1 .. n), z # {}
        PROVE  f[z] = SendToPause(f[z \ {Max(z)}], L[Max(z)])
    <3>1. z \ {Max(z)} \in SUBSET (1 .. n)  OBVIOUS
    <3>2. f[z \ {Max(z)}] \in Kernel  BY <1>6, <3>1
    <3>3. f[z] = step[Max(z)][f[z \ {Max(z)}]]  BY <1>6, <2>1, <3>2 DEF Follows
    <3> QED  BY <1>4, <2>1, <3>2, <3>3
  <2>2. {} \in SUBSET (1 .. n) /\ f[{}] = s  BY <1>6 DEF Follows
  <2> QED  BY <1>1, <1>6, <2>1, <2>2
<1>8. PauseAll(s) = (CHOOSE h : h = F(h))[DOMAIN L]
  BY DEF PauseAll, FoldLeft, MapThenFoldSet
<1>9. PICK h : h = F(h) /\ PauseAll(s) = h[1 .. n]
  <2> HIDE DEF F
  <2> QED  BY <1>1, <1>7, <1>8
<1>10. h[{}] = s
  <2>1. {} \in SUBSET DOMAIN L  OBVIOUS
  <2> QED  BY <1>9, <2>1
<1>11. ASSUME NEW z \in SUBSET (1 .. n), z # {}, h[z \ {Max(z)}] \in Kernel
       PROVE  h[z] = step[Max(z)][h[z \ {Max(z)}]]
  <2>1. h[z] = SendToPause(h[z \ {Max(z)}], L[Max(z)])  BY <1>1, <1>9, <1>11
  <2> QED  BY <1>4, <1>11, <2>1
<1>12. Follows(h, n, Kernel, s, step)  BY <1>10, <1>11 DEF Follows
<1>13. h[1 .. n] \in Kernel /\ h[1 .. n] \in inv[n]
  BY <1>1, <1>2, <1>5, <1>12, FoldKeeps
<1> QED  BY <1>9, <1>13 DEF n

(* The same of the loop of helios_resume_all_task. *)
LEMMA ResumeAllFold ==
  ASSUME NEW s \in Kernel, NEW L \in Seq(Tcbs), ReadyList(s) # <<>>,
         L = Append(Tail(ReadyList(s)), Head(ReadyList(s))),
         NEW inv, s \in inv[0],
         \A i \in 1 .. Len(L) : \A g \in Kernel : g \in inv[i - 1] => SendToResume(g, L[i]) \in inv[i]
  PROVE  ResumeAll(s) \in Kernel /\ ResumeAll(s) \in inv[Len(L)]
<1> DEFINE n == Len(L)
           step == [i \in 1 .. n |-> [g \in Kernel |-> SendToResume(g, L[i])]]
           F(f) == [z \in SUBSET DOMAIN L |->
                      IF z = {} THEN s ELSE SendToResume(f[z \ {Max(z)}], L[Max(z)])]
<1>1. n \in Nat /\ DOMAIN L = 1 .. n /\ \A i \in 1 .. n : L[i] \in Tcbs  OBVIOUS
<1>2. step \in [1 .. n -> [Kernel -> Kernel]]  BY <1>1, KernelKept
<1> HIDE DEF n
<1>3. \A z \in SUBSET (1 .. n) : z # {} => Max(z) \in 1 .. n
  BY <1>1, LargestNumber
<1>4. ASSUME NEW f, NEW z \in SUBSET (1 .. n), z # {}, f[z \ {Max(z)}] \in Kernel
      PROVE  step[Max(z)][f[z \ {Max(z)}]] = SendToResume(f[z \ {Max(z)}], L[Max(z)])
  BY <1>3, <1>4
<1>5. Keeps(inv, n, Kernel, step)  BY DEF n, Keeps
<1> HIDE DEF step
<1>6. PICK f : f \in [SUBSET (1 .. n) -> Kernel] /\ Follows(f, n, Kernel, s, step)
  BY <1>1, <1>2, FoldDefined
<1>7. f = F(f)
  <2>1. ASSUME NEW z \in SUBSET (1 .. n), z # {}
        PROVE  f[z] = SendToResume(f[z \ {Max(z)}], L[Max(z)])
    <3>1. z \ {Max(z)} \in SUBSET (1 .. n)  OBVIOUS
    <3>2. f[z \ {Max(z)}] \in Kernel  BY <1>6, <3>1
    <3>3. f[z] = step[Max(z)][f[z \ {Max(z)}]]  BY <1>6, <2>1, <3>2 DEF Follows
    <3> QED  BY <1>4, <2>1, <3>2, <3>3
  <2>2. {} \in SUBSET (1 .. n) /\ f[{}] = s  BY <1>6 DEF Follows
  <2> QED  BY <1>1, <1>6, <2>1, <2>2
<1>8. ResumeAll(s) = (CHOOSE h : h = F(h))[DOMAIN L]
  BY DEF ResumeAll, FoldLeft, MapThenFoldSet
<1>9. PICK h : h = F(h) /\ ResumeAll(s) = h[1 .. n]
  <2> HIDE DEF F
  <2> QED  BY <1>1, <1>7, <1>8
<1>10. h[{}] = s
  <2>1. {} \in SUBSET DOMAIN L  OBVIOUS
  <2> QED  BY <1>9, <2>1
<1>11. ASSUME NEW z \in SUBSET (1 .. n), z # {}, h[z \ {Max(z)}] \in Kernel
       PROVE  h[z] = step[Max(z)][h[z \ {Max(z)}]]
  <2>1. h[z] = SendToResume(h[z \ {Max(z)}], L[Max(z)])  BY <1>1, <1>9, <1>11
  <2> QED  BY <1>4, <1>11, <2>1
<1>12. Follows(h, n, Kernel, s, step)  BY <1>10, <1>11 DEF Follows
<1>13. h[1 .. n] \in Kernel /\ h[1 .. n] \in inv[n]
  BY <1>1, <1>2, <1>5, <1>12, FoldKeeps
<1> QED  BY <1>9, <1>13 DEF n


(* g is s with the TCBs of S paused. *)
Pausing(s, g, S) ==
  /\ SameReady(s, g) /\ g.fault = "none" /\ (WaitOK(s) => WaitOK(g))
  /\ g.status = [u \in Tcbs |-> IF u \in S THEN "pause" ELSE s.status[u]]

(* g is s with the paused TCBs of S resumed, or what a broken wait list    *)
(* makes of that.                                                          *)
Resuming(s, g, S) ==
  /\ SameReady(s, g) /\ g.fault \in {"none", "null"}
  /\ WaitOK(s) => WaitOK(g) /\ g.fault = "none"
  /\ g.fault = "none" =>
       g.status = [u \in Tcbs |-> IF u \in S /\ s.status[u] = "pause" THEN "ready" ELSE s.status[u]]
  /\ \A u \in Tcbs : g.status[u] \in {s.status[u], "ready"}

LEMMA PauseOne ==
  ASSUME NEW s \in Kernel, NEW g \in Kernel, NEW S, Pausing(s, g, S), NEW t \in Tcbs
  PROVE  Pausing(s, SendToPause(g, t), S \cup {t})
<1> DEFINE r == SendToPause(g, t)
<1>1. g.fault = "none"  BY DEF Pausing
<1>2. /\ r \in Kernel /\ SameReady(g, r) /\ r.fault = "none"
      /\ r.status = [g.status EXCEPT ![t] = "pause"] /\ (WaitOK(g) => WaitOK(r))
  BY <1>1, PauseIs
<1> HIDE DEF r
<1>3. g.status = [u \in Tcbs |-> IF u \in S THEN "pause" ELSE s.status[u]]  BY DEF Pausing
<1>4. r.status = [u \in Tcbs |-> IF u \in S \cup {t} THEN "pause" ELSE s.status[u]]
  BY <1>2, <1>3
<1>5. SameReady(s, r) /\ (WaitOK(s) => WaitOK(r))  BY <1>2 DEF SameReady, Pausing
<1>6. Pausing(s, r, S \cup {t})  BY <1>2, <1>4, <1>5 DEF Pausing
<1> QED  BY <1>6 DEF r

LEMMA ResumeOne ==
  ASSUME NEW s \in Kernel, NEW g \in Kernel, NEW S, Resuming(s, g, S), NEW t \in Tcbs
  PROVE  Resuming(s, SendToResume(g, t), S \cup {t})
<1> DEFINE r == SendToResume(g, t)
<1>1. CASE g.fault = "none"
  <2>1. /\ r \in Kernel /\ SameReady(g, r) /\ r.fault \in {"none", "null"}
        /\ r.fault = "null" => r.status = g.status
        /\ r.fault = "none" => r.status = IF g.status[t] = "pause"
                                          THEN [g.status EXCEPT ![t] = "ready"] ELSE g.status
        /\ WaitOK(g) => WaitOK(r) /\ r.fault = "none"
    BY <1>1, ResumeIs
  <2> HIDE DEF r
  <2>2. g.status = [u \in Tcbs |-> IF u \in S /\ s.status[u] = "pause" THEN "ready" ELSE s.status[u]]
    BY <1>1 DEF Resuming
  <2>3. SameReady(s, r) /\ (WaitOK(s) => WaitOK(r) /\ r.fault = "none")
    BY <1>1, <2>1 DEF SameReady, Resuming
  <2>4. ASSUME r.fault = "none"
        PROVE  r.status = [u \in Tcbs |-> IF u \in S \cup {t} /\ s.status[u] = "pause"
                                          THEN "ready" ELSE s.status[u]]
    <3>1. CASE g.status[t] = "pause"
      <4>1. r.status = [g.status EXCEPT ![t] = "ready"]  BY <2>1, <2>4, <3>1
      <4>2. s.status[t] = "pause"  BY <2>2, <3>1
      <4> QED  BY <2>2, <4>1, <4>2
    <3>2. CASE g.status[t] # "pause"
      <4>1. r.status = g.status  BY <2>1, <2>4, <3>2
      <4>2. t \in S \/ s.status[t] # "pause"  BY <2>2, <3>2
      <4>3. ASSUME NEW u \in Tcbs
            PROVE  (u \in S /\ s.status[u] = "pause") <=> (u \in S \cup {t} /\ s.status[u] = "pause")
        BY <4>2
      <4> QED  BY <2>2, <4>1, <4>3
    <3> QED  BY <3>1, <3>2
  <2>5. \A u \in Tcbs : g.status[u] \in {s.status[u], "ready"}  BY DEF Resuming
  <2>6. \A u \in Tcbs : r.status[u] \in {s.status[u], "ready"}
    <3>1. CASE r.fault = "null"  BY <2>1, <2>5, <3>1
    <3>2. CASE r.fault = "none"  BY <2>4, <3>2
    <3> QED  BY <2>1, <3>1, <3>2
  <2>7. Resuming(s, r, S \cup {t})  BY <2>1, <2>3, <2>4, <2>6 DEF Resuming
  <2> QED  BY <2>7 DEF r
<1>2. CASE g.fault = "null"
  <2>1. r = g  BY <1>2 DEF SendToResume
  <2>2. Resuming(s, g, S \cup {t})  BY <1>2 DEF Resuming
  <2> QED  BY <2>1, <2>2
<1> QED  BY <1>1, <1>2 DEF Resuming

(* The first i members of a list. *)
LEMMA FirstMembers ==
  ASSUME NEW L \in Seq(Tcbs)
  PROVE  /\ {L[j] : j \in 1 .. 0} = {} /\ {L[j] : j \in 1 .. Len(L)} = ToSet(L)
         /\ \A i \in 1 .. Len(L) : {L[j] : j \in 1 .. i} = {L[j] : j \in 1 .. i - 1} \cup {L[i]}
<1>1. {L[j] : j \in 1 .. Len(L)} = ToSet(L)  BY ToSetIs
<1>2. ASSUME NEW i \in 1 .. Len(L)
      PROVE  {L[j] : j \in 1 .. i} = {L[j] : j \in 1 .. i - 1} \cup {L[i]}
  <2>1. \A j \in 1 .. i : j \in 1 .. i - 1 \/ j = i  OBVIOUS
  <2>2. i \in 1 .. i /\ \A j \in 1 .. i - 1 : j \in 1 .. i  OBVIOUS
  <2> QED  BY <2>1, <2>2
<1>3. {L[j] : j \in 1 .. 0} = {}  OBVIOUS
<1> QED  BY <1>1, <1>2, <1>3

(* helios_pause_all_task pauses every TCB of the ready list. *)
LEMMA PauseAllIs ==
  ASSUME NEW s \in Kernel, s.fault = "none", NEW L, Ring(s.ready, s.rhead, L)
  PROVE  PauseAll(s) \in Kernel /\ Pausing(s, PauseAll(s), ToSet(L))
<1> DEFINE n == Len(L)
           inv == [i \in 0 .. n |-> {g \in Kernel : Pausing(s, g, {L[j] : j \in 1 .. i})}]
<1>1. L \in Seq(Tcbs) /\ L = ReadyList(s)  BY ReadyIs DEF Ring
<1>2. n \in Nat /\ \A i \in 1 .. n : L[i] \in Tcbs  BY <1>1
<1>3. \A i \in 0 .. n : inv[i] = {g \in Kernel : Pausing(s, g, {L[j] : j \in 1 .. i})}  OBVIOUS
<1> HIDE DEF inv
<1>4. s \in inv[0]
  <2>1. s.status \in [Tcbs -> {"exit", "ready", "pause", "running"}]  BY DEF Kernel
  <2>2. s.status = [u \in Tcbs |-> s.status[u]]  BY <2>1
  <2>3. Pausing(s, s, {})  BY <2>2 DEF Pausing, SameReady
  <2>4. 0 \in 0 .. n  BY <1>2
  <2>5. Pausing(s, s, {L[j] : j \in 1 .. 0})  BY <1>1, <2>3, FirstMembers
  <2> QED  BY <1>3, <2>4, <2>5
<1>5. ASSUME NEW i \in 1 .. n, NEW g \in Kernel, g \in inv[i - 1]
      PROVE  SendToPause(g, L[i]) \in inv[i]
  <2>1. i - 1 \in 0 .. n /\ i \in 0 .. n  BY <1>2
  <2>2. Pausing(s, g, {L[j] : j \in 1 .. i - 1})  BY <1>3, <1>5, <2>1
  <2>3. {L[j] : j \in 1 .. i} = {L[j] : j \in 1 .. i - 1} \cup {L[i]}  BY <1>1, FirstMembers
  <2>4. Pausing(s, SendToPause(g, L[i]), {L[j] : j \in 1 .. i})
    BY <1>2, <2>2, <2>3, PauseOne
  <2>5. SendToPause(g, L[i]) \in Kernel  BY <1>2, KernelKept
  <2> QED  BY <1>3, <2>1, <2>4, <2>5
<1>6. PauseAll(s) \in Kernel /\ PauseAll(s) \in inv[n]  BY <1>1, <1>4, <1>5, PauseAllFold
<1>7. n \in 0 .. n  BY <1>2
<1>8. Pausing(s, PauseAll(s), {L[j] : j \in 1 .. n})  BY <1>3, <1>6, <1>7
<1> QED  BY <1>1, <1>6, <1>8, FirstMembers

(* A list behind its head, and then its head. *)
LEMMA Rotated ==
  ASSUME NEW L \in Seq(Tcbs), L # <<>>
  PROVE  Append(Tail(L), Head(L)) \in Seq(Tcbs) /\ ToSet(Append(Tail(L), Head(L))) = ToSet(L)
<1> DEFINE n == Len(L)
           q == Tail(L)
<1>1. n \in Nat /\ n > 0 /\ \A i \in 1 .. n : L[i] \in Tcbs  BY EmptySeq
<1>2. q \in Seq(Tcbs) /\ Len(q) = n - 1 /\ \A i \in 1 .. n - 1 : q[i] = L[i + 1]
  BY HeadTailProperties
<1>3. Head(L) = L[1] /\ 1 \in 1 .. n /\ L[1] \in Tcbs  BY <1>1
<1> HIDE DEF n, q
<1>4. ToSet(L) = {L[i] : i \in 1 .. n}  BY ToSetIs DEF n
<1>5. ToSet(q) = {q[i] : i \in 1 .. n - 1}  BY <1>2, ToSetIs
<1>6. Append(q, L[1]) \in Seq(Tcbs) /\ ToSet(Append(q, L[1])) = ToSet(q) \cup {L[1]}
  BY <1>2, <1>3, ToSetIs
<1>7. ToSet(q) \cup {L[1]} = ToSet(L)
  <2>1. ASSUME NEW x \in ToSet(q) PROVE x \in ToSet(L)
    <3>1. PICK i \in 1 .. n - 1 : x = q[i]  BY <1>5, <2>1
    <3>2. i + 1 \in 1 .. n /\ x = L[i + 1]  BY <1>1, <1>2, <3>1
    <3> QED  BY <1>4, <3>2
  <2>2. ASSUME NEW x \in ToSet(L), x # L[1] PROVE x \in ToSet(q)
    <3>1. PICK i \in 1 .. n : x = L[i]  BY <1>4, <2>2
    <3>2. i - 1 \in 1 .. n - 1 /\ i - 1 + 1 = i  BY <1>1, <2>2, <3>1
    <3>3. q[i - 1] = x  BY <1>2, <3>1, <3>2
    <3> QED  BY <1>5, <3>2, <3>3
  <2>3. L[1] \in ToSet(L)  BY <1>3, <1>4
  <2> QED  BY <2>1, <2>2, <2>3
<1> QED  BY <1>3, <1>6, <1>7 DEF q

(* helios_resume_all_task resumes every paused TCB of the ready list. *)
LEMMA ResumeAllIs ==
  ASSUME NEW s \in Kernel, NEW L, Ring(s.ready, s.rhead, L)
  PROVE  /\ ResumeAll(s) \in Kernel
         /\ s.fault = "none" => Resuming(s, ResumeAll(s), ToSet(L))
         /\ s.fault # "none" => ResumeAll(s) = s
<1>1. L \in Seq(Tcbs) /\ L = ReadyList(s)  BY ReadyIs DEF Ring
<1>2. s.status \in [Tcbs -> {"exit", "ready", "pause", "running"}]  BY DEF Kernel
<1>3. s.status = [u \in Tcbs |-> s.status[u]]  BY <1>2
<1>4. s.fault = "none" => Resuming(s, s, {})  BY <1>3 DEF Resuming, SameReady
<1>5. CASE L = <<>>
  <2>1. ResumeAll(s) = s  BY <1>1, <1>5 DEF ResumeAll
  <2>2. ToSet(L) = {}  BY <1>1, <1>5, ToSetIs
  <2> QED  BY <1>4, <2>1, <2>2
<1>6. CASE L # <<>>
  <2> DEFINE Q == Append(Tail(L), Head(L))
             n == Len(Q)
             inv == [i \in 0 .. n |-> {g \in Kernel : Resuming(s, g, {Q[j] : j \in 1 .. i})}]
  <2>1. Q \in Seq(Tcbs) /\ ToSet(Q) = ToSet(L)  BY <1>1, <1>6, Rotated
  <2>0. ReadyList(s) # <<>> /\ Q = Append(Tail(ReadyList(s)), Head(ReadyList(s)))  BY <1>1, <1>6
  <2> HIDE DEF Q
  <2>2. n \in Nat /\ \A i \in 1 .. n : Q[i] \in Tcbs  BY <2>1
  <2>3. \A i \in 0 .. n : inv[i] = {g \in Kernel : Resuming(s, g, {Q[j] : j \in 1 .. i})}  OBVIOUS
  <2> HIDE DEF inv
  <2>4. CASE s.fault = "none"
    <3>1. s \in inv[0]
      <4>1. 0 \in 0 .. n  BY <2>2
      <4>2. Resuming(s, s, {Q[j] : j \in 1 .. 0})  BY <1>4, <2>1, <2>4, FirstMembers
      <4> QED  BY <2>3, <4>1, <4>2
    <3>2. ASSUME NEW i \in 1 .. n, NEW g \in Kernel, g \in inv[i - 1]
          PROVE  SendToResume(g, Q[i]) \in inv[i]
      <4>1. i - 1 \in 0 .. n /\ i \in 0 .. n  BY <2>2
      <4>2. Resuming(s, g, {Q[j] : j \in 1 .. i - 1})  BY <2>3, <3>2, <4>1
      <4>3. {Q[j] : j \in 1 .. i} = {Q[j] : j \in 1 .. i - 1} \cup {Q[i]}  BY <2>1, FirstMembers
      <4>4. Resuming(s, SendToResume(g, Q[i]), {Q[j] : j \in 1 .. i})
        BY <2>2, <4>2, <4>3, ResumeOne
      <4>5. SendToResume(g, Q[i]) \in Kernel  BY <2>2, KernelKept
      <4> QED  BY <2>3, <4>1, <4>4, <4>5
    <3>3. ResumeAll(s) \in Kernel /\ ResumeAll(s) \in inv[n]
      BY <2>0, <2>1, <3>1, <3>2, ResumeAllFold
    <3>4. n \in 0 .. n  BY <2>2
    <3>5. Resuming(s, ResumeAll(s), {Q[j] : j \in 1 .. n})  BY <2>3, <3>3, <3>4
    <3> QED  BY <2>1, <2>4, <3>3, <3>5, FirstMembers
  <2>5. CASE s.fault # "none"
    <3> DEFINE same == [i \in 0 .. n |-> {s}]
    <3>1. s \in same[0]  BY <2>2
    <3>2. ASSUME NEW i \in 1 .. n, NEW g \in Kernel, g \in same[i - 1]
          PROVE  SendToResume(g, Q[i]) \in same[i]
      <4>1. i - 1 \in 0 .. n /\ i \in 0 .. n  BY <2>2
      <4>2. g = s  BY <3>2, <4>1
      <4>3. SendToResume(g, Q[i]) = s  BY <2>5, <4>2 DEF SendToResume
      <4> QED  BY <4>1, <4>3
    <3>3. n \in 0 .. n  BY <2>2
    <3>4. same[n] = {s}  BY <3>3
    <3> HIDE DEF same
    <3>5. ResumeAll(s) \in Kernel /\ ResumeAll(s) \in same[n]
      BY <2>0, <2>1, <3>1, <3>2, ResumeAllFold
    <3> QED  BY <2>5, <3>4, <3>5
  <2> QED  BY <2>4, <2>5
<1> QED  BY <1>5, <1>6

-----------------------------------------------------------------------------
(* The order of the ready list. *)

(* The position of t in o. *)
AgeIn(o, t) == CHOOSE i \in DOMAIN o : o[i] = t

(* L is in ascending priority and, among equals, in the order of o. *)
Sorted(prio, L, o) ==
  \A i, j \in 1 .. Len(L) : i < j =>
    \/ prio[L[i]] < prio[L[j]]
    \/ prio[L[i]] = prio[L[j]] /\ AgeIn(o, L[i]) < AgeIn(o, L[j])

(* The ready list is a sorted ring of the TCBs of o. *)
ReadyRing(s, o, L) ==
  /\ Ring(s.ready, s.rhead, L)
  /\ ToSet(L) = ToSet(o) /\ Len(L) = Len(o)
  /\ Sorted(s.prio, L, o)
ReadyOK(s, o) == \E L : ReadyRing(s, o, L)

LEMMA AgeIs ==
  ASSUME NEW o \in Seq(Tcbs), Once(o), NEW x \in Tcbs, x \notin ToSet(o)
  PROVE  /\ Append(o, x) \in Seq(Tcbs) /\ Once(Append(o, x)) /\ Len(Append(o, x)) = Len(o) + 1
         /\ ToSet(Append(o, x)) = ToSet(o) \cup {x}
         /\ AgeIn(Append(o, x), x) = Len(o) + 1
         /\ \A t \in ToSet(o) : AgeIn(Append(o, x), t) = AgeIn(o, t) /\ AgeIn(o, t) \in 1 .. Len(o)
<1> DEFINE n == Len(o)
           q == Append(o, x)
<1>1. n \in Nat /\ DOMAIN o = 1 .. n /\ \A i \in 1 .. n : o[i] \in Tcbs  OBVIOUS
<1>2. /\ q \in Seq(Tcbs) /\ Len(q) = n + 1 /\ q[n + 1] = x
      /\ \A i \in 1 .. n : q[i] = o[i]
  BY AppendProperties
<1>3. ToSet(q) = ToSet(o) \cup {x} /\ ToSet(o) = {o[i] : i \in 1 .. n}  BY ToSetIs
<1>4. \A i, j \in 1 .. n : o[i] = o[j] => i = j  BY DEF Once
<1> HIDE DEF n, q
<1>5. DOMAIN q = 1 .. n + 1  BY <1>2
<1>6. \A i \in 1 .. n + 1 : i \in 1 .. n \/ i = n + 1  BY <1>1
<1>7. \A i \in 1 .. n : o[i] # x  BY <1>3
<1>8. n + 1 \in 1 .. n + 1 /\ n + 1 \notin 1 .. n  BY <1>1
<1>9. \A i, j \in 1 .. n + 1 : q[i] = q[j] => i = j  BY <1>2, <1>4, <1>6, <1>7
<1>10. Once(q)  BY <1>2, <1>9 DEF Once
<1>11. AgeIn(q, x) = n + 1
  <2>1. \A i \in 1 .. n + 1 : q[i] = x <=> i = n + 1  BY <1>2, <1>6, <1>7, <1>8
  <2> QED  BY <1>5, <1>8, <2>1 DEF AgeIn
<1>12. ASSUME NEW t \in ToSet(o) PROVE AgeIn(q, t) = AgeIn(o, t) /\ AgeIn(o, t) \in 1 .. n
  <2>1. PICK a \in 1 .. n : o[a] = t  BY <1>3, <1>12
  <2>2. \A i \in 1 .. n : o[i] = t <=> i = a  BY <1>4, <2>1
  <2>3. AgeIn(o, t) = a  BY <1>1, <2>1, <2>2 DEF AgeIn
  <2>4. a \in 1 .. n + 1 /\ \A i \in 1 .. n + 1 : q[i] = t <=> i = a
    BY <1>1, <1>2, <1>6, <1>7, <2>1, <2>2
  <2>5. AgeIn(q, t) = a  BY <1>5, <2>4 DEF AgeIn
  <2> QED  BY <2>3, <2>5
<1> QED  BY <1>2, <1>3, <1>10, <1>11, <1>12 DEF n, q

(* A new TCB put behind those of its priority and of lower ones. *)
LEMMA InsertSorted ==
  ASSUME NEW o \in Seq(Tcbs), Once(o), NEW L \in Seq(Tcbs), ToSet(L) = ToSet(o), Len(L) = Len(o),
         NEW prio \in [Tcbs -> Nat], Sorted(prio, L, o),
         NEW t \in Tcbs, t \notin ToSet(o), NEW p \in Nat, NEW m \in 1 .. Len(L) + 1,
         \A i \in 1 .. Len(L) : i < m => prio[L[i]] <= p,
         m <= Len(L) => prio[L[m]] > p
  PROVE  Sorted([prio EXCEPT ![t] = p], Inserted(L, m, t), Append(o, t))
<1> DEFINE n == Len(L)
           M == Inserted(L, m, t)
           pr == [prio EXCEPT ![t] = p]
           q == Append(o, t)
<1>1. n \in Nat /\ m \in 1 .. n + 1 /\ \A i \in 1 .. n : L[i] \in Tcbs /\ L[i] \in ToSet(o)
  <2>1. ToSet(L) = {L[i] : i \in 1 .. n}  BY ToSetIs
  <2> QED  BY <2>1
<1>2. \A i \in 1 .. n + 1 : M[i] = IF i < m THEN L[i] ELSE IF i = m THEN t ELSE L[i - 1]
  BY DEF Inserted
<1>3. Len(M) = n + 1
  <2>1. M = [i \in 1 .. n + 1 |-> M[i]] /\ n + 1 \in Nat  BY <1>1 DEF Inserted
  <2> HIDE DEF M
  <2> QED  BY <2>1
<1>4. /\ pr[t] = p /\ \A i \in 1 .. n : L[i] # t /\ pr[L[i]] = prio[L[i]] /\ prio[L[i]] \in Nat
  BY <1>1
<1>5. AgeIn(q, t) = n + 1 /\ \A i \in 1 .. n : AgeIn(q, L[i]) = AgeIn(o, L[i]) /\ AgeIn(o, L[i]) \in 1 .. n
  BY <1>1, AgeIs
<1>6. \A i, j \in 1 .. n : i < j =>
        \/ prio[L[i]] < prio[L[j]]
        \/ prio[L[i]] = prio[L[j]] /\ AgeIn(o, L[i]) < AgeIn(o, L[j])
  BY DEF Sorted
<1>7. /\ \A i \in 1 .. n : i < m => prio[L[i]] <= p
      /\ m <= n => prio[L[m]] > p
  OBVIOUS
<1> HIDE DEF n, M, pr, q
<1>8. \A i \in 1 .. n : i >= m => prio[L[i]] > p
  <2> TAKE i \in 1 .. n
  <2> HAVE i >= m
  <2>1. m \in 1 .. n /\ m <= n  BY <1>1
  <2>2. CASE i = m  BY <1>7, <2>1, <2>2
  <2>3. CASE i > m
    <3>1. prio[L[m]] <= prio[L[i]]  BY <1>4, <1>6, <2>1, <2>3
    <3> QED  BY <1>4, <1>7, <2>1, <3>1
  <2> QED  BY <1>1, <2>2, <2>3
<1>9. ASSUME NEW i \in 1 .. n + 1, NEW j \in 1 .. n + 1, i < j
      PROVE  \/ pr[M[i]] < pr[M[j]]
             \/ pr[M[i]] = pr[M[j]] /\ AgeIn(q, M[i]) < AgeIn(q, M[j])
  <2>1. CASE j = m
    <3>1. M[j] = t /\ M[i] = L[i] /\ i \in 1 .. n /\ i < m  BY <1>1, <1>2, <1>9, <2>1
    <3>2. prio[L[i]] <= p  BY <1>7, <3>1
    <3>3. pr[M[i]] <= pr[M[j]] /\ pr[M[i]] \in Nat /\ pr[M[j]] \in Nat  BY <1>4, <3>1, <3>2
    <3>4. AgeIn(q, M[i]) < AgeIn(q, M[j])
      <4>1. AgeIn(q, M[i]) \in 1 .. n /\ AgeIn(q, M[j]) = n + 1  BY <1>5, <3>1
      <4> QED  BY <1>1, <4>1
    <3> QED  BY <3>3, <3>4
  <2>2. CASE i = m
    <3>1. M[i] = t /\ M[j] = L[j - 1] /\ j - 1 \in 1 .. n /\ j - 1 >= m  BY <1>1, <1>2, <1>9, <2>2
    <3>2. prio[L[j - 1]] > p  BY <1>8, <3>1
    <3>3. pr[M[i]] < pr[M[j]]  BY <1>4, <3>1, <3>2
    <3> QED  BY <3>3
  <2>3. CASE i # m /\ j # m
    <3> DEFINE a == IF i < m THEN i ELSE i - 1
               b == IF j < m THEN j ELSE j - 1
    <3>0. n \in Nat /\ m \in 1 .. n + 1  BY <1>1
    <3>1. a \in 1 .. n /\ b \in 1 .. n /\ a < b  BY <1>9, <2>3, <3>0
    <3>2. M[i] = L[a] /\ M[j] = L[b]  BY <1>2, <2>3
    <3> HIDE DEF a, b
    <3>3. pr[L[a]] = prio[L[a]] /\ pr[L[b]] = prio[L[b]]  BY <1>4, <3>1
    <3>4. AgeIn(q, L[a]) = AgeIn(o, L[a]) /\ AgeIn(q, L[b]) = AgeIn(o, L[b])  BY <1>5, <3>1
    <3> QED  BY <1>6, <3>1, <3>2, <3>3, <3>4
  <2> QED  BY <2>1, <2>2, <2>3
<1>10. Sorted(pr, M, q)  BY <1>3, <1>9 DEF Sorted
<1> QED  BY <1>10 DEF pr, M, q

(* _helios_sched_send_back_of_task_prio of a new TCB, its priority set. *)
LEMMA BackIs ==
  ASSUME NEW s \in Kernel, NEW o \in Seq(Tcbs), Once(o), NEW L, ReadyRing(s, o, L), Len(L) > 0,
         NEW t \in Tcbs, t \notin ToSet(o), NEW p \in Nat,
         NEW s2 \in Kernel, s2.rhead = s.rhead, s2.ready = s.ready, s2.prio = [s.prio EXCEPT ![t] = p]
  PROVE  LET r == BackOfPriority(s2, t)
         IN  /\ r \in Kernel /\ r.wait = s2.wait /\ r.whead = s2.whead /\ r.status = s2.status
             /\ r.fault = s2.fault /\ ReadyOK(r, Append(o, t))
<1> DEFINE n == Len(L)
           higher == {i \in 1 .. n : s2.prio[L[i]] > p}
           m == IF higher = {} THEN n + 1 ELSE Min(higher)
           ref == IF higher = {} THEN s2.rhead ELSE L[Min(higher)]
           least == p < s2.prio[s2.rhead]
           h == IF least THEN t ELSE s2.rhead
           R == InsertBefore(s2.ready, ref, t)
           r == [s2 EXCEPT !.rhead = h, !.ready = R]
<1>1. /\ Ring(s.ready, s.rhead, L) /\ L \in Seq(Tcbs) /\ Once(L) /\ s.rhead = L[1]
      /\ ToSet(L) = ToSet(o) /\ n = Len(o) /\ Sorted(s.prio, L, o)
  BY DEF ReadyRing, Ring
<1>2. n \in Nat /\ n > 0 /\ DOMAIN L = 1 .. n /\ \A i \in 1 .. n : L[i] \in Tcbs  BY <1>1
<1>3. \A i \in 1 .. n : L[i] # t
  <2>1. ToSet(L) = {L[i] : i \in 1 .. n}  BY <1>1, ToSetIs
  <2> QED  BY <1>1, <2>1
<1>4. s.prio \in [Tcbs -> Nat] /\ s2.ready \in Links /\ s2.rhead \in Tcbs
  BY <1>1, <1>2 DEF Kernel
<1>5. s2.prio[t] = p /\ \A i \in 1 .. n : s2.prio[L[i]] = s.prio[L[i]] /\ s.prio[L[i]] \in Nat
  BY <1>2, <1>3, <1>4
<1>6. ReadyList(s2) = L  BY <1>1, ReadyIs
<1>7. BackOfPriority(s2, t) = r  BY <1>2, <1>5, <1>6 DEF BackOfPriority
<1>8. /\ m \in 1 .. n + 1
      /\ \A i \in 1 .. n : i < m => s.prio[L[i]] <= p
      /\ m <= n => s.prio[L[m]] > p
      /\ ref = L[IF m = n + 1 THEN 1 ELSE m]
  <2> HIDE DEF n
  <2>1. CASE higher = {}
    <3>1. m = n + 1 /\ ref = L[1]  BY <1>1, <2>1
    <3>2. \A i \in 1 .. n : ~(s2.prio[L[i]] > p)  BY <2>1
    <3>3. \A i \in 1 .. n : s.prio[L[i]] <= p  BY <1>5, <3>2
    <3> HIDE DEF m, ref
    <3> QED  BY <1>2, <3>1, <3>3
  <2>2. CASE higher # {}
    <3>1. higher \in SUBSET Nat  BY <1>2
    <3>2. m = Min(higher) /\ ref = L[m]  BY <2>2
    <3>3. Min(higher) \in higher /\ \A y \in higher : Min(higher) <= y
      <4> HIDE DEF higher
      <4> QED  BY <2>2, <3>1, LeastOf
    <3> HIDE DEF m, ref
    <3>4. m \in 1 .. n /\ s2.prio[L[m]] > p  BY <3>2, <3>3
    <3>5. ASSUME NEW i \in 1 .. n, i < m PROVE s.prio[L[i]] <= p
      <4>1. i \notin higher  BY <1>2, <3>2, <3>3, <3>4, <3>5
      <4>2. ~(s2.prio[L[i]] > p)  BY <4>1
      <4> QED  BY <1>5, <4>2
    <3>6. m \in 1 .. n + 1 /\ m # n + 1  BY <1>2, <3>4
    <3>7. s.prio[L[m]] > p  BY <1>5, <3>4
    <3> QED  BY <3>2, <3>5, <3>6, <3>7
  <2> QED  BY <2>1, <2>2
<1>9. h = IF m = 1 THEN t ELSE s.rhead
  <2>1. 1 \in 1 .. n /\ s2.rhead = L[1] /\ s.prio[L[1]] \in Nat /\ s2.prio[s2.rhead] = s.prio[L[1]]
    BY <1>1, <1>2, <1>5
  <2> HIDE DEF m
  <2>2. CASE m = 1
    <3>1. s.prio[L[1]] > p  BY <1>2, <1>8, <2>2
    <3> QED  BY <2>1, <2>2, <3>1
  <2>3. CASE m # 1
    <3>1. 1 < m  BY <1>8, <2>3
    <3>2. s.prio[L[1]] <= p  BY <1>8, <2>1, <3>1
    <3> QED  BY <2>1, <2>3, <3>2
  <2> QED  BY <2>2, <2>3
<1> HIDE DEF n, m, ref, higher, least
<1>10. ref \in Tcbs
  <2> DEFINE z == IF m = n + 1 THEN 1 ELSE m
  <2>1. z \in 1 .. n  BY <1>2, <1>8
  <2> HIDE DEF z
  <2>2. ref = L[z]  BY <1>8 DEF z
  <2> QED  BY <1>2, <2>1, <2>2
<1>11. R \in Links  BY <1>4, <1>10, LinksKept
<1>12. Ring(R, h, Inserted(L, m, t))
  <2>1. Ring(s2.ready, s2.rhead, L) /\ Len(L) > 0 /\ t \notin ToSet(L)  BY <1>1
  <2>2. m \in 1 .. Len(L) + 1 /\ ref = L[IF m = Len(L) + 1 THEN 1 ELSE m]  BY <1>8 DEF n
  <2> HIDE DEF R, h
  <2>3. Ring(InsertBefore(s2.ready, ref, t), IF m = 1 THEN t ELSE s2.rhead, Inserted(L, m, t))
    BY <1>4, <2>1, <2>2, InsertRing
  <2> QED  BY <1>9, <2>3 DEF R
<1>13. h \in Tcb0  BY <1>4 DEF Tcb0
<1> HIDE DEF h, R
<1>14. /\ r \in Kernel /\ r.wait = s2.wait /\ r.whead = s2.whead /\ r.status = s2.status
       /\ r.fault = s2.fault /\ r.prio = s2.prio /\ r.ready = R /\ r.rhead = h
  BY <1>11, <1>13 DEF Kernel
<1> HIDE DEF r
<1>15. Sorted(s2.prio, Inserted(L, m, t), Append(o, t))
  <2>1. m \in 1 .. Len(L) + 1 /\ (\A i \in 1 .. Len(L) : i < m => s.prio[L[i]] <= p)
        /\ (m <= Len(L) => s.prio[L[m]] > p) /\ Len(L) = Len(o)
    BY <1>1, <1>8 DEF n
  <2>2. Sorted([s.prio EXCEPT ![t] = p], Inserted(L, m, t), Append(o, t))
    BY <1>1, <1>4, <2>1, InsertSorted
  <2> QED  BY <2>2
<1>16. /\ Len(Inserted(L, m, t)) = Len(Append(o, t))
       /\ ToSet(Inserted(L, m, t)) = ToSet(Append(o, t))
  <2>1. m \in 1 .. Len(L) + 1 /\ t \notin ToSet(L) /\ Len(L) = Len(o)  BY <1>1, <1>8 DEF n
  <2>2. Len(Inserted(L, m, t)) = Len(L) + 1 /\ ToSet(Inserted(L, m, t)) = ToSet(L) \cup {t}
    BY <1>1, <2>1, InsertedIs
  <2>3. Len(Append(o, t)) = Len(o) + 1 /\ ToSet(Append(o, t)) = ToSet(o) \cup {t}  BY AgeIs
  <2> QED  BY <1>1, <2>1, <2>2, <2>3
<1>17. ReadyRing(r, Append(o, t), Inserted(L, m, t))
  BY <1>12, <1>14, <1>15, <1>16 DEF ReadyRing
<1>18. ReadyOK(r, Append(o, t))  BY <1>17 DEF ReadyOK
<1> QED  BY <1>7, <1>14, <1>18

(* r is s with the TCB t made ready and, unless the links of t were        *)
(* followed, put into the ready list.                                      *)
Linked(s, r, o, t) ==
  /\ r \in Kernel /\ r.wait = s.wait /\ r.whead = s.whead
  /\ r.status = [s.status EXCEPT ![t] = "ready"]
  /\ r.fault \in {"none", "wild"}
  /\ r.fault = "none" => ReadyOK(r, Append(o, t))
  /\ \E M : Ring(r.ready, r.rhead, M)

(* helios_add_task between its pause and its resume. *)
LEMMA LinkIs ==
  ASSUME NEW s \in Kernel, s.fault = "none", NEW o \in Seq(Tcbs), Once(o), NEW L, ReadyRing(s, o, L),
         NEW t \in Tcbs, t \notin ToSet(o), NEW p \in Nat, NEW clean \in BOOLEAN
  PROVE  Linked(s, LinkTask(s, t, p, clean), o, t)
<1> DEFINE pr == [s.prio EXCEPT ![t] = p]
           named == [s EXCEPT !.prio = pr]
           linked == IF s.rhead = NullTcb
                     THEN [named EXCEPT !.rhead = t, !.ready = Alone(s.ready, t)]
                     ELSE IF clean THEN BackOfPriority(named, t)
                     ELSE [named EXCEPT !.fault = "wild"]
           st == [s.status EXCEPT ![t] = "ready"]
           r == [linked EXCEPT !.status = st]
<1>1. /\ Ring(s.ready, s.rhead, L) /\ L \in Seq(Tcbs) /\ Once(L) /\ Len(L) \in Nat
      /\ ToSet(L) = ToSet(o) /\ Len(L) = Len(o) /\ Sorted(s.prio, L, o)
      /\ s.rhead = IF Len(L) = 0 THEN NullTcb ELSE L[1]
  BY DEF ReadyRing, Ring
<1>2. /\ s.prio \in [Tcbs -> Nat] /\ s.ready \in Links
      /\ s.status \in [Tcbs -> {"exit", "ready", "pause", "running"}]
  BY DEF Kernel
<1>3. pr \in [Tcbs -> Nat] /\ st \in [Tcbs -> {"exit", "ready", "pause", "running"}]  BY <1>2
<1>4. \/ s.rhead = NullTcb /\ Len(L) = 0
      \/ s.rhead \in Tcbs /\ s.rhead # NullTcb /\ Len(L) > 0
  <2>1. CASE Len(L) = 0  BY <1>1, <2>1
  <2>2. CASE Len(L) # 0  BY <1>1, <2>2, TcbsFinite
  <2> QED  BY <2>1, <2>2
<1> HIDE DEF pr
<1>5. /\ named \in Kernel /\ named.rhead = s.rhead /\ named.ready = s.ready /\ named.prio = pr
      /\ named.wait = s.wait /\ named.whead = s.whead /\ named.status = s.status
      /\ named.fault = "none"
  BY <1>3 DEF Kernel
<1>6. LinkTask(s, t, p, clean) = [linked EXCEPT !.status[t] = "ready"]  BY DEF LinkTask, pr
<1> HIDE DEF named
<1>7. /\ linked \in Kernel /\ linked.wait = s.wait /\ linked.whead = s.whead
      /\ linked.status = s.status /\ linked.fault \in {"none", "wild"}
      /\ linked.fault = "none" => ReadyOK(linked, Append(o, t))
      /\ \E M : Ring(linked.ready, linked.rhead, M)
  <2>1. CASE s.rhead = NullTcb
    <3> DEFINE a == Alone(s.ready, t)
               z == [named EXCEPT !.rhead = t, !.ready = a]
    <3>1. linked = z  BY <2>1
    <3>2. a \in Links  BY <1>2, LinksKept
    <3>3. Ring(a, t, <<t>>) /\ ToSet(<<t>>) = {t}  BY <1>2, AloneRing
    <3> HIDE DEF a
    <3>4. /\ z \in Kernel /\ z.rhead = t /\ z.ready = a /\ z.wait = named.wait
          /\ z.whead = named.whead /\ z.status = named.status /\ z.fault = named.fault
      BY <1>5, <3>2 DEF Kernel, Tcb0
    <3> HIDE DEF linked, z
    <3>5. Len(L) = 0  BY <1>4, <2>1
    <3>6. ToSet(o) = {} /\ o = <<>> /\ Len(o) = 0
      <4>1. o = <<>> /\ Len(o) = 0  BY <1>1, <3>5, EmptySeq
      <4> QED  BY <4>1, ToSetIs
    <3>7. ToSet(Append(o, t)) = {t} /\ Len(Append(o, t)) = 1
      <4>1. ToSet(Append(o, t)) = ToSet(o) \cup {t} /\ Len(Append(o, t)) = Len(o) + 1  BY AgeIs
      <4> QED  BY <3>6, <4>1
    <3>8. Sorted(z.prio, <<t>>, Append(o, t))
      <4>1. Len(<<t>>) = 1  OBVIOUS
      <4>2. \A i, j \in 1 .. Len(<<t>>) : ~(i < j)  BY <4>1
      <4> QED  BY <4>2 DEF Sorted
    <3>9. Len(<<t>>) = 1  OBVIOUS
    <3>10. ReadyRing(z, Append(o, t), <<t>>)  BY <3>3, <3>4, <3>7, <3>8, <3>9 DEF ReadyRing
    <3>11. ReadyOK(z, Append(o, t)) /\ \E M : Ring(z.ready, z.rhead, M)
      BY <3>10 DEF ReadyOK, ReadyRing
    <3> QED  BY <1>5, <3>1, <3>4, <3>11
  <2>2. CASE s.rhead # NullTcb /\ clean
    <3> DEFINE z == BackOfPriority(named, t)
    <3>1. linked = z  BY <2>2
    <3>2. named.prio = [s.prio EXCEPT ![t] = p] /\ Len(L) > 0  BY <1>4, <1>5, <2>2 DEF pr
    <3>3. /\ z \in Kernel /\ z.wait = named.wait /\ z.whead = named.whead
          /\ z.status = named.status /\ z.fault = named.fault /\ ReadyOK(z, Append(o, t))
      BY <1>5, <3>2, BackIs
    <3> HIDE DEF linked, z
    <3>4. \E M : Ring(z.ready, z.rhead, M)  BY <3>3 DEF ReadyOK, ReadyRing
    <3> QED  BY <1>5, <3>1, <3>3, <3>4
  <2>3. CASE s.rhead # NullTcb /\ ~clean
    <3> DEFINE z == [named EXCEPT !.fault = "wild"]
    <3>1. linked = z  BY <2>3
    <3>2. /\ z \in Kernel /\ z.rhead = named.rhead /\ z.ready = named.ready /\ z.wait = named.wait
          /\ z.whead = named.whead /\ z.status = named.status /\ z.fault = "wild"
      BY <1>5 DEF Kernel
    <3> HIDE DEF linked, z
    <3>3. Ring(z.ready, z.rhead, L)  BY <1>1, <1>5, <3>2
    <3> QED  BY <1>5, <3>1, <3>2, <3>3
  <2> QED  BY <2>1, <2>2, <2>3
<1> HIDE DEF linked, st
<1>8. /\ r \in Kernel /\ r.wait = linked.wait /\ r.whead = linked.whead /\ r.status = st
      /\ r.fault = linked.fault /\ r.ready = linked.ready /\ r.rhead = linked.rhead
      /\ r.prio = linked.prio
  BY <1>3, <1>7 DEF Kernel
<1>9. LinkTask(s, t, p, clean) = r
  BY <1>6, <1>7 DEF st
<1> HIDE DEF r
<1>10. ReadyOK(linked, Append(o, t)) => ReadyOK(r, Append(o, t))
  BY <1>8 DEF ReadyOK, ReadyRing
<1>11. Linked(s, r, o, t)  BY <1>7, <1>8, <1>10 DEF st, Linked
<1> QED  BY <1>9, <1>11

(* r is s after its TCBs, which S names, were paused and resumed. *)
Restarted(s, r, S) ==
  /\ r \in Kernel
  /\ r.fault = "none" => r.status = [u \in Tcbs |-> IF u \in S THEN "ready" ELSE s.status[u]]
  /\ \A u \in Tcbs : r.status[u] \in {s.status[u], "ready", "pause"}
  /\ WaitOK(s) => r.fault # "null" /\ (r.fault = "none" => WaitOK(r))
  /\ r.fault # "hang"

LEMMA BothIs ==
  ASSUME NEW s \in Kernel, s.fault = "none", NEW o, ReadyOK(s, o)
  PROVE  LET r == ResumeAll(PauseAll(s))
         IN  Restarted(s, r, ToSet(o)) /\ ReadyOK(r, o)
<1> DEFINE q == PauseAll(s)
           r == ResumeAll(q)
<1>1. PICK L : ReadyRing(s, o, L)  BY DEF ReadyOK
<1>2. Ring(s.ready, s.rhead, L) /\ ToSet(L) = ToSet(o)  BY <1>1 DEF ReadyRing
<1>3. q \in Kernel /\ Pausing(s, q, ToSet(L))  BY <1>2, PauseAllIs
<1> HIDE DEF q
<1>4. Ring(q.ready, q.rhead, L) /\ q.fault = "none"  BY <1>2, <1>3 DEF Pausing, SameReady
<1>5. r \in Kernel /\ Resuming(q, r, ToSet(L))  BY <1>3, <1>4, ResumeAllIs
<1> HIDE DEF r
<1>6. q.status = [u \in Tcbs |-> IF u \in ToSet(L) THEN "pause" ELSE s.status[u]]
  BY <1>3 DEF Pausing
<1>7. ASSUME r.fault = "none"
      PROVE  r.status = [u \in Tcbs |-> IF u \in ToSet(o) THEN "ready" ELSE s.status[u]]
  <2>1. r.status = [u \in Tcbs |-> IF u \in ToSet(L) /\ q.status[u] = "pause" THEN "ready" ELSE q.status[u]]
    BY <1>5, <1>7 DEF Resuming
  <2> QED  BY <1>2, <1>6, <2>1
<1>8. \A u \in Tcbs : r.status[u] \in {s.status[u], "ready", "pause"}
  BY <1>5, <1>6 DEF Resuming
<1>9. (WaitOK(s) => WaitOK(r) /\ r.fault = "none") /\ r.fault \in {"none", "null"}
  BY <1>3, <1>5 DEF Pausing, Resuming
<1>10. SameReady(s, r)  BY <1>3, <1>5 DEF Pausing, Resuming, SameReady
<1>11. ReadyOK(r, o)  BY <1>1, <1>10 DEF ReadyOK, ReadyRing, SameReady
<1>12. Restarted(s, r, ToSet(o))  BY <1>5, <1>7, <1>8, <1>9 DEF Restarted
<1> QED  BY <1>11, <1>12 DEF q, r

LEMMA AddIs ==
  ASSUME NEW s \in Kernel, s.fault = "none", NEW o \in Seq(Tcbs), Once(o), ReadyOK(s, o),
         NEW t \in Tcbs, t \notin ToSet(o), s.status[t] = "exit", NEW p \in Nat,
         NEW clean \in BOOLEAN
  PROVE  LET r == AddTcb(s, t, p, clean)
         IN  /\ Restarted(s, r, ToSet(Append(o, t)))
             /\ r.fault # "wild" => ReadyOK(r, Append(o, t))
<1> DEFINE q == PauseAll(s)
           l == LinkTask(q, t, p, clean)
           r == ResumeAll(l)
<1>1. PICK L : ReadyRing(s, o, L)  BY DEF ReadyOK
<1>2. Ring(s.ready, s.rhead, L) /\ ToSet(L) = ToSet(o)  BY <1>1 DEF ReadyRing
<1>3. q \in Kernel /\ Pausing(s, q, ToSet(L))  BY <1>2, PauseAllIs
<1>4. AddTcb(s, t, p, clean) = r  BY DEF AddTcb
<1> HIDE DEF q
<1>5. ReadyRing(q, o, L) /\ q.fault = "none"  BY <1>1, <1>3 DEF Pausing, SameReady, ReadyRing
<1>6. q.status = [u \in Tcbs |-> IF u \in ToSet(L) THEN "pause" ELSE s.status[u]]
  BY <1>3 DEF Pausing
<1>7. Linked(q, l, o, t)  BY <1>3, <1>5, LinkIs
<1> HIDE DEF l
<1>8. /\ l \in Kernel /\ l.wait = q.wait /\ l.whead = q.whead
      /\ l.status = [q.status EXCEPT ![t] = "ready"] /\ l.fault \in {"none", "wild"}
      /\ l.fault = "none" => ReadyOK(l, Append(o, t))
      /\ \E M : Ring(l.ready, l.rhead, M)
  BY <1>7 DEF Linked
<1>9. l.status = [u \in Tcbs |-> IF u \in ToSet(o) THEN "pause"
                                 ELSE IF u = t THEN "ready" ELSE s.status[u]]
  BY <1>2, <1>6, <1>8
<1>10. WaitOK(q) => WaitOK(l)
  <2>1. \A u \in Tcbs : l.status[u] = IF u = t THEN "ready" ELSE q.status[u]  BY <1>6, <1>8
  <2>2. q.status[t] = "exit"  BY <1>2, <1>6
  <2>3. Waiting(l) = Waiting(q)  BY <2>1, <2>2 DEF Waiting
  <2> QED  BY <1>8, <2>3 DEF WaitOK
<1>11. WaitOK(s) => WaitOK(l)  BY <1>3, <1>10 DEF Pausing
<1>12. ToSet(Append(o, t)) = ToSet(o) \cup {t}  BY AgeIs
<1>13. CASE l.fault = "none"
  <2>1. PICK M : ReadyRing(l, Append(o, t), M)  BY <1>8, <1>13 DEF ReadyOK
  <2>2. Ring(l.ready, l.rhead, M) /\ ToSet(M) = ToSet(Append(o, t))  BY <2>1 DEF ReadyRing
  <2>3. r \in Kernel /\ Resuming(l, r, ToSet(M))  BY <1>8, <1>13, <2>2, ResumeAllIs
  <2> HIDE DEF r
  <2>4. ASSUME r.fault = "none"
        PROVE  r.status = [u \in Tcbs |-> IF u \in ToSet(Append(o, t)) THEN "ready" ELSE s.status[u]]
    <3>1. r.status = [u \in Tcbs |-> IF u \in ToSet(M) /\ l.status[u] = "pause" THEN "ready" ELSE l.status[u]]
      BY <2>3, <2>4 DEF Resuming
    <3>2. \A u \in Tcbs : (IF u \in ToSet(M) /\ l.status[u] = "pause" THEN "ready" ELSE l.status[u])
                          = IF u \in ToSet(Append(o, t)) THEN "ready" ELSE s.status[u]
      BY <1>9, <1>12, <2>2
    <3> QED  BY <3>1, <3>2
  <2>5. \A u \in Tcbs : r.status[u] \in {s.status[u], "ready", "pause"}
    BY <1>9, <2>3 DEF Resuming
  <2>6. (WaitOK(s) => WaitOK(r) /\ r.fault = "none") /\ r.fault \in {"none", "null"}
    BY <1>11, <2>3 DEF Resuming
  <2>7. ReadyOK(r, Append(o, t))  BY <2>1, <2>3 DEF Resuming, SameReady, ReadyOK, ReadyRing
  <2>8. Restarted(s, r, ToSet(Append(o, t)))  BY <2>3, <2>4, <2>5, <2>6 DEF Restarted
  <2> QED  BY <1>4, <2>7, <2>8
<1>14. CASE l.fault = "wild"
  <2>1. r = l  BY <1>8, <1>14, ResumeAllIs
  <2>2. \A u \in Tcbs : l.status[u] \in {s.status[u], "ready", "pause"}  BY <1>9
  <2>3. Restarted(s, l, ToSet(Append(o, t)))  BY <1>8, <1>14, <2>2 DEF Restarted
  <2> QED  BY <1>4, <1>14, <2>1, <2>3
<1> QED  BY <1>8, <1>13, <1>14


-----------------------------------------------------------------------------
(* The parts of ListsSound, of a kernel s in which the TCBs of o were      *)
(* added.                                                                  *)

SortedOf(s, o) ==
  s.fault # "wild" =>
    LET L == ReadyList(s)
    IN  /\ ToSet(L) = ToSet(o) /\ Len(L) = Len(o)
        /\ \A i \in DOMAIN L : s.ready.prev[L[i]] = IF i = 1 THEN L[Len(L)] ELSE L[i - 1]
        /\ \A i, j \in DOMAIN L : i < j =>
             \/ s.prio[L[i]] < s.prio[L[j]]
             \/ s.prio[L[i]] = s.prio[L[j]] /\ AgeIn(o, L[i]) < AgeIn(o, L[j])

Met(s) == {Walk(s.whead, s.wait.next)[i] : i \in 0 .. Cardinality(Tcbs)} \ {NullTcb}

ExactOf(s) ==
  s.fault \in {"none", "hang"} =>
    /\ Waiting(s) = Met(s)
    /\ \A t \in Met(s) : s.wait.prev[s.wait.next[t]] = t

StatusOf(o, t) == [u \in Tcbs |-> IF u = t THEN "running"
                                  ELSE IF u \in ToSet(o) THEN "ready" ELSE "exit"]

HighestOf(s, o) ==
  \A t, u \in ToSet(o) : s.status[t] = "running" /\ t # u =>
    s.prio[t] > s.prio[u] \/ (s.prio[t] = s.prio[u] /\ AgeIn(o, t) > AgeIn(o, u))

LEMMA SortedOfIs ==
  ASSUME NEW s \in Kernel, NEW o, s.fault # "wild" => ReadyOK(s, o)
  PROVE  SortedOf(s, o)
<1> SUFFICES ASSUME s.fault # "wild" PROVE SortedOf(s, o)  BY DEF SortedOf
<1>1. PICK L : ReadyRing(s, o, L)  BY DEF ReadyOK
<1>2. Ring(s.ready, s.rhead, L) /\ ToSet(L) = ToSet(o) /\ Len(L) = Len(o) /\ Sorted(s.prio, L, o)
  BY <1>1 DEF ReadyRing
<1>3. ReadyList(s) = L  BY <1>2, ReadyIs
<1>4. DOMAIN L = 1 .. Len(L)  BY <1>2 DEF Ring
<1>5. \A i \in DOMAIN L : s.ready.prev[L[i]] = IF i = 1 THEN L[Len(L)] ELSE L[i - 1]
  BY <1>2, <1>4 DEF Ring
<1>6. \A i, j \in DOMAIN L : i < j =>
        \/ s.prio[L[i]] < s.prio[L[j]]
        \/ s.prio[L[i]] = s.prio[L[j]] /\ AgeIn(o, L[i]) < AgeIn(o, L[j])
  BY <1>2, <1>4 DEF Sorted
<1> QED  BY <1>2, <1>3, <1>5, <1>6 DEF SortedOf

LEMMA ExactOfIs ==
  ASSUME NEW s \in Kernel, WaitOK(s)
  PROVE  ExactOf(s)
<1>1. PICK W : Ring(s.wait, s.whead, W) /\ ToSet(W) = Waiting(s)  BY DEF WaitOK
<1>2. s.wait \in Links /\ s.whead \in Tcb0  BY DEF Kernel
<1>3. Met(s) = ToSet(W)  BY <1>1, <1>2, MetIs DEF Met
<1>4. ASSUME NEW t \in Met(s) PROVE s.wait.prev[s.wait.next[t]] = t
  <2>1. W \in Seq(Tcbs) /\ Len(W) \in Nat  BY <1>1 DEF Ring
  <2>2. PICK i \in 1 .. Len(W) : t = W[i]  BY <1>3, <1>4, <2>1, ToSetIs
  <2> DEFINE j == IF i = Len(W) THEN 1 ELSE i + 1
  <2>3. s.wait.next[t] = W[j]  BY <1>1, <2>2 DEF Ring
  <2>4. j \in 1 .. Len(W)  BY <2>1
  <2>5. s.wait.prev[W[j]] = W[IF j = 1 THEN Len(W) ELSE j - 1]
    <3> HIDE DEF j
    <3> QED  BY <1>1, <2>4 DEF Ring
  <2>6. (IF j = 1 THEN Len(W) ELSE j - 1) = i  BY <2>1
  <2> QED  BY <2>2, <2>3, <2>5, <2>6
<1> QED  BY <1>1, <1>3, <1>4 DEF ExactOf

(* Without a paused task the wait list is empty. *)
LEMMA NoneWaiting ==
  ASSUME NEW s \in Kernel, WaitOK(s), Waiting(s) = {}
  PROVE  s.whead = NullTcb
<1>1. PICK W : Ring(s.wait, s.whead, W) /\ ToSet(W) = Waiting(s)  BY DEF WaitOK
<1>2. W \in Seq(Tcbs) /\ Len(W) \in Nat  BY <1>1 DEF Ring
<1>3. ToSet(W) = {W[i] : i \in 1 .. Len(W)}  BY <1>2, ToSetIs
<1>4. Len(W) = 0
  <2> SUFFICES ASSUME Len(W) # 0 PROVE FALSE  OBVIOUS
  <2>1. 1 \in 1 .. Len(W)  BY <1>2
  <2> QED  BY <1>1, <1>3, <2>1
<1> QED  BY <1>1, <1>4 DEF Ring

(* A successor on the ready list is on it. *)
LEMMA NextReady ==
  ASSUME NEW links, NEW head, NEW L, Ring(links, head, L), NEW x \in ToSet(L)
  PROVE  links.next[x] \in ToSet(L)
<1>1. L \in Seq(Tcbs) /\ Len(L) \in Nat  BY DEF Ring
<1>2. ToSet(L) = {L[i] : i \in 1 .. Len(L)}  BY <1>1, ToSetIs
<1>3. PICK i \in 1 .. Len(L) : x = L[i]  BY <1>2
<1> DEFINE j == IF i = Len(L) THEN 1 ELSE i + 1
<1>4. links.next[x] = L[j]  BY <1>3 DEF Ring
<1>5. j \in 1 .. Len(L)  BY <1>1
<1> HIDE DEF j
<1> QED  BY <1>2, <1>4, <1>5


-----------------------------------------------------------------------------
(* What helios_run hands to the despatch: the tasks are ready and nothing  *)
(* runs, unless a wait list that a deletion tore stopped the restart.      *)
AtRun(s, o, tn) ==
  /\ s \in Kernel /\ s.fault # "hang"
  /\ s.fault # "wild" => ReadyOK(s, o)
  /\ ~tn => s.fault # "null" /\ (s.fault = "none" => WaitOK(s))
  /\ s.fault = "none" => s.status = [u \in Tcbs |-> IF u \in ToSet(o) THEN "ready" ELSE "exit"]
  /\ \A u \in Tcbs : s.status[u] # "running"

(* What the despatch leaves. *)
AfterRun(d, o, tn, al) ==
  /\ d \in Kernel
  /\ d.fault # "wild" => ReadyOK(d, o)
  /\ ~tn => ExactOf(d)
  /\ ~tn /\ d.fault # "wild" /\ o # <<>> =>
       d.fault = "none" /\ \E t \in ToSet(o) : d.status = StatusOf(o, t)
  /\ al = "priority_driven" => HighestOf(d, o)

(* A despatch that ends in a fault starts nothing. *)
LEMMA FaultRun ==
  ASSUME NEW s, NEW o, ToSet(o) \subseteq Tcbs, NEW tn, NEW al, AtRun(s, o, tn), NEW f,
         \/ f \in {"null", "hang"} /\ s.fault = "none"
         \/ f = s.fault /\ f # "none",
         ~tn /\ o # <<>> => f = "wild"
  PROVE  AfterRun([s EXCEPT !.fault = f], o, tn, al)
<1> DEFINE d == [s EXCEPT !.fault = f]
<1>1. s \in Kernel /\ s.fault \in {"none", "null", "wild", "hang"} /\ s.fault # "hang"
  BY DEF AtRun, Kernel
<1>2. /\ d \in Kernel /\ d.fault = f /\ SameReady(s, d) /\ d.status = s.status
      /\ d.wait = s.wait /\ d.whead = s.whead
  BY <1>1 DEF Kernel, SameReady
<1> HIDE DEF d
<1>3. d.fault # "wild" => ReadyOK(d, o)
  BY <1>2 DEF AtRun, SameReady, ReadyOK, ReadyRing
<1>4. HighestOf(d, o)  BY <1>2 DEF HighestOf, AtRun
<1>5. ~tn => ExactOf(d)
  <2> SUFFICES ASSUME ~tn, d.fault \in {"none", "hang"} PROVE ExactOf(d)  BY DEF ExactOf
  <2>1. s.fault = "none"  BY <1>1, <1>2
  <2>2. WaitOK(s)  BY <2>1 DEF AtRun
  <2>3. Waiting(d) = Waiting(s)  BY <1>2 DEF Waiting
  <2>4. WaitOK(d)  BY <1>2, <2>2, <2>3 DEF WaitOK
  <2> QED  BY <1>2, <2>4, ExactOfIs
<1>6. AfterRun(d, o, tn, al)  BY <1>2, <1>3, <1>4, <1>5 DEF AfterRun
<1> QED  BY <1>6 DEF d

(* A despatch that starts the task x. *)
LEMMA StartRun ==
  ASSUME NEW s, NEW o, NEW L, ReadyRing(s, o, L), NEW tn, NEW al, AtRun(s, o, tn), s.fault = "none",
         NEW x \in ToSet(o),
         al = "priority_driven" => Len(L) > 0 /\ x = L[Len(L)],
         NEW st, st = s.status
  PROVE  AfterRun([s EXCEPT !.status = [st EXCEPT ![x] = "running"]], o, tn, al)
<1> DEFINE sx == [st EXCEPT ![x] = "running"]
           d == [s EXCEPT !.status = sx]
<1>1. /\ Ring(s.ready, s.rhead, L) /\ ToSet(L) = ToSet(o) /\ Sorted(s.prio, L, o)
      /\ L \in Seq(Tcbs) /\ Len(L) \in Nat
  BY DEF ReadyRing, Ring
<1>2. ToSet(L) = {L[i] : i \in 1 .. Len(L)} /\ ToSet(o) \subseteq Tcbs  BY <1>1, ToSetIs
<1>3. s \in Kernel /\ x \in Tcbs /\ s.status \in [Tcbs -> {"exit", "ready", "pause", "running"}]
  BY <1>2 DEF AtRun, Kernel
<1>4. sx = StatusOf(o, x)
  <2>1. st = [u \in Tcbs |-> IF u \in ToSet(o) THEN "ready" ELSE "exit"]  BY DEF AtRun
  <2> QED  BY <1>3, <2>1 DEF StatusOf
<1>5. sx \in [Tcbs -> {"exit", "ready", "pause", "running"}]  BY <1>3
<1> HIDE DEF sx
<1>6. /\ d \in Kernel /\ d.fault = "none" /\ SameReady(s, d) /\ d.status = sx
      /\ d.wait = s.wait /\ d.whead = s.whead
  BY <1>3, <1>5 DEF Kernel, SameReady
<1> HIDE DEF d
<1>7. ReadyOK(d, o)  BY <1>6 DEF SameReady, ReadyOK, ReadyRing
<1>8. ~tn => ExactOf(d)
  <2> SUFFICES ASSUME ~tn PROVE ExactOf(d)  OBVIOUS
  <2>1. WaitOK(s)  BY DEF AtRun
  <2>2. s.status = [u \in Tcbs |-> IF u \in ToSet(o) THEN "ready" ELSE "exit"]  BY DEF AtRun
  <2>3. Waiting(d) = Waiting(s)  BY <1>4, <1>6, <2>2 DEF Waiting, StatusOf
  <2>4. WaitOK(d)  BY <1>6, <2>1, <2>3 DEF WaitOK
  <2> QED  BY <1>6, <2>4, ExactOfIs
<1>9. ASSUME al = "priority_driven" PROVE HighestOf(d, o)
  <2> SUFFICES ASSUME NEW t \in ToSet(o), NEW u \in ToSet(o), d.status[t] = "running", t # u
               PROVE  d.prio[t] > d.prio[u] \/ (d.prio[t] = d.prio[u] /\ AgeIn(o, t) > AgeIn(o, u))
    BY DEF HighestOf
  <2>1. t = x  BY <1>2, <1>4, <1>6 DEF StatusOf
  <2>2. PICK j \in 1 .. Len(L) : u = L[j]  BY <1>1, <1>2
  <2>3. j < Len(L) /\ Len(L) \in 1 .. Len(L)  BY <1>1, <1>9, <2>1, <2>2
  <2>4. \/ s.prio[L[j]] < s.prio[L[Len(L)]]
        \/ s.prio[L[j]] = s.prio[L[Len(L)]] /\ AgeIn(o, L[j]) < AgeIn(o, L[Len(L)])
    BY <1>1, <2>3 DEF Sorted
  <2>5. t = L[Len(L)] /\ d.prio = s.prio  BY <1>6, <1>9, <2>1 DEF SameReady
  <2> QED  BY <2>2, <2>4, <2>5
<1>10. \E t \in ToSet(o) : d.status = StatusOf(o, t)  BY <1>4, <1>6
<1>11. AfterRun(d, o, tn, al)  BY <1>6, <1>7, <1>8, <1>9, <1>10 DEF AfterRun
<1> QED  BY <1>11 DEF d, sx


LEMMA DespatchIs ==
  ASSUME NEW s, NEW o \in Seq(Tcbs), NEW tn, AtRun(s, o, tn)
  PROVE  AfterRun(Despatch(s, s.rhead), o, tn, algo)
<1> DEFINE c == s.rhead
<1>1. s \in Kernel /\ ToSet(o) \subseteq Tcbs  BY ToSetIs DEF AtRun
<1>2. s.status \in [Tcbs -> {"exit", "ready", "pause", "running"}]
  BY <1>1 DEF Kernel
<1>3. CASE s.fault # "none"
  <2>1. Despatch(s, c) = s  BY <1>3 DEF Despatch
  <2>2. s = [s EXCEPT !.fault = s.fault]  BY <1>1 DEF Kernel
  <2>3. ~tn => s.fault = "wild"  BY <1>1, <1>3 DEF AtRun, Kernel
  <2>4. AfterRun([s EXCEPT !.fault = s.fault], o, tn, algo)  BY <1>1, <1>3, <2>3, FaultRun
  <2> QED  BY <2>1, <2>2, <2>4
<1>4. CASE s.fault = "none"
  <2>1. PICK L : ReadyRing(s, o, L)  BY <1>4 DEF AtRun, ReadyOK
  <2>2. /\ Ring(s.ready, c, L) /\ ToSet(L) = ToSet(o) /\ Len(L) = Len(o)
        /\ L \in Seq(Tcbs) /\ Len(L) \in Nat /\ c = IF Len(L) = 0 THEN NullTcb ELSE L[1]
    BY <2>1 DEF ReadyRing, Ring
  <2>3. s.status = [u \in Tcbs |-> IF u \in ToSet(o) THEN "ready" ELSE "exit"]  BY <1>4 DEF AtRun
  <2>4. CASE c = NullTcb
    <3>1. Despatch(s, c) = [s EXCEPT !.fault = "null"]  BY <1>4, <2>4 DEF Despatch
    <3>2. Len(L) = 0  BY <2>2, <2>4, TcbsFinite
    <3>3. o = <<>>  BY <2>2, <3>2, EmptySeq
    <3>4. AfterRun([s EXCEPT !.fault = "null"], o, tn, algo)  BY <1>1, <1>4, <3>3, FaultRun
    <3> QED  BY <3>1, <3>4
  <2>5. CASE c # NullTcb /\ s.whead # NullTcb
    <3>1. Despatch(s, c) = [s EXCEPT !.fault = "hang"]  BY <1>4, <2>5 DEF Despatch
    <3>2. tn
      <4> SUFFICES ASSUME ~tn PROVE FALSE  OBVIOUS
      <4>1. WaitOK(s)  BY <1>4 DEF AtRun
      <4>2. Waiting(s) = {}  BY <2>3 DEF Waiting
      <4> QED  BY <1>1, <2>5, <4>1, <4>2, NoneWaiting
    <3>3. AfterRun([s EXCEPT !.fault = "hang"], o, tn, algo)  BY <1>1, <1>4, <3>2, FaultRun
    <3> QED  BY <3>1, <3>3
  <2>6. CASE c # NullTcb /\ s.whead = NullTcb
    <3> DEFINE r == [s EXCEPT !.status[c] = "ready"]
    <3>1. Despatch(s, c) = IF algo = "round_robin" THEN RoundRobin(r, c) ELSE PriorityDriven(r)
      BY <1>4, <2>6 DEF Despatch
    <3>2. Len(L) > 0 /\ c = L[1]  BY <2>2, <2>6
    <3>3. ToSet(L) = {L[i] : i \in 1 .. Len(L)}  BY <2>2, ToSetIs
    <3>4. c \in ToSet(L) /\ L[Len(L)] \in ToSet(L)
      <4>1. 1 \in 1 .. Len(L) /\ Len(L) \in 1 .. Len(L)  BY <2>2, <3>2
      <4> QED  BY <3>2, <3>3, <4>1
    <3>5. r = s
      <4>1. [s.status EXCEPT ![c] = "ready"] = s.status  BY <1>1, <2>2, <2>3, <3>4
      <4>2. r = [s EXCEPT !.status = s.status]  BY <4>1
      <4> QED  BY <1>1, <4>2 DEF Kernel
    <3> HIDE DEF r
    <3>6. ASSUME algo = "round_robin" PROVE AfterRun(RoundRobin(s, c), o, tn, algo)
      <4> DEFINE t == s.ready.next[c]
                 x == s.ready.next[t]
                 u == IF t = c THEN SendToResume(s, t) ELSE s
      <4>1. t \in ToSet(L)  BY <2>2, <3>4, NextReady
      <4>2. s.status[t] = "ready"  BY <1>1, <2>2, <2>3, <4>1
      <4>3. u = s  BY <4>2 DEF SendToResume
      <4>4. RoundRobin(s, c) = IF u.status[t] = "ready"
                               THEN [u EXCEPT !.status[u.ready.next[t]] = "running"] ELSE u
        BY DEF RoundRobin
      <4> HIDE DEF u, t
      <4>5. RoundRobin(s, c) = [s EXCEPT !.status[x] = "running"]  BY <4>2, <4>3, <4>4
      <4>6. x \in ToSet(o)  BY <2>2, <4>1, NextReady
      <4> HIDE DEF x
      <4>7. AfterRun([s EXCEPT !.status = [s.status EXCEPT ![x] = "running"]], o, tn, algo)
        BY <1>4, <2>1, <3>6, <4>6, StartRun
      <4> QED  BY <4>5, <4>7
    <3>7. ASSUME algo # "round_robin" PROVE AfterRun(PriorityDriven(s), o, tn, algo)
      <4> DEFINE x == s.ready.prev[c]
      <4>1. x = L[Len(L)]
        <5>1. 1 \in 1 .. Len(L)  BY <2>2, <3>2
        <5> QED  BY <2>2, <3>2, <5>1 DEF Ring
      <4>2. PriorityDriven(s) = [s EXCEPT !.status[x] = "running"]  BY DEF PriorityDriven
      <4> HIDE DEF x
      <4>3. x \in ToSet(o)  BY <2>2, <3>4, <4>1
      <4>4. AfterRun([s EXCEPT !.status = [s.status EXCEPT ![x] = "running"]], o, tn, algo)
        BY <1>4, <2>1, <3>2, <4>1, <4>3, StartRun
      <4> QED  BY <4>2, <4>4
    <3> QED  BY <3>1, <3>5, <3>6, <3>7
  <2> QED  BY <2>4, <2>5, <2>6
<1> QED  BY <1>3, <1>4


-----------------------------------------------------------------------------
(* A kernel that plug() is still calling: the calls leave the tasks of o   *)
(* ready, paused or deleted, and every other TCB untouched.                *)
Booted(s, o, tn) ==
  /\ s \in Kernel /\ o \in Seq(Tasks) /\ Once(o)
  /\ s.fault # "hang"
  /\ s.fault # "wild" => ReadyOK(s, o)
  /\ s.fault = "none" /\ ~tn => WaitOK(s)
  /\ s.fault = "none" =>
       \A u \in Tcbs : /\ s.status[u] \in {"exit", "ready", "pause"}
                       /\ u \notin ToSet(o) => s.status[u] = "exit"

(* The inductive invariant of the task lists. *)
ListsInv == IF phase = "boot" THEN Booted(k, order, torn) ELSE ListsSound

(* A kernel that is still booting has the two lists that ListsSound asks   *)
(* for.                                                                    *)
LEMMA BootedLists ==
  ASSUME NEW s, NEW o, NEW tn, Booted(s, o, tn)
  PROVE  SortedOf(s, o) /\ (~tn => ExactOf(s))
<1>1. s \in Kernel /\ (s.fault # "wild" => ReadyOK(s, o))  BY DEF Booted
<1>2. SortedOf(s, o)  BY <1>1, SortedOfIs
<1>3. ASSUME ~tn PROVE ExactOf(s)
  <2> SUFFICES ASSUME s.fault \in {"none", "hang"} PROVE ExactOf(s)  BY DEF ExactOf
  <2>1. WaitOK(s)  BY <1>3 DEF Booted
  <2> QED  BY <1>1, <2>1, ExactOfIs
<1> QED  BY <1>2, <1>3

LEMMA BootSound ==
  ListsInv => ListsSound
<1> SUFFICES ASSUME phase = "boot", Booted(k, order, torn) PROVE ListsSound  BY DEF ListsInv
<1>1. SortedOf(k, order) /\ (~torn => ExactOf(k))  BY BootedLists
<1>2. ReadySorted  BY <1>1 DEF ReadySorted, SortedOf, Age, AgeIn
<1>3. WaitListExact  BY <1>1 DEF WaitListExact, ExactOf, Waiting, Met, OnWaitList
<1> QED  BY <1>2, <1>3 DEF ListsSound, StartsOne, StartsHighest

(* The empty sequence is in every Seq and lists nothing. *)
LEMMA InitLists ==
  Init => ListsInv
<1> SUFFICES ASSUME Init PROVE Booted(k, order, torn)  BY DEF Init, ListsInv
<1>1. NoLinks \in Links /\ NullTcb \in Tcb0  BY DEF NoLinks, Links, Tcb0
<1>2. k \in Kernel
  BY <1>1 DEF Init, Kernel
<1>3. order \in Seq(Tasks) /\ order \in Seq(Tcbs) /\ Len(order) = 0 /\ order = <<>>
  BY DEF Init
<1>4. ToSet(<<>>) = {}  BY <1>3, ToSetIs
<1>5. Ring(NoLinks, NullTcb, <<>>)  BY DEF Ring, Once
<1>6. ReadyRing(k, order, <<>>)  BY <1>3, <1>5 DEF Init, ReadyRing, Sorted
<1>7. Waiting(k) = {}  BY DEF Init, Waiting
<1>8. WaitOK(k)  BY <1>4, <1>5, <1>7 DEF Init, WaitOK
<1> QED  BY <1>2, <1>3, <1>6, <1>8 DEF Init, Booted, ReadyOK, Once

(* What holds whenever a call is made. *)
LEMMA BootedNow ==
  ASSUME ListsInv, Running
  PROVE  /\ phase = "boot" /\ Booted(k, order, torn)
         /\ k \in Kernel /\ k.fault = "none" /\ ReadyOK(k, order)
         /\ k.status \in [Tcbs -> {"exit", "ready", "pause", "running"}]
         /\ order \in Seq(Tasks) /\ order \in Seq(Tcbs) /\ Once(order)
         /\ ToSet(order) \subseteq Tasks /\ (~torn => WaitOK(k))
         /\ \A u \in Tcbs : /\ k.status[u] \in {"exit", "ready", "pause"}
                            /\ u \notin ToSet(order) => k.status[u] = "exit"
<1>1. phase = "boot" /\ Booted(k, order, torn) /\ k.fault = "none"  BY DEF Running, ListsInv
<1>2. k \in Kernel /\ order \in Seq(Tasks) /\ Once(order)  BY <1>1 DEF Booted
<1>3. order \in Seq(Tcbs) /\ ToSet(order) \subseteq Tasks
  <2>1. Tasks \subseteq Tcbs  BY DEF Tcbs
  <2>2. \A i \in 1 .. Len(order) : order[i] \in Tcbs  BY <1>2, <2>1
  <2>3. order \in Seq(Tcbs)  BY <1>2, <2>2
  <2> QED  BY <1>2, <2>3, ToSetIs
<1>4. k.status \in [Tcbs -> {"exit", "ready", "pause", "running"}]  BY <1>2 DEF Kernel
<1>5. ReadyOK(k, order)  BY <1>1 DEF Booted
<1>6. ~torn => WaitOK(k)  BY <1>1 DEF Booted
<1>7. \A u \in Tcbs : /\ k.status[u] \in {"exit", "ready", "pause"}
                      /\ u \notin ToSet(order) => k.status[u] = "exit"
  BY <1>1 DEF Booted
<1> QED  BY <1>1, <1>2, <1>3, <1>4, <1>5, <1>6, <1>7


(* The two outcomes of the lookup. *)
LEMMA FoundIs ==
  ASSUME NEW t \in Tasks
  PROVE  t \in Tcbs /\ t # NullTcb /\ GetTcb(t) \in {t, NullTcb}
BY HeliosAssumption DEF GetTcb, Tcbs

(* helios_add_task, for a user's task. *)
LEMMA AddTaskBooted ==
  ASSUME ListsInv, NEW t \in Tasks, NEW p \in Priorities, NEW clean \in BOOLEAN, AddTask(t, p, clean)
  PROVE  ListsInv'
<1>1. Running /\ t \notin ToSet(order) /\ order' = Append(order, t) /\ phase' = phase /\ torn' = torn
  BY DEF AddTask
<1>2. k' = AddTcb(k, t, p, clean)  BY DEF AddTask
<1>3. /\ phase = "boot" /\ k \in Kernel /\ k.fault = "none" /\ ReadyOK(k, order)
      /\ order \in Seq(Tasks) /\ order \in Seq(Tcbs) /\ Once(order) /\ (~torn => WaitOK(k))
      /\ \A u \in Tcbs : /\ k.status[u] \in {"exit", "ready", "pause"}
                         /\ u \notin ToSet(order) => k.status[u] = "exit"
  BY <1>1, BootedNow
<1>4. t \in Tcbs /\ p \in Nat /\ k.status[t] = "exit"  BY <1>1, <1>3, FoundIs, HeliosAssumption
<1>5. /\ Restarted(k, k', ToSet(order'))
      /\ k'.fault # "wild" => ReadyOK(k', order')
  BY <1>1, <1>2, <1>3, <1>4, AddIs
<1>6. order' \in Seq(Tasks) /\ Once(order') /\ ToSet(order') = ToSet(order) \cup {t}
  <2>1. Once(Append(order, t)) /\ ToSet(Append(order, t)) = ToSet(order) \cup {t}
    BY <1>1, <1>3, <1>4, AgeIs
  <2>2. Append(order, t) \in Seq(Tasks)  BY <1>3
  <2> QED  BY <1>1, <2>1, <2>2
<1>7. Booted(k', order', torn')
  <2>1. k'.fault = "none" => \A u \in Tcbs : /\ k'.status[u] \in {"exit", "ready", "pause"}
                                             /\ u \notin ToSet(order') => k'.status[u] = "exit"
    BY <1>3, <1>5, <1>6 DEF Restarted
  <2> QED  BY <1>1, <1>3, <1>5, <1>6, <2>1 DEF Booted, Restarted
<1> QED  BY <1>1, <1>3, <1>7 DEF ListsInv

(* helios_add_task without memory. *)
LEMMA AddTaskLowBooted ==
  ASSUME ListsInv, AddTaskLow
  PROVE  ListsInv'
<1>1. /\ Running /\ k' = ResumeAll(PauseAll(k)) /\ order' = order /\ phase' = phase /\ torn' = torn
  BY DEF AddTaskLow
<1>2. /\ phase = "boot" /\ k \in Kernel /\ k.fault = "none" /\ ReadyOK(k, order)
      /\ order \in Seq(Tasks) /\ Once(order) /\ (~torn => WaitOK(k))
      /\ \A u \in Tcbs : /\ k.status[u] \in {"exit", "ready", "pause"}
                         /\ u \notin ToSet(order) => k.status[u] = "exit"
  BY <1>1, BootedNow
<1>3. Restarted(k, k', ToSet(order)) /\ ReadyOK(k', order)  BY <1>1, <1>2, BothIs
<1>4. Booted(k', order, torn)
  <2>1. k'.fault = "none" => \A u \in Tcbs : /\ k'.status[u] \in {"exit", "ready", "pause"}
                                             /\ u \notin ToSet(order) => k'.status[u] = "exit"
    BY <1>2, <1>3 DEF Restarted
  <2> QED  BY <1>2, <1>3, <2>1 DEF Booted, Restarted
<1> QED  BY <1>1, <1>2, <1>4 DEF ListsInv

(* A call that ends at the NULL TCB leaves the ready list alone. *)
LEMMA NullBooted ==
  ASSUME ListsInv, Running, k' = [k EXCEPT !.fault = "null"], order' = order, phase' = phase
  PROVE  ListsInv'
<1>1. /\ phase = "boot" /\ k \in Kernel /\ k.fault = "none" /\ ReadyOK(k, order)
      /\ order \in Seq(Tasks) /\ Once(order)
  BY BootedNow
<1>2. k' \in Kernel /\ k'.fault = "null" /\ SameReady(k, k')  BY <1>1 DEF Kernel, SameReady
<1>3. ReadyOK(k', order)  BY <1>1, <1>2 DEF ReadyOK, ReadyRing, SameReady
<1>4. Booted(k', order', torn')  BY <1>1, <1>2, <1>3 DEF Booted
<1> QED  BY <1>1, <1>4 DEF ListsInv

LEMMA PauseTaskBooted ==
  ASSUME ListsInv, NEW t \in Tasks, PauseTask(t)
  PROVE  ListsInv'
<1>1. Running /\ t \in ToSet(order) /\ order' = order /\ phase' = phase /\ torn' = torn
  BY DEF PauseTask
<1>2. t \in Tcbs /\ t # NullTcb /\ GetTcb(t) \in {t, NullTcb}  BY FoundIs
<1>3. CASE GetTcb(t) = NullTcb
  <2>1. k' = [k EXCEPT !.fault = "null"]  BY <1>3 DEF PauseTask
  <2> QED  BY <1>1, <2>1, NullBooted
<1>4. CASE GetTcb(t) = t
  <2>1. k' = SendToPause(k, t)  BY <1>2, <1>4 DEF PauseTask
  <2>2. /\ phase = "boot" /\ k \in Kernel /\ k.fault = "none" /\ ReadyOK(k, order)
        /\ k.status \in [Tcbs -> {"exit", "ready", "pause", "running"}]
        /\ order \in Seq(Tasks) /\ Once(order) /\ (~torn => WaitOK(k))
        /\ \A u \in Tcbs : /\ k.status[u] \in {"exit", "ready", "pause"}
                           /\ u \notin ToSet(order) => k.status[u] = "exit"
    BY <1>1, BootedNow
  <2>3. /\ k' \in Kernel /\ SameReady(k, k') /\ k'.fault = "none"
        /\ k'.status = [k.status EXCEPT ![t] = "pause"] /\ (WaitOK(k) => WaitOK(k'))
    BY <1>2, <2>1, <2>2, PauseIs
  <2>4. ReadyOK(k', order)  BY <2>2, <2>3 DEF ReadyOK, ReadyRing, SameReady
  <2>5. \A u \in Tcbs : /\ k'.status[u] \in {"exit", "ready", "pause"}
                        /\ u \notin ToSet(order) => k'.status[u] = "exit"
    BY <1>1, <2>2, <2>3
  <2>6. Booted(k', order', torn')  BY <1>1, <2>2, <2>3, <2>4, <2>5 DEF Booted
  <2> QED  BY <1>1, <2>2, <2>6 DEF ListsInv
<1> QED  BY <1>2, <1>3, <1>4

LEMMA ResumeTaskBooted ==
  ASSUME ListsInv, NEW t \in Tasks, ResumeTask(t)
  PROVE  ListsInv'
<1>1. Running /\ order' = order /\ phase' = phase /\ torn' = torn  BY DEF ResumeTask
<1>2. /\ phase = "boot" /\ Booted(k, order, torn)
      /\ \A u \in Tcbs : k.status[u] \in {"exit", "ready", "pause"}
  BY <1>1, BootedNow
<1>3. t \in Tcbs /\ t # NullTcb /\ GetTcb(t) \in {t, NullTcb}  BY FoundIs
<1>4. k' = k
  <2>1. CASE GetTcb(t) # NullTcb /\ k.status[GetTcb(t)] # "pause"
    <3>1. k' = SendToResume(k, t) /\ k.status[t] # "pause"  BY <1>3, <2>1 DEF ResumeTask
    <3>2. k.status[t] \notin {"wait", "pause"}  BY <1>2, <1>3, <3>1
    <3> QED  BY <3>1, <3>2 DEF SendToResume
  <2>2. CASE ~(GetTcb(t) # NullTcb /\ k.status[GetTcb(t)] # "pause")
    BY <2>2 DEF ResumeTask
  <2> QED  BY <2>1, <2>2
<1> QED  BY <1>1, <1>2, <1>4 DEF ListsInv


(* helios_del_task: a task that was not paused leaves the wait list as it  *)
(* is.                                                                     *)
LEMMA DelTaskBooted ==
  ASSUME ListsInv, NEW t \in Tasks, DelTask(t)
  PROVE  ListsInv'
<1>1. Running /\ t \in ToSet(order) /\ order' = order /\ phase' = phase
  BY DEF DelTask
<1>2. t \in Tcbs /\ t # NullTcb /\ GetTcb(t) \in {t, NullTcb}  BY FoundIs
<1>3. /\ phase = "boot" /\ k \in Kernel /\ k.fault = "none" /\ ReadyOK(k, order)
      /\ k.status \in [Tcbs -> {"exit", "ready", "pause", "running"}]
      /\ order \in Seq(Tasks) /\ Once(order) /\ (~torn => WaitOK(k))
      /\ \A u \in Tcbs : /\ k.status[u] \in {"exit", "ready", "pause"}
                         /\ u \notin ToSet(order) => k.status[u] = "exit"
      /\ Booted(k, order, torn)
  BY <1>1, BootedNow
<1>4. CASE GetTcb(t) = NullTcb
  <2>1. k' = [k EXCEPT !.fault = "null"]  BY <1>4 DEF DelTask
  <2> QED  BY <1>1, <2>1, NullBooted
<1>5. CASE GetTcb(t) = t /\ t = k.rhead
  <2>1. k' = k  BY <1>2, <1>5 DEF DelTask
  <2>2. ~torn' => ~torn  BY DEF DelTask
  <2>3. Booted(k', order', torn')  BY <1>1, <1>3, <2>1, <2>2 DEF Booted
  <2> QED  BY <1>1, <1>3, <2>3 DEF ListsInv
<1>6. CASE GetTcb(t) = t /\ t # k.rhead
  <2> DEFINE st == [k.status EXCEPT ![t] = "exit"]
  <2>1. k' = [k EXCEPT !.status = st]  BY <1>2, <1>6 DEF DelTask
  <2>2. ~torn' => ~torn /\ k.status[t] # "pause"  BY <1>2, <1>6 DEF DelTask
  <2>3. st \in [Tcbs -> {"exit", "ready", "pause", "running"}]  BY <1>3
  <2>4. \A u \in Tcbs : st[u] = IF u = t THEN "exit" ELSE k.status[u]  BY <1>3
  <2> HIDE DEF st
  <2>5. /\ k' \in Kernel /\ SameReady(k, k') /\ k'.fault = "none" /\ k'.status = st
        /\ k'.wait = k.wait /\ k'.whead = k.whead
    BY <1>3, <2>1, <2>3 DEF Kernel, SameReady
  <2>6. ReadyOK(k', order)  BY <1>3, <2>5 DEF ReadyOK, ReadyRing, SameReady
  <2>7. ~torn' => WaitOK(k')
    <3> SUFFICES ASSUME ~torn' PROVE WaitOK(k')  OBVIOUS
    <3>1. WaitOK(k) /\ k.status[t] \notin {"wait", "pause"}  BY <1>2, <1>3, <2>2
    <3>2. Waiting(k') = Waiting(k)  BY <2>4, <2>5, <3>1 DEF Waiting
    <3> QED  BY <2>5, <3>1, <3>2 DEF WaitOK
  <2>8. \A u \in Tcbs : /\ k'.status[u] \in {"exit", "ready", "pause"}
                        /\ u \notin ToSet(order) => k'.status[u] = "exit"
    BY <1>3, <2>4, <2>5
  <2>9. Booted(k', order', torn')  BY <1>1, <1>3, <2>5, <2>6, <2>7, <2>8 DEF Booted
  <2> QED  BY <1>1, <1>3, <2>9 DEF ListsInv
<1> QED  BY <1>2, <1>4, <1>5, <1>6

LEMMA PauseAllBooted ==
  ASSUME ListsInv, PauseAllTask
  PROVE  ListsInv'
<1>1. Running /\ k' = PauseAll(k) /\ order' = order /\ phase' = phase /\ torn' = torn
  BY DEF PauseAllTask
<1>2. /\ phase = "boot" /\ k \in Kernel /\ k.fault = "none" /\ ReadyOK(k, order)
      /\ order \in Seq(Tasks) /\ Once(order) /\ (~torn => WaitOK(k))
      /\ \A u \in Tcbs : /\ k.status[u] \in {"exit", "ready", "pause"}
                         /\ u \notin ToSet(order) => k.status[u] = "exit"
  BY <1>1, BootedNow
<1>3. PICK L : ReadyRing(k, order, L)  BY <1>2 DEF ReadyOK
<1>4. Ring(k.ready, k.rhead, L) /\ ToSet(L) = ToSet(order)  BY <1>3 DEF ReadyRing
<1>5. k' \in Kernel /\ Pausing(k, k', ToSet(order))  BY <1>1, <1>2, <1>4, PauseAllIs
<1>6. ReadyOK(k', order)  BY <1>2, <1>5 DEF ReadyOK, ReadyRing, SameReady, Pausing
<1>7. \A u \in Tcbs : /\ k'.status[u] \in {"exit", "ready", "pause"}
                      /\ u \notin ToSet(order) => k'.status[u] = "exit"
  BY <1>2, <1>5 DEF Pausing
<1>8. k'.fault = "none" /\ (~torn => WaitOK(k'))  BY <1>2, <1>5 DEF Pausing
<1>9. Booted(k', order', torn')  BY <1>1, <1>2, <1>5, <1>6, <1>7, <1>8 DEF Booted
<1> QED  BY <1>1, <1>2, <1>9 DEF ListsInv

LEMMA ResumeAllBooted ==
  ASSUME ListsInv, ResumeAllTask
  PROVE  ListsInv'
<1>1. Running /\ k' = ResumeAll(k) /\ order' = order /\ phase' = phase /\ torn' = torn
  BY DEF ResumeAllTask
<1>2. /\ phase = "boot" /\ k \in Kernel /\ k.fault = "none" /\ ReadyOK(k, order)
      /\ order \in Seq(Tasks) /\ Once(order) /\ (~torn => WaitOK(k))
      /\ \A u \in Tcbs : /\ k.status[u] \in {"exit", "ready", "pause"}
                         /\ u \notin ToSet(order) => k.status[u] = "exit"
  BY <1>1, BootedNow
<1>3. PICK L : ReadyRing(k, order, L)  BY <1>2 DEF ReadyOK
<1>4. Ring(k.ready, k.rhead, L) /\ ToSet(L) = ToSet(order)  BY <1>3 DEF ReadyRing
<1>5. k' \in Kernel /\ Resuming(k, k', ToSet(order))  BY <1>1, <1>2, <1>4, ResumeAllIs
<1>6. ReadyOK(k', order)  BY <1>2, <1>5 DEF ReadyOK, ReadyRing, SameReady, Resuming
<1>7. k'.fault = "none" => \A u \in Tcbs : /\ k'.status[u] \in {"exit", "ready", "pause"}
                                           /\ u \notin ToSet(order) => k'.status[u] = "exit"
  BY <1>2, <1>5 DEF Resuming
<1>8. k'.fault \in {"none", "null"} /\ (~torn => WaitOK(k'))  BY <1>2, <1>5 DEF Resuming
<1>9. Booted(k', order', torn')  BY <1>1, <1>2, <1>5, <1>6, <1>7, <1>8 DEF Booted
<1> QED  BY <1>1, <1>2, <1>9 DEF ListsInv

(* The restart of helios_run, with the idle task or without it. *)
LEMMA RunRestarts ==
  ASSUME ListsInv, Running, NEW added \in BOOLEAN, NEW clean \in BOOLEAN
  PROVE  LET s == IF added THEN AddTcb(k, Idle, IdlePriority, clean) ELSE ResumeAll(PauseAll(k))
             o == IF added THEN Append(order, Idle) ELSE order
         IN  o \in Seq(Tcbs) /\ AtRun(s, o, torn)
<1> DEFINE s == IF added THEN AddTcb(k, Idle, IdlePriority, clean) ELSE ResumeAll(PauseAll(k))
           o == IF added THEN Append(order, Idle) ELSE order
<1>1. /\ phase = "boot" /\ k \in Kernel /\ k.fault = "none" /\ ReadyOK(k, order)
      /\ order \in Seq(Tcbs) /\ Once(order) /\ ToSet(order) \subseteq Tasks /\ (~torn => WaitOK(k))
      /\ \A u \in Tcbs : /\ k.status[u] \in {"exit", "ready", "pause"}
                         /\ u \notin ToSet(order) => k.status[u] = "exit"
  BY BootedNow
<1>2. Idle \in Tcbs /\ Idle \notin ToSet(order) /\ IdlePriority \in Nat /\ k.status[Idle] = "exit"
  BY <1>1, HeliosAssumption DEF Tcbs
<1>3. /\ o \in Seq(Tcbs) /\ ToSet(order) \subseteq ToSet(o)
      /\ Restarted(k, s, ToSet(o)) /\ (s.fault # "wild" => ReadyOK(s, o))
  <2>1. CASE added
    <3>1. o = Append(order, Idle) /\ s = AddTcb(k, Idle, IdlePriority, clean)  BY <2>1
    <3>2. Append(order, Idle) \in Seq(Tcbs) /\ ToSet(Append(order, Idle)) = ToSet(order) \cup {Idle}
      BY <1>1, <1>2, AgeIs
    <3> HIDE DEF o, s
    <3>3. Restarted(k, s, ToSet(o)) /\ (s.fault # "wild" => ReadyOK(s, o))
      BY <1>1, <1>2, <3>1, AddIs
    <3> QED  BY <3>1, <3>2, <3>3
  <2>2. CASE ~added
    <3>1. o = order /\ s = ResumeAll(PauseAll(k))  BY <2>2
    <3> HIDE DEF o, s
    <3>2. Restarted(k, s, ToSet(o)) /\ ReadyOK(s, o)  BY <1>1, <3>1, BothIs
    <3> QED  BY <1>1, <3>1, <3>2
  <2> QED  BY <2>1, <2>2
<1> HIDE DEF s, o
<1>4. ASSUME s.fault = "none"
      PROVE  s.status = [u \in Tcbs |-> IF u \in ToSet(o) THEN "ready" ELSE "exit"]
  <2>1. s.status = [u \in Tcbs |-> IF u \in ToSet(o) THEN "ready" ELSE k.status[u]]
    BY <1>3, <1>4 DEF Restarted
  <2>2. \A u \in Tcbs : u \notin ToSet(o) => k.status[u] = "exit"  BY <1>1, <1>3
  <2> QED  BY <2>1, <2>2
<1>5. \A u \in Tcbs : s.status[u] # "running"
  <2>1. \A u \in Tcbs : s.status[u] \in {k.status[u], "ready", "pause"}  BY <1>3 DEF Restarted
  <2> QED  BY <1>1, <2>1
<1>6. AtRun(s, o, torn)  BY <1>1, <1>3, <1>4, <1>5 DEF AtRun, Restarted
<1> QED  BY <1>3, <1>6 DEF s, o

LEMMA RunSound ==
  ASSUME ListsInv, NEW added \in BOOLEAN, NEW clean \in BOOLEAN, HeliosRun(added, clean)
  PROVE  ListsInv'
<1> DEFINE s == IF added THEN AddTcb(k, Idle, IdlePriority, clean) ELSE ResumeAll(PauseAll(k))
           o == IF added THEN Append(order, Idle) ELSE order
<1>1. /\ Running /\ k' = Despatch(s, s.rhead) /\ phase' = "started" /\ order' = o
      /\ algo' = algo /\ torn' = torn
  BY DEF HeliosRun
<1>2. o \in Seq(Tcbs) /\ AtRun(s, o, torn)  BY <1>1, RunRestarts
<1> HIDE DEF s, o
<1>3. AfterRun(k', order', torn', algo')
  <2>1. AfterRun(Despatch(s, s.rhead), o, torn, algo)  BY <1>2, DespatchIs
  <2> QED  BY <1>1, <2>1
<1>4. SortedOf(k', order')  BY <1>3, SortedOfIs DEF AfterRun
<1>5. ReadySorted'  BY <1>4 DEF ReadySorted, SortedOf, Age, AgeIn
<1>6. WaitListExact'
  <2>1. ~torn' => ExactOf(k')  BY <1>3 DEF AfterRun
  <2> QED  BY <2>1 DEF WaitListExact, ExactOf, Waiting, Met, OnWaitList
<1>7. StartsOne'
  <2> SUFFICES ASSUME phase' = "started", ~torn', k'.fault # "wild", order' # <<>>
               PROVE  /\ k'.fault = "none"
                      /\ \E t \in ToSet(order') :
                           /\ k'.status[t] = "running"
                           /\ \A u \in Tcbs \ {t} :
                                /\ k'.status[u] # "running"
                                /\ u \in ToSet(order') /\ want'[u] = "run" => k'.status[u] = "ready"
    BY DEF StartsOne
  <2>1. k'.fault = "none" /\ \E t \in ToSet(order') : k'.status = StatusOf(order', t)
    BY <1>3 DEF AfterRun
  <2>2. PICK t \in ToSet(order') : k'.status = StatusOf(order', t)  BY <2>1
  <2>3. t \in Tcbs  BY <1>1, <1>2, ToSetIs
  <2> QED  BY <2>1, <2>2, <2>3 DEF StatusOf
<1>8. StartsHighest'  BY <1>3 DEF StartsHighest, AfterRun, HighestOf, Age, AgeIn
<1>9. ListsSound'  BY <1>5, <1>6, <1>7, <1>8 DEF ListsSound
<1> QED  BY <1>1, <1>9 DEF ListsInv

LEMMA StepLists ==
  ListsInv /\ [Next]_vars => ListsInv'
<1> SUFFICES ASSUME ListsInv, [Next]_vars PROVE ListsInv'  OBVIOUS
<1>1. ASSUME NEW t \in Tasks, NEW p \in Priorities, NEW clean \in BOOLEAN, AddTask(t, p, clean)
      PROVE  ListsInv'
  BY <1>1, AddTaskBooted
<1>2. CASE AddTaskLow  BY <1>2, AddTaskLowBooted
<1>3. ASSUME NEW t \in Tasks, PauseTask(t) PROVE ListsInv'  BY <1>3, PauseTaskBooted
<1>4. ASSUME NEW t \in Tasks, ResumeTask(t) PROVE ListsInv'  BY <1>4, ResumeTaskBooted
<1>5. ASSUME NEW t \in Tasks, DelTask(t) PROVE ListsInv'  BY <1>5, DelTaskBooted
<1>6. CASE PauseAllTask  BY <1>6, PauseAllBooted
<1>7. CASE ResumeAllTask  BY <1>7, ResumeAllBooted
<1>8. ASSUME NEW a \in Algos, SetSchedAlgo(a) PROVE ListsInv'
  <2>1. Running /\ phase' = phase /\ k' = k /\ order' = order /\ torn' = torn
    BY <1>8 DEF SetSchedAlgo
  <2>2. phase = "boot" /\ Booted(k, order, torn)  BY <2>1, BootedNow
  <2> QED  BY <2>1, <2>2 DEF ListsInv
<1>9. ASSUME NEW added \in BOOLEAN, NEW clean \in BOOLEAN, HeliosRun(added, clean) PROVE ListsInv'
  BY <1>9, RunSound
<1>10. CASE UNCHANGED vars
  <2>1. phase' = phase /\ k' = k /\ order' = order /\ torn' = torn /\ algo' = algo /\ want' = want
    BY <1>10 DEF vars
  <2>2. ListsSound' <=> ListsSound
    BY <2>1 DEF ListsSound, ReadySorted, WaitListExact, OnWaitList, StartsOne, StartsHighest, Age
  <2> QED  BY <2>1, <2>2 DEF ListsInv
<1> QED  BY <1>1, <1>2, <1>3, <1>4, <1>5, <1>6, <1>7, <1>8, <1>9, <1>10 DEF Next

(* Whatever tasks are added, paused, resumed and deleted, in whatever      *)
(* order, the ready list stays a sorted ring of tasks added and of every   *)
(* one not deleted, the wait list the ring of the paused ones until one of *)
(* those is deleted, and helios_run starts exactly one task, above every   *)
(* task that is to run when priority drives it, and leaves those ready.    *)
THEOREM TaskListsCorrect == Spec => []ListsSound
<1>1. Init => ListsInv  BY InitLists
<1>2. ListsInv /\ [Next]_vars => ListsInv'  BY StepLists
<1>3. ListsInv => ListsSound  BY BootSound
<1> QED  BY <1>1, <1>2, <1>3, PTL DEF Spec
=============================================================================
