------------------------------- MODULE Posix --------------------------------
(***************************************************************************)
(* libposix: semaphores, message queues and threads, called by concurrent  *)
(* threads.  The kernel behind super_call and the pthread mutexes are not  *)
(* in this commit; they are modelled from their use (external): a try of   *)
(* the kernel's semaphore or queue never blocks, and a mutex is of the     *)
(* NORMAL type, which does not remember its owner.  A lock may be refused, *)
(* and so may the release of a mutex that was initialised or destroyed     *)
(* while it was held; every caller then returns EBUSY.                     *)
(*                                                                         *)
(* mq_open casts the SUCCESS of s_mq_lock_init to its descriptor, so what  *)
(* it returns is NULL or an error; the queue Section below is an           *)
(* mqd_section_t its users filled in themselves.                           *)
(***************************************************************************)
EXTENDS Integers, FiniteSets

CONSTANTS
  Threads,   \* the callers
  Nobody,    \* a mutex is free
  Waits,     \* timeouts asked for, in ticks; 0 is what a NULL abstime gives
  Flags,     \* access and blocking flags of Section: subsets of {"r", "w", "nonblock"}
  MaxUnits,  \* bound: units in the semaphore, messages in the queue
  MaxCalls   \* bound: calls of all threads

ASSUME PosixConstants == Nobody \notin Threads /\ Waits \subseteq Nat /\ MaxUnits \in Nat

VARIABLES
  kval,    \* what the kernel holds: units of "sem", messages of "mq"
  moved,   \* auxiliary: for each, units put in minus units taken out
  semLive, \* sem->id is the kernel's, not 0
  flags,   \* attr.mq_flags of Section; {} once closed
  mqLock,  \* g_mq_mutex: its holder, or Nobody
  ptLock,  \* g_pthread_mutex
  holds,   \* auxiliary: threads between a successful lock and unlock of g_mq_mutex
  redone,  \* auxiliary: g_mq_mutex was initialised or destroyed while held
  attr,    \* stacksize of the thread attributes: "none" or "enough"
  call,    \* what each thread is doing
  result,  \* what the last timed call of each returned
  calls    \* calls made so far

pvars == <<kval, moved, semLive, flags, mqLock, ptLock, holds, redone, attr, call, result, calls>>

Resting == [at |-> "idle"]
None == [err |-> "none", of |-> "none", took |-> FALSE, waited |-> 0, asked |-> 0]
Dead == [at |-> "dead"]

Return(p, err, of, took, waited, asked) ==
  /\ result' = [result EXCEPT ![p] =
        [err |-> err, of |-> of, took |-> took, waited |-> waited, asked |-> asked]]
  /\ call' = [call EXCEPT ![p] = Resting]
\* The end of the other calls.
Returned(p) == call' = [call EXCEPT ![p] = Resting] /\ UNCHANGED result
Enters(p) == call[p] = Resting /\ calls < MaxCalls /\ calls' = calls + 1

-----------------------------------------------------------------------------
(* The loop the timed calls share: try, and delay one tick while some of   *)
(* the time is left.  op is "sem", "send" or "recv".                       *)
Object(op) == IF op = "sem" THEN "sem" ELSE "mq"
Allowed(op) == CASE op = "send" -> "r" \in flags [] op = "recv" -> "w" \in flags [] OTHER -> semLive

\* s_sem_wait, s_queue_read and s_queue_write: one super_call.
KernelTry(op) ==
  LET o == Object(op)
  IN IF ~Allowed(op) \/ (op = "send" /\ kval[o] = MaxUnits) \/ (op # "send" /\ kval[o] = 0)
     THEN [done |-> FALSE, val |-> kval]
     ELSE [done |-> TRUE, val |-> [kval EXCEPT ![o] = IF op = "send" THEN @ + 1 ELSE @ - 1]]

\* The unlock at the end of a queue call; a semaphore call has none.
Unlock(p) ==
  /\ mqLock' = IF call[p].op = "sem" THEN mqLock ELSE Nobody
  /\ holds' = holds \ {p}

\* A call returns err, or EBUSY when its unlock is refused.
Ends(p, err, took, waited) ==
  \/ Return(p, err, call[p].op, took, waited, call[p].asked) /\ Unlock(p)
  \/ /\ redone /\ call[p].op # "sem"
     /\ Return(p, "busy", call[p].op, took, waited, call[p].asked)
     /\ holds' = holds \ {p} /\ UNCHANGED mqLock

\* Mutant of Try: a try that times out keeps the unit it failed to report.
TryLeaks(p) ==
  LET c == call[p]
      k == KernelTry(c.op)
      left == IF c.op # "sem" /\ "nonblock" \in flags THEN 0 ELSE c.left
  IN /\ c.at = "try"
     /\ kval' = k.val
     /\ moved' = moved
     /\ \/ k.done /\ Ends(p, "ok", TRUE, c.waited)
        \/ ~k.done /\ left = 0 /\ Ends(p, "timedout", FALSE, c.waited)
        \/ ~k.done /\ left > 0 /\ call' = [call EXCEPT ![p].at = "delay"] /\ UNCHANGED <<result, mqLock, holds>>
     /\ UNCHANGED <<semLive, flags, ptLock, redone, attr, calls>>
Try(p) ==
  LET c == call[p]
      k == KernelTry(c.op)
      left == IF c.op # "sem" /\ "nonblock" \in flags THEN 0 ELSE c.left
  IN /\ c.at = "try"
     /\ kval' = k.val
     /\ moved' = IF k.done THEN [moved EXCEPT ![Object(c.op)] = IF c.op = "send" THEN @ + 1 ELSE @ - 1]
                 ELSE moved
     /\ \/ k.done /\ Ends(p, "ok", TRUE, c.waited)
        \/ ~k.done /\ left = 0 /\ Ends(p, "timedout", FALSE, c.waited)
        \/ ~k.done /\ left > 0 /\ call' = [call EXCEPT ![p].at = "delay"] /\ UNCHANGED <<result, mqLock, holds>>
     /\ UNCHANGED <<semLive, flags, ptLock, redone, attr, calls>>

\* Mutant of Delayed: the ticks left are not counted down.
DelayedForever(p) ==
  /\ call[p].at = "delay"
  /\ call' = [call EXCEPT ![p].at = "try", ![p].waited = 0]
  /\ UNCHANGED <<kval, moved, semLive, flags, mqLock, ptLock, holds, redone, attr, result, calls>>
\* os_delay_ticks(1) is over: the count goes down, and at 0 the loop ends with
\* err as it was set at the top.
Delayed(p) ==
  LET c == call[p]
  IN /\ c.at = "delay"
     /\ IF c.left = 1 THEN Ends(p, "ok", FALSE, c.waited + 1)
        ELSE /\ call' = [call EXCEPT ![p].at = "try", ![p].left = @ - 1, ![p].waited = @ + 1]
             /\ UNCHANGED <<result, mqLock, holds>>
     /\ UNCHANGED <<kval, moved, semLive, flags, ptLock, redone, attr, calls>>

-----------------------------------------------------------------------------
(* posix_semaphore.c. *)

\* sem_init and sem_destroy; the other calls refuse a semaphore without id, and
\* one that is waiting meanwhile finds its tries fail.
SemInit(p, value) ==
  /\ Enters(p) /\ ~semLive /\ semLive' = TRUE
  /\ kval' = [kval EXCEPT !["sem"] = value] /\ moved' = [moved EXCEPT !["sem"] = value]
  /\ UNCHANGED <<flags, mqLock, ptLock, holds, redone, attr, call, result>>
SemDestroy(p) ==
  /\ Enters(p) /\ semLive /\ semLive' = FALSE
  /\ kval' = [kval EXCEPT !["sem"] = 0] /\ moved' = [moved EXCEPT !["sem"] = 0]
  /\ UNCHANGED <<flags, mqLock, ptLock, holds, redone, attr, call, result>>

\* sem_timedwait; sem_wait and sem_trywait are the call with no ticks.
SemTimedwait(p, n) ==
  /\ Enters(p) /\ semLive
  /\ call' = [call EXCEPT ![p] = [at |-> "try", op |-> "sem", left |-> n, waited |-> 0, asked |-> n]]
  /\ UNCHANGED <<kval, moved, semLive, flags, mqLock, ptLock, holds, redone, attr, result>>

SemPost(p) ==
  /\ Enters(p) /\ semLive /\ kval["sem"] < MaxUnits
  /\ kval' = [kval EXCEPT !["sem"] = @ + 1] /\ moved' = [moved EXCEPT !["sem"] = @ + 1]
  /\ UNCHANGED <<semLive, flags, mqLock, ptLock, holds, redone, attr, call, result>>

-----------------------------------------------------------------------------
(* posix_mqueue.c. *)

\* A call that has still to take g_mq_mutex.
ToLock(p, op, n) ==
  call' = [call EXCEPT ![p] = [at |-> "lock", op |-> op, left |-> n, waited |-> 0, asked |-> n]]
\* mq_timedsend and mq_timedreceive on Section, up to the lock.
MqTimed(p, op, n) ==
  /\ Enters(p) /\ ToLock(p, op, n)
  /\ UNCHANGED <<kval, moved, semLive, flags, mqLock, ptLock, holds, redone, attr, result>>
MqTimedsend(p, n) == MqTimed(p, "send", n)
MqTimedreceive(p, n) == MqTimed(p, "recv", n)
\* What a call does once it has the lock: the loop of the timed ones.
Inside(op) == IF op \in {"send", "recv"} THEN "try" ELSE "held"
\* Mutant of MqLock: the lock is not waited for.
MqLockAnyway(p) ==
  /\ call[p].at = "lock"
  /\ mqLock' = p /\ holds' = holds \cup {p} /\ call' = [call EXCEPT ![p].at = Inside(call[p].op)]
  /\ UNCHANGED <<kval, moved, semLive, flags, ptLock, redone, attr, calls, result>>
\* s_mq_acquire_lock: the lock is waited for, or refused.
MqLock(p) ==
  /\ call[p].at = "lock"
  /\ \/ /\ mqLock = Nobody
        /\ mqLock' = p /\ holds' = holds \cup {p}
        /\ call' = [call EXCEPT ![p].at = Inside(call[p].op)] /\ UNCHANGED result
     \/ Return(p, "busy", call[p].op, FALSE, 0, call[p].asked) /\ UNCHANGED <<mqLock, holds>>
  /\ UNCHANGED <<kval, moved, semLive, flags, ptLock, redone, attr, calls>>

\* Calls that end at their first checks: those on what mq_open returned for
\* success, which is NULL, and an mq_open without O_CREAT, of a long name, or
\* whose mutex is not initialised.
MqRefused(p) ==
  /\ Enters(p) /\ Returned(p)
  /\ UNCHANGED <<kval, moved, semLive, flags, mqLock, ptLock, holds, redone, attr>>

\* mq_open of a name and with O_CREAT initialises again the lock that every
\* queue shares, and then takes it for the kernel call.
MqOpen(p) ==
  /\ Enters(p) /\ ToLock(p, "open", 0)
  /\ redone' = (redone \/ holds # {}) /\ mqLock' = Nobody
  /\ UNCHANGED <<kval, moved, semLive, flags, ptLock, holds, attr, result>>
MqOpened(p) ==
  /\ call[p].at = "held" /\ call[p].op = "open"
  /\ Ends(p, "ok", FALSE, 0)
  /\ UNCHANGED <<kval, moved, semLive, flags, ptLock, redone, attr, calls>>

\* mq_close of Section resets the attributes under the lock, releases it, and
\* then destroys it, whoever has taken it in between; destroying a mutex that
\* is held is refused or frees it (external).
MqClose(p) ==
  /\ Enters(p) /\ ToLock(p, "close", 0)
  /\ UNCHANGED <<kval, moved, semLive, flags, mqLock, ptLock, holds, redone, attr, result>>
MqClosed(p) ==
  /\ call[p].at = "held" /\ call[p].op = "close"
  /\ flags' = {}
  /\ \/ call' = [call EXCEPT ![p].at = "deinit"] /\ Unlock(p) /\ UNCHANGED result
     \/ /\ redone /\ Return(p, "busy", "close", FALSE, 0, 0)
        /\ holds' = holds \ {p} /\ UNCHANGED mqLock
  /\ UNCHANGED <<kval, moved, semLive, ptLock, redone, attr, calls>>
MqLockDeinit(p) ==
  /\ call[p].at = "deinit"
  /\ redone' = (redone \/ holds # {}) /\ mqLock' \in {mqLock, Nobody}
  /\ Returned(p)
  /\ UNCHANGED <<kval, moved, semLive, flags, ptLock, holds, attr, calls>>

-----------------------------------------------------------------------------
(* posix_pthread.c. *)

\* pthread_attr_init, pthread_attr_destroy and pthread_attr_setstacksize, which
\* refuses a stack below the minimum.
Attr(p, size) ==
  /\ Enters(p) /\ attr' = size
  /\ UNCHANGED <<kval, moved, semLive, flags, mqLock, ptLock, holds, redone, call, result>>
AttrInit(p) == Attr(p, "enough")
AttrDestroy(p) == Attr(p, "none")
AttrSetstacksize(p, size) == Attr(p, IF size = "enough" THEN size ELSE attr)

\* pthread_create: the stack size is checked, the lock taken, and the stack
\* size read again from the caller's attributes for the kernel.
PthreadCreate(p) ==
  /\ Enters(p)
  /\ IF attr = "enough" THEN call' = [call EXCEPT ![p] = [at |-> "create", op |-> "pt"]] /\ UNCHANGED result
     ELSE Returned(p)   \* -EINVAL
  /\ UNCHANGED <<kval, moved, semLive, flags, mqLock, ptLock, holds, redone, attr>>
PthreadCreateLock(p) ==
  /\ call[p].at = "create"
  /\ \/ /\ ptLock = Nobody /\ ptLock' = p
        /\ call' = [call EXCEPT ![p].at = "created"] /\ UNCHANGED result
     \/ Returned(p) /\ UNCHANGED ptLock   \* -EBUSY
  /\ UNCHANGED <<kval, moved, semLive, flags, mqLock, holds, redone, attr, calls>>
PthreadCreated(p) ==
  /\ call[p].at = "created"
  /\ Returned(p) /\ ptLock' = Nobody
  /\ UNCHANGED <<kval, moved, semLive, flags, mqLock, holds, redone, attr, calls>>

\* pthread_exit: the kernel ends the thread inside the lock, or without it when
\* it was refused, which is not asked.
PthreadExit(p) ==
  /\ Enters(p)
  /\ \/ ptLock = Nobody /\ ptLock' = p
     \/ UNCHANGED ptLock
  /\ call' = [call EXCEPT ![p] = Dead]
  /\ UNCHANGED <<kval, moved, semLive, flags, mqLock, holds, redone, attr, result>>

-----------------------------------------------------------------------------
PInit ==
  /\ kval = [o \in {"sem", "mq"} |-> 0] /\ moved = kval
  /\ semLive = FALSE
  /\ flags \in Flags
  /\ mqLock = Nobody /\ ptLock = Nobody /\ holds = {} /\ redone = FALSE
  /\ attr = "none"
  /\ call = [p \in Threads |-> Resting] /\ result = [p \in Threads |-> None]
  /\ calls = 0

InCall(p) ==
  \/ Try(p) \/ Delayed(p) \/ MqLock(p) \/ MqOpened(p) \/ MqClosed(p) \/ MqLockDeinit(p)
  \/ PthreadCreateLock(p) \/ PthreadCreated(p)
NewCall(p) ==
  \/ \E n \in Waits : SemTimedwait(p, n) \/ MqTimedsend(p, n) \/ MqTimedreceive(p, n)
  \/ \E v \in 0..MaxUnits : SemInit(p, v)
  \/ SemDestroy(p) \/ SemPost(p) \/ MqRefused(p) \/ MqOpen(p) \/ MqClose(p)
  \/ AttrInit(p) \/ AttrDestroy(p) \/ \E size \in {"small", "enough"} : AttrSetstacksize(p, size)
  \/ PthreadCreate(p) \/ PthreadExit(p)
PosixNext == \E p \in Threads : InCall(p) \/ NewCall(p)

\* A thread in a call goes on: the kernel's calls return and a tick passes.
PosixSpec == PInit /\ [][PosixNext]_pvars /\ \A p \in Threads : WF_pvars(InCall(p))

-----------------------------------------------------------------------------
\* sem_timedwait, mq_timedsend, mq_timedreceive, sem_post, mq_open, mq_close and
\* pthread_create of concurrent threads.  What the kernel holds is exactly what
\* the calls put in less what they took; a call that reports success while some
\* of its time is left did its work, one that reports a timeout did not, one that
\* reports EBUSY did not unless its lock was lost, and none sleeps longer than it
\* was asked; unless g_mq_mutex was initialised or destroyed while held at most
\* one thread is inside it; and until a thread exits g_pthread_mutex is held only
\* by one that creates a thread.
PosixSafe ==
  /\ moved = kval
  /\ \A p \in Threads :
       LET r == result[p]
       IN /\ r.err = "ok" /\ r.of \in {"sem", "send", "recv"} /\ (r.asked > 0 => r.waited < r.asked) => r.took
          /\ r.err = "timedout" => ~r.took
          /\ r.err = "busy" /\ r.took => redone
          /\ r.waited <= r.asked
  /\ ~redone => Cardinality(holds) <= 1
  /\ ptLock # Nobody /\ (\A p \in Threads : call[p].at # "dead") => call[ptLock].at = "created"

\* The loops of sem_timedwait, mq_timedsend and mq_timedreceive end after the
\* ticks they were given although nobody posts, sends or receives.
TimedReturns == \A p \in Threads : (call[p].at \in {"try", "delay"}) ~> (call[p].at = "idle")

-----------------------------------------------------------------------------
(* What the headers and the comments promise and the code does not do. *)

\* semaphore.h:94: "ETIMEDOUT - The semaphore could not be locked before the
\* specified timeout expired."  A success is a lock.
SuccessLocked == \A p \in Threads : result[p].of = "sem" /\ result[p].err = "ok" => result[p].took
=============================================================================
