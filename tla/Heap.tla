--------------------------------- MODULE Heap ---------------------------------
(***************************************************************************)
(* The heap of lib/libc/malloc_lite.c: one list of chunks in address order *)
(* from _heap_start, walked first-fit by malloc and coalesced by free.     *)
(* Addresses are offsets from _heap_start and a chunk is known by the      *)
(* address of its header; the pointer a caller gets is the header + HDR.   *)
(* Every turn of a loop is a step, taken by the caller that holds mlock    *)
(* (heap_lock and heap_unlock; their interrupt side is left out here).     *)
(*                                                                         *)
(* The code has three ways out of the list, which the auxiliary variable   *)
(* fault records instead of hiding them:                                   *)
(*   "null_walk"  no chunk is large enough and the walk of malloc follows  *)
(*                the NULL next of the last chunk;                         *)
(*   "in_use"     the walk stops at the last chunk even if it is in use,   *)
(*                and malloc hands it out a second time;                   *)
(*   "overrun"    realloc copies the old size into a smaller chunk, or     *)
(*                free writes a header that is no longer one.              *)
(* What the program does then depends on bytes outside the list, or on     *)
(* what two owners of one block write into it: the model stops there.      *)
(***************************************************************************)
EXTENDS Integers, FiniteSets

CONSTANTS Callers,    \* the cores or contexts that use the heap
          NoCaller,   \* not one of them: mlock is free
          HEAP_SIZE,  \* _heap_end - _heap_start
          HDR,        \* sizeof(chunk_t)
          Sizes,      \* the sizes callers ask for
          MaxLive     \* bound on the blocks held at one time

ASSUME HeapAssumption ==
  /\ HEAP_SIZE \in Nat /\ HDR \in Nat \ {0} /\ HEAP_SIZE > HDR
  /\ Sizes \subseteq Nat \ {0} /\ MaxLive \in Nat
  /\ NoCaller \notin Callers

NULL == -1
Addr == 0 .. HEAP_SIZE - 1

VARIABLES
  chunk,   \* the list: header address |-> [size, free, next]
  mlock,   \* the caller between heap_lock and heap_unlock, or NoCaller
  call,    \* per caller: where it is in malloc / free / realloc, and its locals
  live,    \* allocations the callers own: [ptr: header, size: bytes asked for]
  fault    \* auxiliary, see above

vars == <<chunk, mlock, call, live, fault>>

Idle == [pc |-> "idle", n |-> 0, cur |-> NULL, old |-> {}]

(* platform_init_heap: one free chunk covers the heap. *)
Init ==
  /\ chunk = [a \in {0} |-> [size |-> HEAP_SIZE - HDR, free |-> TRUE, next |-> NULL]]
  /\ mlock = NoCaller
  /\ call = [c \in Callers |-> Idle]
  /\ live = {}
  /\ fault = "none"

Running == fault = "none"

(* The blocks that callers own, the ones under a realloc included. *)
Owned == live \cup UNION {call[c].old : c \in Callers}

(* malloc(n) up to its loop, with the block that realloc will give back.   *)
(* Sizes count alignment units: ROUNDUP_ALIGN is done.                     *)
StartMalloc(c, n, old) ==
  /\ Running /\ call[c].pc = "idle" /\ mlock = NoCaller
  /\ Cardinality(Owned) < MaxLive
  /\ chunk[0].size # 0
  /\ mlock' = c
  /\ call' = [call EXCEPT ![c] = [pc |-> "walk", n |-> n, cur |-> 0, old |-> old]]
  /\ UNCHANGED <<chunk, fault>>

(* malloc, and calloc, which asks malloc for the product of its arguments. *)
Malloc(c, n) ==
  /\ StartMalloc(c, n, {})
  /\ UNCHANGED live

(* realloc(p, n) of an owned p and n # 0 calls malloc first. *)
Realloc(c, m, n) ==
  /\ StartMalloc(c, n, {m})
  /\ live' = live \ {m}

(* Mutant of PassedOver: an exact fit is passed over. *)
PassedOverStrict(c) ==
  LET k == chunk[call[c].cur]
  IN  k.size <= call[c].n \/ (~k.free /\ k.next # NULL)

(* The test of malloc's while loop: this chunk is passed over. *)
PassedOver(c) ==
  LET k == chunk[call[c].cur]
  IN  k.size < call[c].n \/ (~k.free /\ k.next # NULL)

(* cur = cur->next, and the next test of the loop reads through it. *)
Walk(c) ==
  /\ Running /\ call[c].pc = "walk" /\ PassedOver(c)
  /\ LET next == chunk[call[c].cur].next
     IN  /\ fault' = IF next = NULL THEN "null_walk" ELSE fault
         /\ call' = [call EXCEPT ![c].cur = next]
  /\ UNCHANGED <<chunk, mlock, live>>

(* Mutant of Split: the header of the new chunk is not accounted for. *)
SplitNoHeader(a, n) ==
  LET new == a + n + HDR
      rest == [size |-> chunk[a].size - n, free |-> TRUE, next |-> chunk[a].next]
  IN  [b \in DOMAIN chunk \cup {new} |->
         IF b = new THEN rest
         ELSE IF b = a THEN [size |-> n, free |-> FALSE, next |-> new]
         ELSE chunk[b]]

(* split(fit_slot, size): the tail of the chunk becomes a free chunk. *)
Split(a, n) ==
  LET new == a + n + HDR
      rest == [size |-> chunk[a].size - n - HDR, free |-> TRUE, next |-> chunk[a].next]
  IN  [b \in DOMAIN chunk \cup {new} |->
         IF b = new THEN rest
         ELSE IF b = a THEN [size |-> n, free |-> FALSE, next |-> new]
         ELSE chunk[b]]

(* malloc ends at the chunk cur, which fits exactly or is split; realloc   *)
(* then goes on to copy.                                                   *)
Take(c) ==
  LET a == call[c].cur
      n == call[c].n
  IN  /\ Running /\ call[c].pc = "walk" /\ ~PassedOver(c)
      /\ \/ chunk[a].size = n /\ chunk' = [chunk EXCEPT ![a].free = FALSE]
         \/ chunk[a].size > n + HDR /\ chunk' = Split(a, n)
      /\ fault' = IF chunk[a].free THEN fault ELSE "in_use"
      /\ live' = live \cup {[ptr |-> a, size |-> n]}
      /\ call' = [call EXCEPT ![c] = IF @.old = {} THEN Idle ELSE [@ EXCEPT !.pc = "copy"]]
      /\ mlock' = NoCaller

(* Mutant of TakeNothing: this exit forgets heap_unlock. *)
TakeNothingLocked(c) ==
  LET a == call[c].cur
      n == call[c].n
  IN  /\ Running /\ call[c].pc = "walk" /\ ~PassedOver(c)
      /\ chunk[a].size # n /\ chunk[a].size <= n + HDR
      /\ live' = live \cup call[c].old
      /\ call' = [call EXCEPT ![c] = Idle]
      /\ UNCHANGED <<chunk, mlock, fault>>

(* The chunk cur is larger than asked for but cannot be split: NULL.  The  *)
(* block of a realloc stays with its owner.                                *)
TakeNothing(c) ==
  LET a == call[c].cur
      n == call[c].n
  IN  /\ Running /\ call[c].pc = "walk" /\ ~PassedOver(c)
      /\ chunk[a].size # n /\ chunk[a].size <= n + HDR
      /\ live' = live \cup call[c].old
      /\ call' = [call EXCEPT ![c] = Idle]
      /\ mlock' = NoCaller
      /\ UNCHANGED <<chunk, fault>>

(* realloc: memcpy(new_p, p, header->size), outside the lock. *)
Copy(c) ==
  \E m \in call[c].old :
    /\ Running /\ call[c].pc = "copy"
    /\ fault' = IF m.ptr \in DOMAIN chunk /\ chunk[m.ptr].size <= call[c].n
                  THEN fault ELSE "overrun"
    /\ call' = [call EXCEPT ![c].pc = "free"]
    /\ UNCHANGED <<chunk, mlock, live>>

(* free(p): heap_lock, the header is marked free and the first merge()     *)
(* starts at freeList.  p is a block somebody owns, so its header is in    *)
(* the heap; it may have ceased to be one.                                 *)
StartFree(c, m) ==
  /\ Running /\ mlock = NoCaller
  /\ \/ /\ m.ptr \in DOMAIN chunk
        /\ chunk' = [chunk EXCEPT ![m.ptr].free = TRUE]
        /\ mlock' = c
        /\ call' = [call EXCEPT ![c] = [pc |-> "merge1", n |-> 0, cur |-> 0, old |-> {}]]
        /\ UNCHANGED fault
     \/ /\ m.ptr \notin DOMAIN chunk
        /\ fault' = "overrun"
        /\ UNCHANGED <<chunk, mlock, call>>

(* free(p), and realloc(p, 0), which is free(p). *)
Free(c, m) ==
  /\ call[c].pc = "idle"
  /\ StartFree(c, m)
  /\ live' = live \ {m}

(* The free(p) that ends a realloc. *)
FreeOld(c) ==
  /\ call[c].pc = "free"
  /\ \E m \in call[c].old : StartFree(c, m)
  /\ UNCHANGED live

(* cur joined with its successor. *)
Joined(a) ==
  LET b == chunk[a].next
  IN  [d \in DOMAIN chunk \ {b} |->
         IF d = a THEN [size |-> chunk[a].size + chunk[b].size + HDR,
                        free |-> TRUE, next |-> chunk[b].next]
         ELSE chunk[d]]

(* while(cur && cur->next) *)
HasNext(a) == a # NULL /\ chunk[a].next # NULL

Merging(c) == Running /\ call[c].pc \in {"merge1", "merge2"}

(* Mutant of Merge: after joining two chunks the loop stays where it is,   *)
(* and never leaves a chunk it did not join.                               *)
MergeStay(c) ==
  LET a == call[c].cur
  IN  /\ Merging(c) /\ HasNext(a)
      /\ chunk' = IF chunk[a].free /\ chunk[chunk[a].next].free THEN Joined(a) ELSE chunk
      /\ UNCHANGED <<mlock, call, live, fault>>

(* Mutant of Merge: the successor's free flag is not looked at. *)
MergeAny(c) ==
  LET a == call[c].cur
  IN  /\ Merging(c) /\ HasNext(a)
      /\ chunk' = IF chunk[a].free THEN Joined(a) ELSE chunk
      /\ call' = [call EXCEPT ![c].cur = chunk'[a].next]
      /\ UNCHANGED <<mlock, live, fault>>

(* A turn of merge()'s loop: cur is joined with its successor if both are  *)
(* free, and the loop moves on to the chunk that follows.                  *)
Merge(c) ==
  LET a == call[c].cur
  IN  /\ Merging(c) /\ HasNext(a)
      /\ chunk' = IF chunk[a].free /\ chunk[chunk[a].next].free THEN Joined(a) ELSE chunk
      /\ call' = [call EXCEPT ![c].cur = chunk'[a].next]
      /\ UNCHANGED <<mlock, live, fault>>

(* Mutant of MergeDone: merge() is run once only. *)
MergeDoneOnce(c) ==
  LET a == call[c].cur
  IN  /\ Merging(c) /\ ~HasNext(a)
      /\ call' = [call EXCEPT ![c] = Idle]
      /\ mlock' = NoCaller
      /\ UNCHANGED <<chunk, live, fault>>

(* merge() is over: free runs it a second time, then unlocks. *)
MergeDone(c) ==
  LET a == call[c].cur
  IN  /\ Merging(c) /\ ~HasNext(a)
      /\ \/ /\ call[c].pc = "merge1"
            /\ call' = [call EXCEPT ![c].pc = "merge2", ![c].cur = 0]
            /\ UNCHANGED mlock
         \/ /\ call[c].pc = "merge2"
            /\ call' = [call EXCEPT ![c] = Idle]
            /\ mlock' = NoCaller
      /\ UNCHANGED <<chunk, live, fault>>

Working(c) ==
  \/ Walk(c) \/ Take(c) \/ TakeNothing(c) \/ Copy(c) \/ FreeOld(c)
  \/ Merge(c) \/ MergeDone(c)

Next ==
  \E c \in Callers :
    \/ \E n \in Sizes : Malloc(c, n)
    \/ \E m \in live, n \in Sizes : Realloc(c, m, n)
    \/ \E m \in live : Free(c, m)
    \/ Working(c)

Spec == Init /\ [][Next]_vars

(* A caller inside the allocator keeps executing. *)
FairSpec == Spec /\ \A c \in Callers : WF_vars(Working(c))

-----------------------------------------------------------------------------
Blocks == [ptr : Addr, size : Sizes]

(* The list consists of headers inside the heap, the locals of the callers *)
(* of headers on it, and the holder of mlock is the one that is walking.   *)
TypeOK ==
  /\ DOMAIN chunk \subseteq Addr /\ 0 \in DOMAIN chunk
  /\ chunk \in [DOMAIN chunk -> [size : Nat, free : BOOLEAN, next : Addr \cup {NULL}]]
  /\ mlock \in Callers \cup {NoCaller}
  /\ live \subseteq Blocks
  /\ fault \in {"none", "in_use", "null_walk", "overrun"}
  /\ call \in [Callers -> [pc : {"idle", "walk", "copy", "free", "merge1", "merge2"},
                           n : Nat, cur : Addr \cup {NULL}, old : SUBSET Blocks]]
  /\ \A c \in Callers :
       /\ call[c].pc \in {"walk", "merge1", "merge2"} <=> mlock = c
       /\ mlock = c /\ call[c].cur # NULL => call[c].cur \in DOMAIN chunk
       /\ call[c].cur = NULL /\ call[c].pc = "walk" => fault = "null_walk"

(* The chunks tile the heap: each ends where the next one begins and the   *)
(* last one ends at _heap_end.  No split, merge or interleaving of calls   *)
(* loses or gains a byte.                                                  *)
Tiled ==
  \A a \in DOMAIN chunk :
    LET end == a + HDR + chunk[a].size
    IN  IF chunk[a].next = NULL THEN end = HEAP_SIZE
        ELSE chunk[a].next = end /\ end \in DOMAIN chunk

(* Until one of the faults happens, the chunks that are not free are       *)
(* exactly the blocks the callers own, one owner each, and each is as      *)
(* large as was asked for: no overlap and no leak.                         *)
ExclusiveBlocks ==
  fault = "none" =>
    /\ \A m \in Owned : /\ m.ptr \in DOMAIN chunk
                        /\ ~chunk[m.ptr].free
                        /\ chunk[m.ptr].size >= m.size
    /\ \A a \in DOMAIN chunk :
         ~chunk[a].free => \E m \in Owned : m.ptr = a
    /\ \A m1, m2 \in Owned : m1.ptr = m2.ptr => m1 = m2

(* Whenever the heap is unlocked no two free chunks are neighbours: two    *)
(* runs of merge() are enough after every free, so a heap whose blocks     *)
(* were all given back is one chunk again.                                 *)
Coalesced ==
  mlock = NoCaller =>
    \A a \in DOMAIN chunk :
      chunk[a].free /\ chunk[a].next # NULL => ~chunk[chunk[a].next].free

(* What malloc, realloc, free and merge leave of the heap between any two  *)
(* turns of their loops.                                                   *)
HeapSafe == TypeOK /\ Tiled /\ ExclusiveBlocks /\ Coalesced

(* malloc follows the NULL of the last chunk, or hands out a chunk in use, *)
(* only on an exhausted heap: no free chunk anywhere in the list has room  *)
(* for the request.                                                        *)
FaultsOnlyWhenFull ==
  [][fault' \in {"null_walk", "in_use"} =>
       \A c \in Callers, a \in DOMAIN chunk :
         mlock = c /\ chunk[a].free => chunk[a].size < call[c].n]_fault

(* The loops of malloc and of free end: mlock is given back (or the list   *)
(* was left).  Which of the waiting callers is next is up to the lock.     *)
LockGivenBack == \A c \in Callers : mlock = c ~> (mlock # c \/ ~Running)
=============================================================================
