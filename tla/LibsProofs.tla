------------------------------ MODULE LibsProofs ------------------------------
(* Proofs about the libraries: the heap of malloc_lite.c (module Heap) for    *)
(* any heap, header size, requests and number of callers, the time arithmetic *)
(* of posix_utils.c (module Timespec) for any tick and width, and string.c    *)
(* (module Strings) for any memory, blocks and strings.                       *)
EXTENDS Heap, Timespec, Strings, TLAPS

-----------------------------------------------------------------------------
(* The inductive invariant of the heap.                                      *)

End(a) == a + HDR + chunk[a].size

(* The chunks do not overlap. *)
Ordered == \A a, b \in DOMAIN chunk : a < b => End(a) <= b

(* The list of chunks, as TypeOK, Tiled and Ordered have it. *)
Chunks == [size : Nat, free : BOOLEAN, next : Addr \cup {NULL}]

ListOK ==
  /\ DOMAIN chunk \subseteq Addr /\ 0 \in DOMAIN chunk
  /\ chunk \in [DOMAIN chunk -> Chunks]
  /\ Tiled /\ Ordered

Records == [pc : {"idle", "walk", "copy", "free", "merge1", "merge2"},
            n : Nat, cur : Addr \cup {NULL}, old : SUBSET Blocks]

Within(c) == call[c].pc \in {"walk", "merge1", "merge2"}

(* What TypeOK says of the callers and of mlock. *)
CallsOK ==
  /\ mlock \in Callers \cup {NoCaller}
  /\ live \subseteq Blocks
  /\ fault \in {"none", "in_use", "null_walk", "overrun"}
  /\ call \in [Callers -> Records]
  /\ \A c \in Callers :
       /\ Within(c) <=> mlock = c
       /\ mlock = c /\ call[c].cur # NULL => call[c].cur \in DOMAIN chunk
       /\ call[c].cur = NULL /\ call[c].pc = "walk" => fault = "null_walk"

(* What a caller holds while it is in the allocator: the block of a realloc   *)
(* until it is given back, and nothing else.                                  *)
Holding ==
  \A c \in Callers :
    /\ call[c].pc \in {"idle", "merge1", "merge2"} => call[c].old = {}
    /\ call[c].pc = "walk" => call[c].n \in Sizes
    /\ \A m1, m2 \in call[c].old : m1 = m2

(* No block has two owners. *)
OneOwner ==
  /\ \A c \in Callers : call[c].old \cap live = {}
  /\ \A c, d \in Callers : c # d => call[c].old \cap call[d].old = {}

(* A free chunk whose successor is free: what merge() is there to join. *)
Pair(a) == chunk[a].free /\ chunk[a].next # NULL /\ chunk[chunk[a].next].free

(* The pairs there are.  One free makes two at most, the first of which ends  *)
(* where the second begins; the first run of merge() leaves one, the second   *)
(* none.                                                                      *)
Pairs ==
  /\ mlock = NoCaller => \A a \in DOMAIN chunk : ~Pair(a)
  /\ \A c \in Callers :
       /\ call[c].pc = "walk" => \A a \in DOMAIN chunk : ~Pair(a)
       /\ call[c].pc = "merge1" =>
            \A a, b \in DOMAIN chunk : Pair(a) /\ Pair(b) /\ a < b =>
              chunk[a].next = b /\ call[c].cur # NULL /\ a >= call[c].cur
       /\ call[c].pc = "merge2" =>
            /\ \A a, b \in DOMAIN chunk : Pair(a) /\ Pair(b) => a = b
            /\ \A a \in DOMAIN chunk : Pair(a) => call[c].cur # NULL /\ a >= call[c].cur

(* The free chunks that malloc has walked past are too small. *)
Searched ==
  \A c \in Callers : call[c].pc = "walk" /\ fault = "none" =>
    \A a \in DOMAIN chunk : chunk[a].free /\ a < call[c].cur => chunk[a].size < call[c].n

HeapInv ==
  /\ ListOK /\ CallsOK /\ Holding /\ ExclusiveBlocks
  /\ (fault = "none" => OneOwner) /\ Pairs /\ Searched

-----------------------------------------------------------------------------
(* The list of chunks, and what a split, a join and a change of a flag make   *)
(* of it.                                                                     *)

(* One chunk of the list: where it ends and what follows it. *)
LEMMA ListView ==
  ASSUME ListOK, NEW a \in DOMAIN chunk
  PROVE  /\ HDR \in Nat /\ HDR > 0 /\ HEAP_SIZE \in Nat /\ NULL = -1
         /\ a \in Int /\ a >= 0 /\ a < HEAP_SIZE
         /\ chunk[a] \in Chunks /\ chunk[a].size \in Nat /\ chunk[a].next \in Int
         /\ End(a) \in Int /\ End(a) > a /\ End(a) <= HEAP_SIZE
         /\ chunk[a].next = NULL => End(a) = HEAP_SIZE
         /\ chunk[a].next # NULL => chunk[a].next = End(a) /\ chunk[a].next \in DOMAIN chunk
<1>1. HDR \in Nat /\ HDR > 0 /\ HEAP_SIZE \in Nat /\ NULL = -1
  BY HeapAssumption DEF NULL
<1>2. \A x \in DOMAIN chunk : x \in Int /\ x >= 0 /\ x < HEAP_SIZE
  BY <1>1 DEF ListOK, Addr
<1>3. chunk[a] \in Chunks
  BY DEF ListOK
<1>4. chunk[a].size \in Nat /\ chunk[a].next \in Int
  BY <1>1, <1>3 DEF Chunks, Addr
<1>5. IF chunk[a].next = NULL THEN End(a) = HEAP_SIZE
      ELSE chunk[a].next = End(a) /\ End(a) \in DOMAIN chunk
  BY DEF ListOK, Tiled, End
<1>6. End(a) \in Int /\ End(a) > a
  BY <1>1, <1>2, <1>4 DEF End
<1> QED
  BY <1>1, <1>2, <1>3, <1>4, <1>5, <1>6

(* Two chunks of the list: the chunks after a begin where it ends or later,   *)
(* and those before its successor are those up to a.                          *)
LEMMA ListOrder ==
  ASSUME ListOK, NEW a \in DOMAIN chunk, NEW b \in DOMAIN chunk
  PROVE  /\ a < b => chunk[a].next # NULL /\ chunk[a].next <= b /\ End(a) <= b
         /\ chunk[a].next = chunk[b].next => a = b
         /\ chunk[a].next # NULL => chunk[a].next > a
<1>1. ASSUME NEW x \in DOMAIN chunk, NEW y \in DOMAIN chunk, x < y
      PROVE  chunk[x].next # NULL /\ chunk[x].next <= y /\ End(x) <= y
  <2>1. End(x) <= y
    BY <1>1 DEF ListOK, Ordered
  <2>2. y < HEAP_SIZE /\ y \in Int
    BY ListView
  <2> QED
    BY <2>1, <2>2, ListView
<1>2. \A x \in DOMAIN chunk : chunk[x].next # NULL => chunk[x].next > x
  BY ListView
<1>3. a \in Int /\ b \in Int /\ NULL = -1 /\ a >= 0 /\ b >= 0
  BY ListView
<1>4. ASSUME NEW x \in DOMAIN chunk, NEW y \in DOMAIN chunk, x < y
      PROVE  chunk[x].next # chunk[y].next
  <2>1. /\ chunk[x].next # NULL /\ chunk[x].next <= y
        /\ chunk[y].next # NULL => chunk[y].next > y
    BY <1>1, <1>2, <1>4
  <2>2. y \in Int /\ chunk[x].next \in Int /\ chunk[y].next \in Int
    BY ListView
  <2> QED
    BY <2>1, <2>2
<1> QED
  BY <1>1, <1>2, <1>3, <1>4

(* The flag of p is written. *)
LEMMA FlagStep ==
  ASSUME ListOK, NEW p \in DOMAIN chunk, NEW v \in BOOLEAN,
         chunk' = [chunk EXCEPT ![p].free = v]
  PROVE  /\ ListOK' /\ DOMAIN chunk' = DOMAIN chunk
         /\ \A a \in DOMAIN chunk : a # p => chunk'[a] = chunk[a]
         /\ \A a \in DOMAIN chunk :
              chunk'[a].size = chunk[a].size /\ chunk'[a].next = chunk[a].next
         /\ chunk'[p].free = v
<1>1. chunk \in [DOMAIN chunk -> Chunks] /\ DOMAIN chunk' = DOMAIN chunk
  BY DEF ListOK
<1>2. \A a \in DOMAIN chunk : a # p => chunk'[a] = chunk[a]
  BY <1>1
<1>3. chunk'[p] = [chunk[p] EXCEPT !.free = v]
  BY <1>1
<1>4. /\ chunk'[p] \in Chunks /\ chunk'[p].free = v
      /\ chunk'[p].size = chunk[p].size /\ chunk'[p].next = chunk[p].next
  BY <1>1, <1>3 DEF Chunks
<1>5. \A a \in DOMAIN chunk :
        chunk'[a].size = chunk[a].size /\ chunk'[a].next = chunk[a].next
  BY <1>2, <1>4
<1>6. chunk' \in [DOMAIN chunk' -> Chunks]
  <2>1. \A a \in DOMAIN chunk' : chunk'[a] \in Chunks
    BY <1>1, <1>2, <1>4
  <2>2. chunk' = [a \in DOMAIN chunk' |-> chunk'[a]]
    BY <1>1
  <2> QED
    BY <2>1, <2>2
<1>7. Tiled' /\ Ordered'
  BY <1>1, <1>5 DEF ListOK, Tiled, Ordered, End
<1> QED
  BY <1>1, <1>2, <1>4, <1>5, <1>6, <1>7 DEF ListOK

(* split(): a keeps n bytes, and the rest of it becomes a free chunk. *)
LEMMA SplitStep ==
  ASSUME ListOK, NEW a \in DOMAIN chunk, NEW n \in Nat, chunk[a].size > n + HDR,
         chunk' = Split(a, n)
  PROVE  /\ ListOK' /\ a + n + HDR \notin DOMAIN chunk /\ a + n + HDR > a
         /\ DOMAIN chunk' = DOMAIN chunk \cup {a + n + HDR}
         /\ \A b \in DOMAIN chunk : b # a => chunk'[b] = chunk[b]
         /\ chunk'[a] = [size |-> n, free |-> FALSE, next |-> a + n + HDR]
         /\ chunk'[a + n + HDR] =
              [size |-> chunk[a].size - n - HDR, free |-> TRUE, next |-> chunk[a].next]
<1> DEFINE new == a + n + HDR
<1>1. /\ HDR \in Nat /\ HDR > 0 /\ HEAP_SIZE \in Nat /\ NULL = -1
      /\ a \in Int /\ a >= 0 /\ chunk[a].size \in Nat
      /\ End(a) \in Int /\ End(a) <= HEAP_SIZE /\ End(a) = a + HDR + chunk[a].size
  BY ListView DEF End
<1>2. new \in Int /\ new > a /\ new + HDR < End(a)
  BY <1>1
<1>3. new \notin DOMAIN chunk
  <2> SUFFICES ASSUME new \in DOMAIN chunk PROVE FALSE
    OBVIOUS
  <2>1. End(a) <= new
    BY <1>2, ListOrder
  <2> QED
    BY <1>1, <1>2, <2>1
<1> HIDE DEF new
<1>4. /\ DOMAIN chunk' = DOMAIN chunk \cup {new}
      /\ \A b \in DOMAIN chunk : b # a => chunk'[b] = chunk[b]
      /\ chunk'[a] = [size |-> n, free |-> FALSE, next |-> new]
      /\ chunk'[new] = [size |-> chunk[a].size - n - HDR, free |-> TRUE, next |-> chunk[a].next]
  BY <1>2, <1>3 DEF Split, new
<1>5. new \in Addr /\ chunk[a].next \in Addr \cup {NULL} /\ chunk[a].size - n - HDR \in Nat
  BY <1>1, <1>2, ListView DEF Addr, new, Chunks
<1>6. DOMAIN chunk' \subseteq Addr /\ 0 \in DOMAIN chunk'
  BY <1>4, <1>5 DEF ListOK
<1>7. chunk' \in [DOMAIN chunk' -> Chunks]
  <2>1. chunk'[a] \in Chunks /\ chunk'[new] \in Chunks
    BY <1>4, <1>5 DEF Chunks
  <2>2. \A b \in DOMAIN chunk : b # a => chunk'[b] \in Chunks
    BY <1>4, ListView
  <2>3. \A b \in DOMAIN chunk' : chunk'[b] \in Chunks
    BY <1>4, <2>1, <2>2, Zenon
  <2>4. chunk' = [b \in DOMAIN chunk' |-> chunk'[b]]
    BY DEF Split
  <2> QED
    BY <2>3, <2>4
<1>8. End(a)' = new /\ End(new)' = End(a) /\ \A b \in DOMAIN chunk : b # a => End(b)' = End(b)
  BY <1>1, <1>2, <1>4 DEF End, new
<1>9. Tiled'
  <2> SUFFICES ASSUME NEW b \in DOMAIN chunk'
               PROVE  IF chunk'[b].next = NULL THEN End(b)' = HEAP_SIZE
                      ELSE chunk'[b].next = End(b)' /\ End(b)' \in DOMAIN chunk'
    BY DEF Tiled, End
  <2>1. CASE b = new
    BY <1>4, <1>8, <2>1, ListView
  <2>2. CASE b = a
    BY <1>1, <1>2, <1>4, <1>8, <2>2
  <2>3. CASE b # a /\ b \in DOMAIN chunk
    BY <1>4, <1>8, <2>3, ListView
  <2> QED
    BY <1>4, <2>1, <2>2, <2>3
<1>10. Ordered'
  <2> SUFFICES ASSUME NEW x \in DOMAIN chunk', NEW y \in DOMAIN chunk', x < y
               PROVE  End(x)' <= y
    BY DEF Ordered, End
  <2>1. x \in Int /\ y \in Int
    BY <1>2, <1>4, ListView
  <2>2. CASE x = new
    <3>1. y \in DOMAIN chunk /\ a < y
      BY <1>1, <1>2, <1>4, <2>1, <2>2
    <3> QED
      BY <1>8, <2>2, <3>1, ListOrder
  <2>3. CASE x = a /\ y # new
    <3>1. y \in DOMAIN chunk /\ End(a) <= y
      BY <1>4, <2>3, ListOrder
    <3> QED
      BY <1>1, <1>2, <1>8, <2>1, <2>3, <3>1
  <2>4. CASE x = a /\ y = new
    BY <1>2, <1>8, <2>4
  <2>5. CASE x \in DOMAIN chunk /\ x # a /\ y # new
    BY <1>4, <1>8, <2>5, ListOrder
  <2>6. CASE x \in DOMAIN chunk /\ x # a /\ y = new
    <3>1. x < a
      <4> SUFFICES ASSUME a < x PROVE FALSE
        BY <1>1, <2>1, <2>6
      <4>1. End(a) <= x
        BY <2>6, ListOrder
      <4> QED
        BY <1>1, <1>2, <2>1, <2>6, <4>1
    <3>2. End(x) <= a /\ End(x) \in Int
      BY <2>6, <3>1, ListOrder, ListView
    <3> QED
      BY <1>1, <1>2, <1>8, <2>6, <3>2
  <2> QED
    BY <1>4, <2>2, <2>3, <2>4, <2>5, <2>6
<1> QED
  BY <1>2, <1>3, <1>4, <1>6, <1>7, <1>9, <1>10 DEF ListOK, new

(* merge(): a takes in its successor. *)
LEMMA JoinStep ==
  ASSUME ListOK, NEW a \in DOMAIN chunk, NEW b \in DOMAIN chunk,
         b = chunk[a].next, chunk' = Joined(a)
  PROVE  /\ ListOK' /\ b > a /\ DOMAIN chunk' = DOMAIN chunk \ {b}
         /\ \A d \in DOMAIN chunk' : d # a => chunk'[d] = chunk[d]
         /\ chunk'[a] = [size |-> chunk[a].size + chunk[b].size + HDR,
                         free |-> TRUE, next |-> chunk[b].next]
<1>1. /\ HDR \in Nat /\ HDR > 0 /\ HEAP_SIZE \in Nat /\ NULL = -1
      /\ a \in Int /\ a >= 0 /\ chunk[a].size \in Nat
      /\ b \in Int /\ b >= 0 /\ chunk[b].size \in Nat
      /\ End(a) \in Int /\ End(a) = a + HDR + chunk[a].size
      /\ End(b) \in Int /\ End(b) = b + HDR + chunk[b].size
  BY ListView DEF End
<1>2. b = End(a) /\ b > a
  BY <1>1, ListView
<1>3. /\ DOMAIN chunk' = DOMAIN chunk \ {b}
      /\ \A d \in DOMAIN chunk' : d # a => chunk'[d] = chunk[d]
      /\ chunk'[a] = [size |-> chunk[a].size + chunk[b].size + HDR,
                      free |-> TRUE, next |-> chunk[b].next]
  BY <1>1, <1>2 DEF Joined
<1>4. a \in DOMAIN chunk' /\ DOMAIN chunk' \subseteq Addr /\ 0 \in DOMAIN chunk'
  BY <1>1, <1>2, <1>3 DEF ListOK
<1>5. chunk' \in [DOMAIN chunk' -> Chunks]
  <2>1. chunk'[a] \in Chunks
    BY <1>1, <1>3, ListView DEF Chunks
  <2>2. \A d \in DOMAIN chunk' : chunk'[d] \in Chunks
    BY <1>3, <2>1, ListView
  <2>3. chunk' = [d \in DOMAIN chunk' |-> chunk'[d]]
    BY DEF Joined
  <2> QED
    BY <2>2, <2>3
<1>6. End(a)' = End(b) /\ \A d \in DOMAIN chunk' : d # a => End(d)' = End(d)
  BY <1>1, <1>2, <1>3 DEF End
<1>7. Tiled'
  <2> SUFFICES ASSUME NEW d \in DOMAIN chunk'
               PROVE  IF chunk'[d].next = NULL THEN End(d)' = HEAP_SIZE
                      ELSE chunk'[d].next = End(d)' /\ End(d)' \in DOMAIN chunk'
    BY DEF Tiled, End
  <2>1. CASE d = a
    BY <1>1, <1>3, <1>6, <2>1, ListView
  <2>2. CASE d # a
    <3>1. d \in DOMAIN chunk /\ chunk'[d].next = chunk[d].next /\ End(d)' = End(d)
      BY <1>3, <1>6, <2>2
    <3>2. chunk[d].next # b
      BY <2>2, <3>1, ListOrder
    <3> QED
      BY <1>3, <3>1, <3>2, ListView
  <2> QED
    BY <2>1, <2>2
<1>8. Ordered'
  <2> SUFFICES ASSUME NEW x \in DOMAIN chunk', NEW y \in DOMAIN chunk', x < y
               PROVE  End(x)' <= y
    BY DEF Ordered, End
  <2>1. x \in DOMAIN chunk /\ y \in DOMAIN chunk /\ y # b
    BY <1>3
  <2>2. CASE x = a
    <3>1. b <= y
      BY <1>2, <2>1, <2>2, ListOrder
    <3>2. b < y
      BY <1>1, <2>1, <3>1, ListView
    <3> QED
      BY <1>6, <2>1, <2>2, <3>2, ListOrder
  <2>3. CASE x # a
    BY <1>6, <2>1, <2>3, ListOrder
  <2> QED
    BY <2>2, <2>3
<1> QED
  BY <1>2, <1>3, <1>4, <1>5, <1>7, <1>8 DEF ListOK

(* Neither a split of a chunk that is free or the last, nor the loss of a     *)
(* flag makes a pair.                                                         *)
LEMMA SplitPairs ==
  ASSUME ListOK, NEW a \in DOMAIN chunk, NEW n \in Nat, chunk[a].size > n + HDR,
         chunk' = Split(a, n), chunk[a].free \/ chunk[a].next = NULL,
         \A x \in DOMAIN chunk : ~Pair(x)
  PROVE  \A x \in DOMAIN chunk' : ~Pair(x)'
<1> DEFINE new == a + n + HDR
<1>1. /\ ListOK' /\ new \notin DOMAIN chunk /\ DOMAIN chunk' = DOMAIN chunk \cup {new} /\ new > a
      /\ \A b \in DOMAIN chunk : b # a => chunk'[b] = chunk[b]
      /\ ~chunk'[a].free /\ chunk'[a].next = new
      /\ chunk'[new].free /\ chunk'[new].next = chunk[a].next
  <2>1. /\ ListOK' /\ new \notin DOMAIN chunk /\ DOMAIN chunk' = DOMAIN chunk \cup {new} /\ new > a
        /\ \A b \in DOMAIN chunk : b # a => chunk'[b] = chunk[b]
        /\ chunk'[a] = [size |-> n, free |-> FALSE, next |-> new]
        /\ chunk'[new] =
             [size |-> chunk[a].size - n - HDR, free |-> TRUE, next |-> chunk[a].next]
    BY SplitStep, Zenon
  <2>2. ~chunk'[a].free /\ chunk'[a].next = new
    BY <2>1
  <2>3. chunk'[new].free /\ chunk'[new].next = chunk[a].next
    BY <2>1
  <2> QED
    BY <2>1, <2>2, <2>3
<1> HIDE DEF new
<1> SUFFICES ASSUME NEW x \in DOMAIN chunk', Pair(x)' PROVE FALSE
  OBVIOUS
<1>2. chunk'[x].free /\ chunk'[x].next # NULL /\ chunk'[chunk'[x].next].free
  BY DEF Pair, NULL
<1>3. CASE x = new
  <2>1. chunk[a].next # NULL /\ chunk[a].free /\ chunk[a].next \in DOMAIN chunk
    BY <1>1, <1>2, <1>3, ListView
  <2>2. chunk[a].next # a
    BY <2>1, ListOrder, ListView
  <2>3. chunk'[chunk[a].next] = chunk[chunk[a].next]
    BY <1>1, <2>1, <2>2
  <2> QED
    BY <1>1, <1>2, <1>3, <2>1, <2>3 DEF Pair
<1>4. CASE x = a
  BY <1>1, <1>2, <1>4
<1>5. CASE x \in DOMAIN chunk /\ x # a
  <2>1. chunk'[x] = chunk[x] /\ chunk[x].next \in DOMAIN chunk
    BY <1>1, <1>2, <1>5, ListView
  <2>2. chunk[x].next # a
    BY <1>1, <1>2, <2>1
  <2>3. chunk'[chunk[x].next] = chunk[chunk[x].next]
    BY <1>1, <2>1, <2>2
  <2> QED
    BY <1>2, <1>5, <2>1, <2>3 DEF Pair
<1> QED
  BY <1>1, <1>3, <1>4, <1>5

(* The pairs that a change of the flag of p makes are p and its predecessor. *)
LEMMA FlagPairs ==
  ASSUME ListOK, NEW p \in DOMAIN chunk, NEW v \in BOOLEAN,
         chunk' = [chunk EXCEPT ![p].free = v],
         \A x \in DOMAIN chunk : ~Pair(x)
  PROVE  \A x \in DOMAIN chunk' : Pair(x)' => v /\ (x = p \/ chunk'[x].next = p)
<1>1. /\ DOMAIN chunk' = DOMAIN chunk
      /\ \A a \in DOMAIN chunk : a # p => chunk'[a] = chunk[a]
      /\ \A a \in DOMAIN chunk : chunk'[a].next = chunk[a].next
      /\ chunk'[p].free = v
  BY FlagStep
<1> SUFFICES ASSUME NEW x \in DOMAIN chunk', Pair(x)', ~(v /\ (x = p \/ chunk'[x].next = p))
             PROVE  FALSE
  OBVIOUS
<1>2. chunk'[x].free /\ chunk[x].next # NULL /\ chunk'[chunk[x].next].free
  BY <1>1 DEF Pair, NULL
<1>3. x \in DOMAIN chunk /\ chunk[x].next \in DOMAIN chunk
  BY <1>1, <1>2, ListView
<1>4. CASE v
  BY <1>1, <1>2, <1>3, <1>4 DEF Pair
<1>5. CASE ~v
  BY <1>1, <1>2, <1>3, <1>5 DEF Pair
<1> QED
  BY <1>4, <1>5

(* A join of a pair makes none, and takes the first of two along. *)
LEMMA JoinPairs ==
  ASSUME ListOK, NEW a \in DOMAIN chunk, NEW b \in DOMAIN chunk, b = chunk[a].next,
         chunk' = Joined(a), Pair(a)
  PROVE  \A x \in DOMAIN chunk' : Pair(x)' => (x # a /\ Pair(x)) \/ (x = a /\ Pair(b))
<1>1. /\ ListOK' /\ b > a /\ DOMAIN chunk' = DOMAIN chunk \ {b}
      /\ \A d \in DOMAIN chunk' : d # a => chunk'[d] = chunk[d]
      /\ chunk'[a].free /\ chunk'[a].next = chunk[b].next
  <2>1. /\ ListOK' /\ b > a /\ DOMAIN chunk' = DOMAIN chunk \ {b}
        /\ \A d \in DOMAIN chunk' : d # a => chunk'[d] = chunk[d]
        /\ chunk'[a] = [size |-> chunk[a].size + chunk[b].size + HDR,
                        free |-> TRUE, next |-> chunk[b].next]
    BY JoinStep, Zenon
  <2>2. chunk'[a].free /\ chunk'[a].next = chunk[b].next
    BY <2>1
  <2> QED
    BY <2>1, <2>2
<1> SUFFICES ASSUME NEW x \in DOMAIN chunk', Pair(x)'
             PROVE  (x # a /\ Pair(x)) \/ (x = a /\ Pair(b))
  OBVIOUS
<1>2. chunk'[x].free /\ chunk'[x].next # NULL /\ chunk'[chunk'[x].next].free
  BY DEF Pair, NULL
<1>3. chunk[a].free /\ chunk[b].free /\ a \in DOMAIN chunk'
  BY <1>1, ListView DEF Pair
<1>4. chunk'[x].next \in DOMAIN chunk' /\ x \in DOMAIN chunk
  <2>1. x \in DOMAIN chunk
    BY <1>1
  <2>2. (IF chunk[x].next = NULL THEN x + HDR + chunk[x].size = HEAP_SIZE
         ELSE /\ chunk[x].next = x + HDR + chunk[x].size
              /\ x + HDR + chunk[x].size \in DOMAIN chunk)'
    BY <1>1 DEF ListOK, Tiled
  <2> QED
    BY <1>2, <2>1, <2>2
<1>5. CASE x = a
  <2>1. chunk[b].next # NULL /\ chunk[b].next \in DOMAIN chunk /\ chunk[b].next # a
    BY <1>1, <1>2, <1>5, ListView
  <2>2. chunk'[chunk[b].next] = chunk[chunk[b].next]
    BY <1>1, <1>4, <1>5, <2>1
  <2> QED
    BY <1>1, <1>2, <1>3, <1>5, <2>1, <2>2 DEF Pair
<1>6. CASE x # a
  <2>1. chunk'[x] = chunk[x]
    BY <1>1, <1>6
  <2>2. chunk[chunk[x].next].free
    BY <1>1, <1>2, <1>3, <1>4, <2>1
  <2> QED
    BY <1>2, <1>6, <2>1, <2>2 DEF Pair
<1> QED
  BY <1>5, <1>6

-----------------------------------------------------------------------------
(* The callers.                                                              *)

(* The types of the heap are those of the chunk list and of the calls. *)
LEMMA TypeParts == TypeOK /\ Tiled /\ Ordered <=> ListOK /\ CallsOK
BY Zenon DEF TypeOK, ListOK, CallsOK, Within, Records, Chunks

(* A caller's record is replaced. *)
LEMMA CallStep ==
  ASSUME CallsOK, NEW c \in Callers, NEW v, call' = [call EXCEPT ![c] = v]
  PROVE  /\ call'[c] = v /\ \A d \in Callers : d # c => call'[d] = call[d]
         /\ v \in Records => call' \in [Callers -> Records]
BY DEF CallsOK

(* Who holds mlock is the only one within. *)
LEMMA Alone ==
  ASSUME CallsOK, NEW c \in Callers
  PROVE  /\ NoCaller \notin Callers
         /\ mlock = NoCaller => ~Within(c)
         /\ mlock = c => \A d \in Callers : d # c => ~Within(d)
BY HeapAssumption DEF CallsOK

(* The blocks somebody owns, before and after a step. *)
LEMMA OwnedView ==
  /\ \A m : m \in Owned <=> m \in live \/ \E c \in Callers : m \in call[c].old
  /\ \A m : m \in Owned' <=> m \in live' \/ \E c \in Callers : m \in call'[c].old
BY Zenon DEF Owned

(* Nothing changes hands in a step that moves blocks between live and the     *)
(* record of a realloc.                                                       *)
LEMMA OwnedKept ==
  ASSUME \A m : m \in Owned' <=> m \in Owned, ExclusiveBlocks, UNCHANGED chunk,
         fault' = "none" => fault = "none"
  PROVE  ExclusiveBlocks'
<1>1. Owned' = Owned
  OBVIOUS
<1> QED
  BY <1>1 DEF ExclusiveBlocks

(* malloc, alone or for a realloc of the block in old. *)
LEMMA StartMallocKeeps ==
  ASSUME HeapInv, NEW c \in Callers, NEW n \in Sizes, NEW old \in SUBSET live,
         StartMalloc(c, n, old), \A m1, m2 \in old : m1 = m2, live' = live \ old
  PROVE  HeapInv'
<1> USE DEF HeapInv
<1> DEFINE v == [pc |-> "walk", n |-> n, cur |-> 0, old |-> old]
<1>1. /\ fault = "none" /\ call[c].pc = "idle" /\ mlock = NoCaller /\ mlock' = c
      /\ call' = [call EXCEPT ![c] = v] /\ UNCHANGED <<chunk, fault>>
  BY DEF StartMalloc, Running
<1>2. ListOK'
  BY <1>1 DEF ListOK, Tiled, Ordered, End
<1>3. 0 \in Addr /\ 0 \in DOMAIN chunk /\ NULL = -1 /\ n \in Nat
  BY ListView, HeapAssumption DEF ListOK, NULL
<1>4. v \in Records
  BY <1>3 DEF Records, CallsOK
<1>5. /\ call'[c] = v /\ call' \in [Callers -> Records]
      /\ \A d \in Callers : d # c => call'[d] = call[d]
  BY <1>1, <1>4, CallStep
<1>6. \A d \in Callers : ~Within(d) /\ (d # c => ~Within(d)')
  BY <1>1, <1>5, Alone DEF Within
<1>7. CallsOK'
  <2>1. ASSUME NEW d \in Callers
        PROVE  /\ Within(d)' <=> mlock' = d
               /\ mlock' = d /\ call'[d].cur # NULL => call'[d].cur \in DOMAIN chunk
               /\ call'[d].cur = NULL /\ call'[d].pc = "walk" => fault = "null_walk"
    <3>1. CASE d = c
      BY <1>1, <1>3, <1>5, <3>1 DEF Within
    <3>2. CASE d # c
      BY <1>1, <1>6, <3>2 DEF Within
    <3> QED
      BY <3>1, <3>2
  <2>2. live' \subseteq Blocks
    BY DEF CallsOK
  <2> QED
    BY <1>1, <1>5, <2>1, <2>2 DEF CallsOK
<1>8. call[c].old = {}
  BY <1>1 DEF Holding
<1>9. Holding'
  BY <1>5 DEF Holding
<1>10. \A m : m \in Owned' <=> m \in Owned
  <2>1. \A m : (\E d \in Callers : m \in call'[d].old)
                 <=> m \in old \/ \E d \in Callers : m \in call[d].old
    BY <1>5, <1>8
  <2> QED
    BY <2>1, OwnedView
<1>11. ExclusiveBlocks'
  BY <1>1, <1>10, OwnedKept
<1>12. OneOwner'
  <2>1. OneOwner
    BY <1>1
  <2>2. \A d \in Callers : d # c => call[d].old \cap live = {} /\ call[d].old \cap old = {}
    BY <2>1 DEF OneOwner
  <2> QED
    BY <1>5, <2>1, <2>2 DEF OneOwner
<1>13. \A a \in DOMAIN chunk : ~Pair(a)
  BY <1>1 DEF Pairs
<1>14. \A a \in DOMAIN chunk' : ~Pair(a)'
  BY <1>1, <1>13 DEF Pair
<1>15. Pairs'
  BY <1>5, <1>6, <1>14 DEF Pairs, Within
<1>16. Searched'
  <2>1. \A a \in DOMAIN chunk : ~(a < 0)
    BY ListView
  <2> QED
    BY <1>1, <1>5, <1>6, <2>1 DEF Searched, Within
<1> QED
  BY <1>2, <1>7, <1>9, <1>11, <1>12, <1>15, <1>16

(* The walk of malloc: it is always at a chunk of the list. *)
LEMMA Walking ==
  ASSUME HeapInv, NEW c \in Callers, Running, call[c].pc = "walk"
  PROVE  /\ fault = "none" /\ mlock = c /\ call[c].cur \in DOMAIN chunk
         /\ call[c] \in Records /\ call[c].n \in Sizes /\ call[c].n \in Nat
         /\ \A d \in Callers : d # c => ~Within(d)
         /\ \A a \in DOMAIN chunk : ~Pair(a)
         /\ \A a \in DOMAIN chunk :
              chunk[a].free /\ a < call[c].cur => chunk[a].size < call[c].n
<1> USE DEF HeapInv
<1>1. fault = "none" /\ mlock = c /\ call[c].cur \in DOMAIN chunk /\ call[c] \in Records
  BY DEF Running, CallsOK, Within
<1>2. call[c].n \in Sizes /\ call[c].n \in Nat
  BY HeapAssumption DEF Holding
<1>3. \A d \in Callers : d # c => ~Within(d)
  BY <1>1, Alone
<1>4. \A a \in DOMAIN chunk : ~Pair(a)
  BY DEF Pairs
<1>5. \A a \in DOMAIN chunk : chunk[a].free /\ a < call[c].cur => chunk[a].size < call[c].n
  BY <1>1 DEF Searched
<1> QED
  BY <1>1, <1>2, <1>3, <1>4, <1>5

(* cur = cur->next. *)
LEMMA WalkKeeps ==
  ASSUME HeapInv, NEW c \in Callers, Walk(c)
  PROVE  HeapInv'
<1> USE DEF HeapInv
<1>1. /\ Running /\ call[c].pc = "walk" /\ PassedOver(c)
      /\ UNCHANGED <<chunk, mlock, live>>
  BY DEF Walk
<1>2. PICK a \in DOMAIN chunk : a = call[c].cur
  BY <1>1, Walking
<1> DEFINE v == [call[c] EXCEPT !.cur = chunk[a].next]
<1>3. /\ fault' = (IF chunk[a].next = NULL THEN "null_walk" ELSE fault)
      /\ call' = [call EXCEPT ![c] = v]
  BY <1>2 DEF Walk
<1>4. /\ fault = "none" /\ mlock = c /\ call[c] \in Records
      /\ \A d \in Callers : d # c => ~Within(d)
      /\ \A x \in DOMAIN chunk : ~Pair(x)
      /\ \A x \in DOMAIN chunk : chunk[x].free /\ x < a => chunk[x].size < call[c].n
  BY <1>1, <1>2, Walking
<1>5. chunk[a].next \in Addr \cup {NULL} /\ (chunk[a].next # NULL => chunk[a].next \in DOMAIN chunk)
  BY ListView DEF Chunks
<1>6. /\ v \in Records /\ v.pc = "walk" /\ v.n = call[c].n /\ v.old = call[c].old
      /\ v.cur = chunk[a].next
  BY <1>1, <1>4, <1>5 DEF Records
<1> HIDE DEF v
<1>7. /\ call'[c] = v /\ call' \in [Callers -> Records]
      /\ \A d \in Callers : d # c => call'[d] = call[d]
  BY <1>3, <1>6, CallStep
<1>8. ListOK'
  BY <1>1 DEF ListOK, Tiled, Ordered, End
<1>9. \A d \in Callers : d # c => ~Within(d)'
  BY <1>4, <1>7 DEF Within
<1>10. CallsOK'
  <2>1. ASSUME NEW d \in Callers
        PROVE  /\ Within(d)' <=> mlock' = d
               /\ mlock' = d /\ call'[d].cur # NULL => call'[d].cur \in DOMAIN chunk'
               /\ call'[d].cur = NULL /\ call'[d].pc = "walk" => fault' = "null_walk"
    <3>1. CASE d = c
      BY <1>1, <1>3, <1>4, <1>5, <1>6, <1>7, <3>1 DEF Within
    <3>2. CASE d # c
      BY <1>1, <1>4, <1>9, <3>2 DEF Within
    <3> QED
      BY <3>1, <3>2
  <2>2. fault' \in {"none", "in_use", "null_walk", "overrun"}
    BY <1>3, <1>4
  <2> QED
    BY <1>1, <1>7, <2>1, <2>2 DEF CallsOK
<1>11. \A d \in Callers : call'[d].old = call[d].old
  BY <1>6, <1>7
<1>12. Holding'
  BY <1>1, <1>6, <1>7 DEF Holding
<1>13. \A m : m \in Owned' <=> m \in Owned
  BY <1>1, <1>11, OwnedView
<1>14. ExclusiveBlocks'
  BY <1>1, <1>4, <1>13, OwnedKept
<1>15. OneOwner'
  BY <1>1, <1>4, <1>11 DEF OneOwner
<1>16. \A x \in DOMAIN chunk' : ~Pair(x)'
  BY <1>1, <1>4 DEF Pair
<1>17. Pairs'
  BY <1>6, <1>7, <1>9, <1>16 DEF Pairs, Within
<1>18. Searched'
  <2> SUFFICES ASSUME NEW x \in DOMAIN chunk, chunk[x].free, x < chunk[a].next, fault' = "none"
               PROVE  chunk[x].size < call[c].n
    BY <1>1, <1>6, <1>7, <1>9 DEF Searched, Within
  <2>1. chunk[a].next # NULL
    BY <1>3
  <2>2. ~(a < x)
    BY <2>1, ListOrder, ListView
  <2>3. CASE x < a
    BY <1>4, <2>3
  <2>4. CASE x = a
    BY <1>1, <1>2, <2>4 DEF PassedOver
  <2> QED
    BY <2>2, <2>3, <2>4, ListView
<1> QED
  BY <1>8, <1>10, <1>12, <1>14, <1>15, <1>17, <1>18

(* What the end of malloc makes of the list. *)
LEMMA TakeList ==
  ASSUME ListOK, NEW a \in DOMAIN chunk, NEW n \in Nat,
         \/ chunk[a].size = n /\ chunk' = [chunk EXCEPT ![a].free = FALSE]
         \/ chunk[a].size > n + HDR /\ chunk' = Split(a, n),
         chunk[a].free \/ chunk[a].next = NULL,
         \A x \in DOMAIN chunk : ~Pair(x)
  PROVE  /\ ListOK' /\ DOMAIN chunk \subseteq DOMAIN chunk'
         /\ chunk'[a].size = n /\ ~chunk'[a].free
         /\ \A x \in DOMAIN chunk : x # a => chunk'[x] = chunk[x]
         /\ \A x \in DOMAIN chunk' : x \notin DOMAIN chunk => chunk'[x].free
         /\ \A x \in DOMAIN chunk' : ~Pair(x)'
<1>1. CASE chunk[a].size = n /\ chunk' = [chunk EXCEPT ![a].free = FALSE]
  <2>1. /\ ListOK' /\ DOMAIN chunk' = DOMAIN chunk
        /\ \A x \in DOMAIN chunk : x # a => chunk'[x] = chunk[x]
        /\ chunk'[a].size = chunk[a].size /\ chunk'[a].free = FALSE
    BY <1>1, FlagStep
  <2>2. \A x \in DOMAIN chunk' : ~Pair(x)'
    BY <1>1, FlagPairs
  <2> QED
    BY <1>1, <2>1, <2>2
<1>2. CASE chunk[a].size > n + HDR /\ chunk' = Split(a, n)
  <2> DEFINE new == a + n + HDR
  <2>1. /\ ListOK' /\ DOMAIN chunk' = DOMAIN chunk \cup {new}
        /\ \A x \in DOMAIN chunk : x # a => chunk'[x] = chunk[x]
        /\ chunk'[a] = [size |-> n, free |-> FALSE, next |-> new]
        /\ chunk'[new] =
             [size |-> chunk[a].size - n - HDR, free |-> TRUE, next |-> chunk[a].next]
    BY <1>2, SplitStep, Zenon
  <2> HIDE DEF new
  <2>2. chunk'[a].size = n /\ ~chunk'[a].free /\ chunk'[new].free
    BY <2>1
  <2>3. \A x \in DOMAIN chunk' : ~Pair(x)'
    BY <1>2, SplitPairs
  <2> QED
    BY <2>1, <2>2, <2>3
<1> QED
  BY <1>1, <1>2

(* malloc hands out a chunk. *)
LEMMA TakeKeeps ==
  ASSUME HeapInv, NEW c \in Callers, Take(c)
  PROVE  HeapInv'
<1> USE DEF HeapInv
<1>1. Running /\ call[c].pc = "walk" /\ ~PassedOver(c) /\ mlock' = NoCaller
  BY DEF Take
<1>2. PICK a \in DOMAIN chunk : a = call[c].cur
  BY <1>1, Walking
<1>3. PICK n \in Nat : n = call[c].n /\ n \in Sizes
  BY <1>1, Walking
<1> DEFINE v == IF call[c].old = {} THEN Idle ELSE [call[c] EXCEPT !.pc = "copy"]
           blk == [ptr |-> a, size |-> n]
<1>4. /\ \/ chunk[a].size = n /\ chunk' = [chunk EXCEPT ![a].free = FALSE]
         \/ chunk[a].size > n + HDR /\ chunk' = Split(a, n)
      /\ fault' = (IF chunk[a].free THEN fault ELSE "in_use")
      /\ live' = live \cup {blk}
      /\ call' = [call EXCEPT ![c] = v]
  BY <1>2, <1>3 DEF Take
<1>5. /\ fault = "none" /\ mlock = c /\ call[c] \in Records
      /\ \A d \in Callers : d # c => ~Within(d)
      /\ \A x \in DOMAIN chunk : ~Pair(x)
  BY <1>1, Walking
<1>6. chunk[a].free \/ chunk[a].next = NULL
  BY <1>1, <1>2 DEF PassedOver
<1>7. /\ ListOK' /\ DOMAIN chunk \subseteq DOMAIN chunk'
      /\ chunk'[a].size = n /\ ~chunk'[a].free
      /\ \A x \in DOMAIN chunk : x # a => chunk'[x] = chunk[x]
      /\ \A x \in DOMAIN chunk' : x \notin DOMAIN chunk => chunk'[x].free
      /\ \A x \in DOMAIN chunk' : ~Pair(x)'
  <2> HIDE DEF v, blk
  <2> QED
    BY <1>4, <1>5, <1>6, TakeList
<1>8. v \in Records /\ v.pc \in {"idle", "copy"} /\ v.old = call[c].old /\ (v.pc = "idle" => v.old = {})
  BY <1>5 DEF Records, Idle
<1>9. blk \in Blocks /\ blk.ptr = a /\ blk.size = n
  BY <1>3 DEF Blocks, ListOK
<1> HIDE DEF v, blk
<1>10. /\ call'[c] = v /\ call' \in [Callers -> Records]
       /\ \A d \in Callers : d # c => call'[d] = call[d]
  BY <1>4, <1>8, CallStep
<1>11. \A d \in Callers : ~Within(d)' /\ call'[d].old = call[d].old
  BY <1>5, <1>8, <1>10 DEF Within
<1>12. CallsOK'
  <2>1. ASSUME NEW d \in Callers
        PROVE  /\ Within(d)' <=> mlock' = d
               /\ mlock' = d /\ call'[d].cur # NULL => call'[d].cur \in DOMAIN chunk'
               /\ call'[d].cur = NULL /\ call'[d].pc = "walk" => fault' = "null_walk"
    BY <1>1, <1>11, HeapAssumption DEF Within
  <2>2. fault' \in {"none", "in_use", "null_walk", "overrun"}
    BY <1>4, <1>5
  <2>3. live' \subseteq Blocks /\ mlock' \in Callers \cup {NoCaller}
    BY <1>1, <1>4, <1>9 DEF CallsOK
  <2> QED
    BY <1>10, <2>1, <2>2, <2>3 DEF CallsOK
<1>13. Holding'
  BY <1>8, <1>10 DEF Holding
<1>14. \A m : m \in Owned' <=> m \in Owned \/ m = blk
  BY <1>4, <1>11, OwnedView
<1>15. chunk[a].free => \A m \in Owned : m.ptr # a /\ m # blk
  BY <1>5, <1>9 DEF ExclusiveBlocks
<1>16. ExclusiveBlocks'
  <2> SUFFICES ASSUME chunk[a].free
               PROVE  /\ \A m \in Owned' : /\ m.ptr \in DOMAIN chunk'
                                           /\ ~chunk'[m.ptr].free
                                           /\ chunk'[m.ptr].size >= m.size
                      /\ \A x \in DOMAIN chunk' :
                           ~chunk'[x].free => \E m \in Owned' : m.ptr = x
                      /\ \A m1, m2 \in Owned' : m1.ptr = m2.ptr => m1 = m2
    BY <1>4 DEF ExclusiveBlocks
  <2>1. \A m \in Owned : /\ m.ptr \in DOMAIN chunk /\ ~chunk[m.ptr].free
                         /\ chunk[m.ptr].size >= m.size /\ m.ptr # a
    BY <1>5, <1>15 DEF ExclusiveBlocks
  <2>2. ASSUME NEW m \in Owned'
        PROVE  m.ptr \in DOMAIN chunk' /\ ~chunk'[m.ptr].free /\ chunk'[m.ptr].size >= m.size
    <3>1. CASE m = blk
      BY <1>7, <1>9, <3>1
    <3>2. CASE m \in Owned
      BY <1>7, <2>1, <3>2
    <3> QED
      BY <1>14, <3>1, <3>2
  <2>3. ASSUME NEW x \in DOMAIN chunk', ~chunk'[x].free
        PROVE  \E m \in Owned' : m.ptr = x
    <3>1. CASE x = a
      BY <1>9, <1>14, <3>1
    <3>2. CASE x # a
      <4>1. x \in DOMAIN chunk /\ ~chunk[x].free
        BY <1>7, <2>3, <3>2
      <4>2. PICK m \in Owned : m.ptr = x
        BY <1>5, <4>1 DEF ExclusiveBlocks
      <4> QED
        BY <1>14, <4>2
    <3> QED
      BY <3>1, <3>2
  <2>4. \A m1, m2 \in Owned' : m1.ptr = m2.ptr => m1 = m2
    BY <1>5, <1>9, <1>14, <2>1 DEF ExclusiveBlocks
  <2> QED
    BY <2>2, <2>3, <2>4
<1>17. fault' = "none" => OneOwner'
  <2> SUFFICES ASSUME chunk[a].free PROVE OneOwner'
    BY <1>4
  <2>1. \A d \in Callers : blk \notin call[d].old
    BY <1>15, OwnedView
  <2> QED
    BY <1>4, <1>5, <1>11, <2>1 DEF OneOwner
<1>18. Pairs' /\ Searched'
  BY <1>7, <1>11 DEF Pairs, Searched, Within
<1> QED
  BY <1>7, <1>12, <1>13, <1>16, <1>17, <1>18

(* malloc, or the malloc of a realloc, returns NULL. *)
LEMMA TakeNothingKeeps ==
  ASSUME HeapInv, NEW c \in Callers, TakeNothing(c)
  PROVE  HeapInv'
<1> USE DEF HeapInv
<1>1. /\ Running /\ call[c].pc = "walk" /\ mlock' = NoCaller /\ UNCHANGED <<chunk, fault>>
      /\ live' = live \cup call[c].old /\ call' = [call EXCEPT ![c] = Idle]
  BY DEF TakeNothing
<1>2. /\ fault = "none" /\ mlock = c /\ call[c] \in Records
      /\ \A d \in Callers : d # c => ~Within(d)
      /\ \A x \in DOMAIN chunk : ~Pair(x)
  BY <1>1, Walking
<1>3. Idle \in Records /\ Idle.pc = "idle" /\ Idle.old = {}
  BY DEF Records, Idle
<1>4. /\ call'[c] = Idle /\ call' \in [Callers -> Records]
      /\ \A d \in Callers : d # c => call'[d] = call[d]
  BY <1>1, <1>3, CallStep
<1>5. ListOK'
  BY <1>1 DEF ListOK, Tiled, Ordered, End
<1>6. \A d \in Callers : ~Within(d)'
  BY <1>2, <1>3, <1>4 DEF Within
<1>7. CallsOK'
  <2>1. live' \subseteq Blocks
    BY <1>1, <1>2 DEF CallsOK, Records
  <2>2. \A d \in Callers : mlock' # d /\ ~(call'[d].pc = "walk")
    BY <1>1, <1>6, HeapAssumption DEF Within
  <2> QED
    BY <1>1, <1>4, <1>6, <2>1, <2>2 DEF CallsOK
<1>8. Holding'
  BY <1>3, <1>4 DEF Holding
<1>9. \A m : m \in Owned' <=> m \in Owned
  <2>1. \A m : (\E d \in Callers : m \in call[d].old)
                 <=> m \in call[c].old \/ \E d \in Callers : m \in call'[d].old
    BY <1>3, <1>4
  <2> QED
    BY <1>1, <2>1, OwnedView
<1>10. ExclusiveBlocks'
  BY <1>1, <1>9, OwnedKept
<1>11. OneOwner'
  <2>1. OneOwner
    BY <1>2
  <2>2. ASSUME NEW d \in Callers PROVE call'[d].old \cap live' = {}
    BY <1>1, <1>3, <1>4, <2>1 DEF OneOwner
  <2>3. ASSUME NEW d \in Callers, NEW x \in Callers, d # x PROVE call'[d].old \cap call'[x].old = {}
    BY <1>3, <1>4, <2>1, <2>3 DEF OneOwner
  <2> QED
    BY <2>2, <2>3 DEF OneOwner
<1>12. \A x \in DOMAIN chunk' : ~Pair(x)'
  BY <1>1, <1>2 DEF Pair
<1>13. Pairs' /\ Searched'
  BY <1>6, <1>12 DEF Pairs, Searched, Within
<1> QED
  BY <1>5, <1>7, <1>8, <1>10, <1>11, <1>13

(* realloc copies. *)
LEMMA CopyKeeps ==
  ASSUME HeapInv, NEW c \in Callers, Copy(c)
  PROVE  HeapInv'
<1> USE DEF HeapInv
<1> DEFINE v == [call[c] EXCEPT !.pc = "free"]
<1>1. /\ fault = "none" /\ call[c].pc = "copy" /\ fault' \in {"none", "overrun"}
      /\ UNCHANGED <<chunk, mlock, live>> /\ call' = [call EXCEPT ![c] = v]
  BY DEF Copy, Running
<1>2. call[c] \in Records
  BY DEF CallsOK
<1>3. v \in Records /\ v.pc = "free" /\ v.old = call[c].old
  BY <1>2 DEF Records
<1> HIDE DEF v
<1>4. /\ call'[c] = v /\ call' \in [Callers -> Records]
      /\ \A d \in Callers : d # c => call'[d] = call[d]
  BY <1>1, <1>3, CallStep
<1>5. ListOK'
  BY <1>1 DEF ListOK, Tiled, Ordered, End
<1>6. ~Within(c) /\ ~Within(c)' /\ mlock # c
  BY <1>1, <1>3, <1>4 DEF Within, CallsOK
<1>7. CallsOK'
  <2>1. ASSUME NEW d \in Callers
        PROVE  /\ Within(d)' <=> mlock' = d
               /\ mlock' = d /\ call'[d].cur # NULL => call'[d].cur \in DOMAIN chunk'
               /\ call'[d].cur = NULL /\ call'[d].pc = "walk" => fault' = "null_walk"
    <3>1. CASE d = c
      BY <1>1, <1>6, <3>1 DEF Within
    <3>2. CASE d # c
      BY <1>1, <1>4, <3>2 DEF Within, CallsOK
    <3> QED
      BY <3>1, <3>2
  <2> QED
    BY <1>1, <1>4, <2>1 DEF CallsOK
<1>8. \A d \in Callers : call'[d].old = call[d].old
  BY <1>3, <1>4
<1>9. Holding'
  BY <1>3, <1>4 DEF Holding
<1>10. \A m : m \in Owned' <=> m \in Owned
  BY <1>1, <1>8, OwnedView
<1>11. ExclusiveBlocks'
  BY <1>1, <1>10, OwnedKept
<1>12. OneOwner'
  BY <1>1, <1>8 DEF OneOwner
<1>13. \A a \in DOMAIN chunk' : Pair(a)' <=> Pair(a)
  BY <1>1 DEF Pair
<1>14. ASSUME NEW d \in Callers PROVE Within(d)' => d # c /\ call'[d] = call[d]
  BY <1>4, <1>6 DEF Within
<1>15. Pairs'
  BY <1>1, <1>13, <1>14 DEF Pairs, Within
<1>16. Searched'
  BY <1>1, <1>14 DEF Searched, Within
<1> QED
  BY <1>5, <1>7, <1>9, <1>11, <1>12, <1>15, <1>16

(* free(p) up to its first merge(), of a block that its owner gives up. *)
LEMMA StartFreeKeeps ==
  ASSUME HeapInv, NEW c \in Callers, NEW m \in Owned, StartFree(c, m), ~Within(c),
         live' \subseteq live,
         m.ptr \in DOMAIN chunk => \A x : x \in Owned' <=> x \in Owned /\ x # m
  PROVE  HeapInv'
<1> USE DEF HeapInv
<1>1. fault = "none" /\ mlock = NoCaller
  BY DEF StartFree, Running
<1>2. CASE m.ptr \notin DOMAIN chunk
  <2>1. fault' = "overrun" /\ UNCHANGED <<chunk, mlock, call>>
    BY <1>2 DEF StartFree
  <2>2. ListOK'
    BY <2>1 DEF ListOK, Tiled, Ordered, End
  <2>3. CallsOK'
    <3>1. \A d \in Callers : ~(call[d].pc = "walk")
      BY <1>1, Alone DEF Within
    <3> QED
      BY <2>1, <3>1 DEF CallsOK, Within
  <2>4. Holding' /\ ExclusiveBlocks' /\ Searched'
    BY <2>1 DEF Holding, ExclusiveBlocks, Searched
  <2>5. \A a \in DOMAIN chunk' : Pair(a)' <=> Pair(a)
    BY <2>1 DEF Pair
  <2>6. Pairs'
    BY <2>1, <2>5 DEF Pairs
  <2> QED
    BY <2>1, <2>2, <2>3, <2>4, <2>6
<1>3. CASE m.ptr \in DOMAIN chunk
  <2>1. PICK p \in DOMAIN chunk : p = m.ptr
    BY <1>3
  <2> DEFINE v == [pc |-> "merge1", n |-> 0, cur |-> 0, old |-> {}]
  <2>2. /\ chunk' = [chunk EXCEPT ![p].free = TRUE] /\ mlock' = c
        /\ call' = [call EXCEPT ![c] = v] /\ fault' = "none"
    BY <1>1, <1>3, <2>1 DEF StartFree
  <2>3. /\ ListOK' /\ DOMAIN chunk' = DOMAIN chunk
        /\ \A a \in DOMAIN chunk : a # p => chunk'[a] = chunk[a]
        /\ \A a \in DOMAIN chunk : chunk'[a].size = chunk[a].size
        /\ chunk'[p].free = TRUE
    BY <2>2, FlagStep
  <2>4. 0 \in Addr /\ 0 \in DOMAIN chunk /\ NULL = -1
    BY HeapAssumption DEF ListOK, NULL
  <2>5. v \in Records
    BY <2>4 DEF Records
  <2>6. /\ call'[c] = v /\ call' \in [Callers -> Records]
        /\ \A d \in Callers : d # c => call'[d] = call[d]
    BY <2>2, <2>5, CallStep
  <2>7. \A d \in Callers : ~Within(d) /\ (d # c => ~Within(d)')
    BY <1>1, <2>6, Alone DEF Within
  <2>8. CallsOK'
    <3>1. ASSUME NEW d \in Callers
          PROVE  /\ Within(d)' <=> mlock' = d
                 /\ mlock' = d /\ call'[d].cur # NULL => call'[d].cur \in DOMAIN chunk'
                 /\ call'[d].cur = NULL /\ call'[d].pc = "walk" => fault' = "null_walk"
      <4>1. CASE d = c
        BY <2>2, <2>3, <2>4, <2>6, <4>1 DEF Within
      <4>2. CASE d # c
        BY <2>2, <2>7, <4>2 DEF Within
      <4> QED
        BY <4>1, <4>2
    <3>2. live' \subseteq Blocks
      BY DEF CallsOK
    <3> QED
      BY <2>2, <2>6, <3>1, <3>2 DEF CallsOK
  <2>9. Holding'
    BY <2>6 DEF Holding
  <2>10. \A x \in Owned' : x \in Owned /\ x # m /\ x.ptr # p
    BY <1>1, <1>3, <2>1 DEF ExclusiveBlocks
  <2>11. ExclusiveBlocks'
    <3>1. ASSUME NEW x \in Owned'
          PROVE  x.ptr \in DOMAIN chunk' /\ ~chunk'[x.ptr].free /\ chunk'[x.ptr].size >= x.size
      <4>1. x \in Owned /\ x.ptr # p
        BY <2>10
      <4>2. x.ptr \in DOMAIN chunk /\ ~chunk[x.ptr].free /\ chunk[x.ptr].size >= x.size
        BY <1>1, <4>1 DEF ExclusiveBlocks
      <4> QED
        BY <2>3, <4>1, <4>2
    <3>2. ASSUME NEW y \in DOMAIN chunk', ~chunk'[y].free
          PROVE  \E x \in Owned' : x.ptr = y
      <4>1. y # p /\ y \in DOMAIN chunk /\ ~chunk[y].free
        BY <2>3, <3>2
      <4>2. PICK x \in Owned : x.ptr = y
        BY <1>1, <4>1 DEF ExclusiveBlocks
      <4> QED
        BY <1>3, <2>1, <4>1, <4>2
    <3>3. \A x, y \in Owned' : x.ptr = y.ptr => x = y
      BY <1>1, <2>10 DEF ExclusiveBlocks
    <3> QED
      BY <3>1, <3>2, <3>3 DEF ExclusiveBlocks
  <2>12. OneOwner'
    BY <1>1, <2>6 DEF OneOwner
  <2>13. \A x \in DOMAIN chunk : ~Pair(x)
    BY <1>1 DEF Pairs
  <2>14. \A x \in DOMAIN chunk' : Pair(x)' => (x = p \/ chunk'[x].next = p)
    BY <2>2, <2>13, FlagPairs
  <2>15. ASSUME NEW x \in DOMAIN chunk', NEW y \in DOMAIN chunk', Pair(x)', Pair(y)', x < y
         PROVE  chunk'[x].next = y /\ x >= 0
    <3>1. \A a \in DOMAIN chunk : chunk'[a].next = chunk[a].next
      BY <2>2, FlagStep
    <3>2. (x = p \/ chunk[x].next = p) /\ (y = p \/ chunk[y].next = p)
      BY <2>3, <2>14, <2>15, <3>1
    <3>3. x \in Int /\ y \in Int /\ p \in Int /\ x >= 0 /\ NULL = -1
      BY <2>3, ListView
    <3>4. ~(chunk[x].next = p /\ chunk[y].next = p)
      BY <2>3, <2>15, <3>3, ListOrder
    <3>5. ~(x = p /\ chunk[y].next = p)
      <4>1. chunk[y].next = p => chunk[y].next > y
        BY <2>3, <3>3, ListOrder, ListView
      <4> QED
        BY <2>15, <3>3, <4>1
    <3> QED
      BY <2>3, <2>15, <3>1, <3>2, <3>3, <3>4, <3>5
  <2>16. Pairs'
    <3>1. mlock' # NoCaller
      BY <2>2, HeapAssumption
    <3> QED
      BY <2>4, <2>6, <2>7, <2>15, <3>1 DEF Pairs, Within
  <2>17. Searched'
    BY <2>6, <2>7 DEF Searched, Within
  <2> QED
    BY <2>3, <2>8, <2>9, <2>11, <2>12, <2>16, <2>17
<1> QED
  BY <1>2, <1>3

(* free begins. *)
LEMMA FreeKeeps ==
  ASSUME HeapInv, NEW c \in Callers, NEW m \in live, Free(c, m)
  PROVE  HeapInv'
<1> USE DEF HeapInv
<1>1. call[c].pc = "idle" /\ StartFree(c, m) /\ live' = live \ {m}
  BY DEF Free
<1>2. ~Within(c) /\ call[c].old = {} /\ m \in Owned /\ OneOwner
  BY <1>1, OwnedView DEF Within, Holding, StartFree, Running
<1>3. ASSUME m.ptr \in DOMAIN chunk PROVE \A x : x \in Owned' <=> x \in Owned /\ x # m
  <2>1. call' = [call EXCEPT ![c] = [pc |-> "merge1", n |-> 0, cur |-> 0, old |-> {}]]
    BY <1>1, <1>3 DEF StartFree
  <2>2. \A d \in Callers : call'[d].old = call[d].old
    <3>1. /\ call'[c] = [pc |-> "merge1", n |-> 0, cur |-> 0, old |-> {}]
          /\ \A d \in Callers : d # c => call'[d] = call[d]
      BY <2>1, CallStep
    <3> QED
      BY <1>2, <3>1
  <2>3. \A d \in Callers : m \notin call[d].old
    BY <1>2 DEF OneOwner
  <2> QED
    BY <1>1, <2>2, <2>3, OwnedView
<1> QED
  BY <1>1, <1>2, <1>3, StartFreeKeeps

(* realloc frees the block it copied. *)
LEMMA FreeOldKeeps ==
  ASSUME HeapInv, NEW c \in Callers, FreeOld(c)
  PROVE  HeapInv'
<1> USE DEF HeapInv
<1>1. PICK m \in call[c].old : StartFree(c, m)
  BY DEF FreeOld
<1>2. call[c].pc = "free" /\ UNCHANGED live
  BY DEF FreeOld
<1>3. ~Within(c) /\ m \in Owned /\ OneOwner /\ \A x \in call[c].old : x = m
  BY <1>1, <1>2, OwnedView DEF Within, Holding, StartFree, Running
<1>4. ASSUME m.ptr \in DOMAIN chunk PROVE \A x : x \in Owned' <=> x \in Owned /\ x # m
  <2>1. call' = [call EXCEPT ![c] = [pc |-> "merge1", n |-> 0, cur |-> 0, old |-> {}]]
    BY <1>1, <1>4 DEF StartFree
  <2>2. call'[c].old = {} /\ \A d \in Callers : d # c => call'[d] = call[d]
    <3>1. /\ call'[c] = [pc |-> "merge1", n |-> 0, cur |-> 0, old |-> {}]
          /\ \A d \in Callers : d # c => call'[d] = call[d]
      BY <2>1, CallStep
    <3> QED
      BY <3>1
  <2>3. m \notin live /\ \A d \in Callers : d # c => m \notin call[d].old
    BY <1>1, <1>3 DEF OneOwner
  <2>4. \A x : (\E d \in Callers : x \in call'[d].old)
                 <=> (\E d \in Callers : x \in call[d].old) /\ x # m
    BY <1>1, <1>3, <2>2, <2>3
  <2> QED
    BY <1>2, <2>3, <2>4, OwnedView
<1> QED
  BY <1>1, <1>2, <1>3, <1>4, StartFreeKeeps

(* A turn of merge(). *)
LEMMA MergeKeeps ==
  ASSUME HeapInv, NEW c \in Callers, Merge(c)
  PROVE  HeapInv'
<1> USE DEF HeapInv
<1>1. /\ fault = "none" /\ call[c].pc \in {"merge1", "merge2"} /\ HasNext(call[c].cur)
      /\ UNCHANGED <<mlock, live, fault>>
  BY DEF Merge, Merging, Running
<1>2. /\ mlock = c /\ call[c] \in Records /\ call[c].old = {}
      /\ call[c].cur # NULL /\ call[c].cur \in DOMAIN chunk
  BY <1>1 DEF CallsOK, Within, HasNext, Holding
<1>3. PICK a \in DOMAIN chunk : a = call[c].cur
  BY <1>2
<1>4. chunk[a].next # NULL
  BY <1>1, <1>3 DEF HasNext
<1>5. PICK b \in DOMAIN chunk : b = chunk[a].next
  BY <1>4, ListView
<1>6. chunk' = (IF Pair(a) THEN Joined(a) ELSE chunk)
  <2>1. Pair(a) <=> chunk[a].free /\ chunk[chunk[a].next].free
    BY <1>4 DEF Pair
  <2> QED
    BY <1>3, <2>1 DEF Merge
<1>7. PICK v : v = [call[c] EXCEPT !.cur = chunk'[a].next]
  OBVIOUS
<1>8. call' = [call EXCEPT ![c] = v]
  BY <1>3, <1>7 DEF Merge
<1>9. b > a /\ a \in Int /\ b \in Int /\ NULL = -1
  BY <1>4, <1>5, ListView, ListOrder
(* What the turn makes of the list. *)
<1>10. /\ ListOK' /\ a \in DOMAIN chunk' /\ DOMAIN chunk' \subseteq DOMAIN chunk
       /\ \A x \in DOMAIN chunk' : x # a => chunk'[x] = chunk[x]
       /\ chunk'[a].free <=> chunk[a].free
       /\ \A x \in DOMAIN chunk : ~chunk[x].free => x \in DOMAIN chunk' /\ chunk'[x] = chunk[x]
       /\ Pair(a) => chunk'[a].next = chunk[b].next
       /\ ~Pair(a) => chunk' = chunk
  <2>1. CASE Pair(a)
    <3>1. /\ ListOK' /\ DOMAIN chunk' = DOMAIN chunk \ {b}
          /\ \A d \in DOMAIN chunk' : d # a => chunk'[d] = chunk[d]
          /\ chunk'[a] = [size |-> chunk[a].size + chunk[b].size + HDR,
                          free |-> TRUE, next |-> chunk[b].next]
      BY <1>5, <1>6, <2>1, JoinStep, Zenon
    <3>2. chunk'[a].free /\ chunk'[a].next = chunk[b].next
      BY <3>1
    <3>3. chunk[a].free /\ chunk[b].free
      BY <1>5, <2>1 DEF Pair
    <3> QED
      BY <1>9, <2>1, <3>1, <3>2, <3>3
  <2>2. CASE ~Pair(a)
    <3>1. chunk' = chunk
      BY <1>6, <2>2
    <3> QED
      BY <2>2, <3>1 DEF ListOK, Tiled, Ordered, End
  <2> QED
    BY <2>1, <2>2
<1>11. chunk'[a].next = NULL \/ (chunk'[a].next \in DOMAIN chunk' /\ chunk'[a].next > a)
  <2>1. (IF chunk[a].next = NULL THEN a + HDR + chunk[a].size = HEAP_SIZE
         ELSE /\ chunk[a].next = a + HDR + chunk[a].size
              /\ a + HDR + chunk[a].size \in DOMAIN chunk)'
    BY <1>10 DEF ListOK, Tiled
  <2>2. chunk'[a].size \in Nat
    BY <1>10 DEF ListOK, Chunks
  <2> QED
    BY <1>9, <2>1, <2>2, HeapAssumption
<1>12. chunk'[a].next \in Addr \cup {NULL}
  BY <1>10 DEF ListOK, Chunks
<1>13. /\ v \in Records /\ v.pc = call[c].pc /\ v.old = {} /\ v.cur = chunk'[a].next
  BY <1>2, <1>7, <1>12 DEF Records
<1>14. /\ call'[c] = v /\ call' \in [Callers -> Records]
       /\ \A d \in Callers : d # c => call'[d] = call[d]
  BY <1>8, <1>13, CallStep
<1>15. \A d \in Callers : d # c => ~Within(d) /\ ~Within(d)'
  BY <1>2, <1>14, Alone DEF Within
<1>16. CallsOK'
  <2>1. ASSUME NEW d \in Callers
        PROVE  /\ Within(d)' <=> mlock' = d
               /\ mlock' = d /\ call'[d].cur # NULL => call'[d].cur \in DOMAIN chunk'
               /\ call'[d].cur = NULL /\ call'[d].pc = "walk" => fault' = "null_walk"
    <3>1. CASE d = c
      BY <1>1, <1>2, <1>11, <1>13, <1>14, <3>1 DEF Within
    <3>2. CASE d # c
      BY <1>1, <1>2, <1>15, <3>2 DEF Within
    <3> QED
      BY <3>1, <3>2
  <2> QED
    BY <1>1, <1>14, <2>1 DEF CallsOK
<1>17. \A d \in Callers : call'[d].old = call[d].old
  BY <1>2, <1>13, <1>14
<1>18. Holding'
  BY <1>1, <1>13, <1>14 DEF Holding
<1>19. Owned' = Owned
  BY <1>1, <1>17, OwnedView
<1>20. ExclusiveBlocks'
  <2>1. ASSUME NEW m \in Owned'
        PROVE  m.ptr \in DOMAIN chunk' /\ ~chunk'[m.ptr].free /\ chunk'[m.ptr].size >= m.size
    <3>1. m.ptr \in DOMAIN chunk /\ ~chunk[m.ptr].free /\ chunk[m.ptr].size >= m.size
      BY <1>1, <1>19 DEF ExclusiveBlocks
    <3> QED
      BY <1>10, <3>1
  <2>2. ASSUME NEW x \in DOMAIN chunk', ~chunk'[x].free
        PROVE  \E m \in Owned' : m.ptr = x
    <3>1. x \in DOMAIN chunk /\ ~chunk[x].free
      BY <1>10, <2>2
    <3> QED
      BY <1>1, <1>19, <3>1 DEF ExclusiveBlocks
  <2> QED
    BY <1>1, <1>19, <2>1, <2>2 DEF ExclusiveBlocks
<1>21. OneOwner'
  BY <1>1, <1>17 DEF OneOwner
<1>22. \A x \in DOMAIN chunk' : x \in Int
  BY <1>10, ListView
<1>23. mlock' # NoCaller /\ \A d \in Callers : call'[d].pc \in {"walk", "merge1", "merge2"} => d = c
  BY <1>1, <1>2, <1>15, HeapAssumption DEF Within
(* The pairs ahead, and behind, the turn. *)
<1>24. ASSUME Pair(a) PROVE Pairs'
  <2>1. \A x \in DOMAIN chunk' : Pair(x)' => (x # a /\ Pair(x)) \/ (x = a /\ Pair(b))
    BY <1>5, <1>6, <1>24, JoinPairs
  <2>2. CASE call[c].pc = "merge1"
    <3>1. \A x, y \in DOMAIN chunk : Pair(x) /\ Pair(y) /\ x < y => chunk[x].next = y /\ x >= a
      BY <1>3, <2>2 DEF Pairs
    <3>2. \A x \in DOMAIN chunk : Pair(x) => x = a \/ x = b
      BY <1>5, <1>9, <1>24, <3>1, ListView
    <3>3. \A x \in DOMAIN chunk' : Pair(x)' => x = a
      <4>1. b \notin DOMAIN chunk'
        BY <1>5, <1>6, <1>24, JoinStep
      <4> QED
        BY <1>10, <2>1, <3>2, <4>1
    <3> QED
      BY <1>13, <1>14, <1>22, <1>23, <2>2, <3>3 DEF Pairs
  <2>3. CASE call[c].pc = "merge2"
    <3>1. \A x, y \in DOMAIN chunk : Pair(x) /\ Pair(y) => x = y
      BY <2>3 DEF Pairs
    <3>2. \A x \in DOMAIN chunk' : ~Pair(x)'
      BY <1>9, <1>10, <1>24, <2>1, <3>1
    <3> QED
      BY <1>13, <1>14, <1>23, <2>3, <3>2 DEF Pairs
  <2> QED
    BY <1>1, <2>2, <2>3
<1>25. ASSUME ~Pair(a) PROVE Pairs'
  <2>1. chunk' = chunk
    BY <1>10, <1>25
  <2>2. \A x \in DOMAIN chunk : Pair(x)' <=> Pair(x)
    BY <2>1 DEF Pair
  <2>3. \A x \in DOMAIN chunk : Pair(x) /\ x >= a => x >= b
    BY <1>5, <1>9, <1>25, ListOrder, ListView
  <2>4. v.cur = b /\ v.cur # NULL
    BY <1>4, <1>5, <1>13, <2>1
  <2> QED
    BY <1>1, <1>3, <1>13, <1>14, <1>23, <2>1, <2>2, <2>3, <2>4 DEF Pairs
<1>26. Searched'
  BY <1>1, <1>13, <1>14, <1>15 DEF Searched, Within
<1> QED
  BY <1>10, <1>16, <1>18, <1>20, <1>21, <1>24, <1>25, <1>26

(* The end of merge(). *)
LEMMA MergeDoneKeeps ==
  ASSUME HeapInv, NEW c \in Callers, MergeDone(c)
  PROVE  HeapInv'
<1> USE DEF HeapInv
<1>1. /\ fault = "none" /\ call[c].pc \in {"merge1", "merge2"} /\ ~HasNext(call[c].cur)
      /\ UNCHANGED <<chunk, live, fault>>
  BY DEF MergeDone, Merging, Running
<1>2. /\ mlock = c /\ call[c] \in Records /\ call[c].old = {}
      /\ call[c].cur # NULL => call[c].cur \in DOMAIN chunk
  BY <1>1 DEF CallsOK, Within, Holding
<1>3. \A x \in DOMAIN chunk : Pair(x) => call[c].cur = NULL \/ x < call[c].cur
  <2> SUFFICES ASSUME NEW x \in DOMAIN chunk, Pair(x), call[c].cur # NULL, ~(x < call[c].cur)
               PROVE  FALSE
    OBVIOUS
  <2>1. PICK a \in DOMAIN chunk : a = call[c].cur
    BY <1>2
  <2>2. chunk[a].next = NULL
    BY <1>1, <2>1 DEF HasNext
  <2>3. x = a
    BY <2>1, <2>2, ListOrder, ListView
  <2> QED
    BY <2>2, <2>3 DEF Pair
<1>4. ListOK'
  BY <1>1 DEF ListOK, Tiled, Ordered, End
<1>5. \A x \in DOMAIN chunk : Pair(x)' <=> Pair(x)
  BY <1>1 DEF Pair
<1>6. 0 \in Addr /\ 0 \in DOMAIN chunk /\ NULL = -1
  BY HeapAssumption DEF ListOK, NULL
<1>7. \A x \in DOMAIN chunk : x \in Int /\ x >= 0
  BY ListView
<1>8. call[c].cur \in Int
  BY <1>2, <1>6, <1>7
<1>9. CASE call[c].pc = "merge1"
  <2>1. PICK v : v = [call[c] EXCEPT !.pc = "merge2", !.cur = 0]
    OBVIOUS
  <2>2. call' = [call EXCEPT ![c] = v] /\ mlock' = c
    BY <1>2, <1>9, <2>1 DEF MergeDone, CallsOK
  <2>3. v \in Records /\ v.pc = "merge2" /\ v.cur = 0 /\ v.old = {}
    BY <1>2, <1>6, <2>1 DEF Records
  <2>4. /\ call'[c] = v /\ call' \in [Callers -> Records]
        /\ \A d \in Callers : d # c => call'[d] = call[d]
    BY <2>2, <2>3, CallStep
  <2>5. /\ mlock' # NoCaller
        /\ \A d \in Callers : d # c => ~Within(d) /\ ~Within(d)'
        /\ \A d \in Callers : call'[d].pc \in {"walk", "merge1", "merge2"} => d = c
    BY <1>2, <2>2, <2>4, Alone, HeapAssumption DEF Within
  <2>6. CallsOK'
    <3>1. ASSUME NEW d \in Callers
          PROVE  /\ Within(d)' <=> mlock' = d
                 /\ mlock' = d /\ call'[d].cur # NULL => call'[d].cur \in DOMAIN chunk'
                 /\ call'[d].cur = NULL /\ call'[d].pc = "walk" => fault' = "null_walk"
      <4>1. CASE d = c
        BY <1>1, <1>6, <2>2, <2>3, <2>4, <4>1 DEF Within
      <4>2. CASE d # c
        BY <1>1, <2>2, <2>5, <4>2 DEF Within
      <4> QED
        BY <4>1, <4>2
    <3> QED
      BY <1>1, <2>2, <2>4, <3>1 DEF CallsOK
  <2>7. \A d \in Callers : call'[d].old = call[d].old
    BY <1>2, <2>3, <2>4
  <2>8. Holding'
    BY <2>3, <2>4 DEF Holding
  <2>9. \A m : m \in Owned' <=> m \in Owned
    BY <1>1, <2>7, OwnedView
  <2>10. ExclusiveBlocks'
    BY <1>1, <2>9, OwnedKept
  <2>11. OneOwner'
    BY <1>1, <2>7 DEF OneOwner
  <2>12. \A x, y \in DOMAIN chunk : Pair(x) /\ Pair(y) => x = y
    <3>1. \A x, y \in DOMAIN chunk : Pair(x) /\ Pair(y) /\ x < y =>
            call[c].cur # NULL /\ x >= call[c].cur
      BY <1>9 DEF Pairs
    <3> QED
      BY <1>3, <1>7, <1>8, <3>1
  <2>13. Pairs'
    BY <1>1, <1>5, <1>6, <1>7, <2>3, <2>4, <2>5, <2>12 DEF Pairs
  <2>14. Searched'
    BY <2>3, <2>4, <2>5 DEF Searched
  <2> QED
    BY <1>1, <1>4, <2>6, <2>8, <2>10, <2>11, <2>13, <2>14
<1>10. CASE call[c].pc = "merge2"
  <2>1. call' = [call EXCEPT ![c] = Idle] /\ mlock' = NoCaller
    BY <1>10 DEF MergeDone
  <2>2. Idle \in Records /\ Idle.pc = "idle" /\ Idle.old = {}
    BY DEF Records, Idle
  <2>3. /\ call'[c] = Idle /\ call' \in [Callers -> Records]
        /\ \A d \in Callers : d # c => call'[d] = call[d]
    BY <2>1, <2>2, CallStep
  <2>4. \A d \in Callers : ~Within(d)' /\ call'[d].old = call[d].old
    BY <1>2, <2>2, <2>3, Alone DEF Within
  <2>5. CallsOK'
    <3>1. \A d \in Callers : mlock' # d /\ ~(call'[d].pc = "walk")
      BY <2>1, <2>4, HeapAssumption DEF Within
    <3> QED
      BY <1>1, <2>1, <2>3, <2>4, <3>1 DEF CallsOK
  <2>6. Holding'
    BY <2>2, <2>3 DEF Holding
  <2>7. \A m : m \in Owned' <=> m \in Owned
    BY <1>1, <2>4, OwnedView
  <2>8. ExclusiveBlocks'
    BY <1>1, <2>7, OwnedKept
  <2>9. OneOwner'
    BY <1>1, <2>4 DEF OneOwner
  <2>10. \A x \in DOMAIN chunk : ~Pair(x)
    <3>1. \A x \in DOMAIN chunk : Pair(x) => call[c].cur # NULL /\ x >= call[c].cur
      BY <1>10 DEF Pairs
    <3> QED
      BY <1>3, <1>7, <1>8, <3>1
  <2>11. Pairs' /\ Searched'
    BY <1>1, <1>5, <2>4, <2>10 DEF Pairs, Searched, Within
  <2> QED
    BY <1>1, <1>4, <2>5, <2>6, <2>8, <2>9, <2>11
<1> QED
  BY <1>1, <1>9, <1>10

-----------------------------------------------------------------------------
(* At power on the heap is one free chunk. *)
LEMMA HeapInit == Init => HeapInv
<1> SUFFICES ASSUME Init PROVE HeapInv
  OBVIOUS
<1>1. /\ HDR \in Nat /\ HDR > 0 /\ HEAP_SIZE \in Nat /\ HEAP_SIZE > HDR /\ NULL = -1
      /\ NoCaller \notin Callers
  BY HeapAssumption DEF NULL
<1>2. /\ DOMAIN chunk = {0} /\ chunk \in [DOMAIN chunk -> Chunks]
      /\ chunk[0].size = HEAP_SIZE - HDR /\ chunk[0].free /\ chunk[0].next = NULL
  BY <1>1 DEF Init, Chunks
<1>3. ListOK
  BY <1>1, <1>2 DEF ListOK, Tiled, Ordered, End, Addr
<1>4. Idle \in Records /\ Idle.pc = "idle" /\ Idle.old = {}
  BY DEF Records, Idle
<1>5. call \in [Callers -> Records] /\ \A c \in Callers : call[c] = Idle
  BY <1>4 DEF Init
<1>6. mlock = NoCaller /\ live = {} /\ fault = "none"
  BY DEF Init
<1>7. CallsOK
  BY <1>1, <1>4, <1>5, <1>6 DEF CallsOK, Within
<1>8. Holding /\ OneOwner /\ Searched
  BY <1>4, <1>5, <1>6 DEF Holding, OneOwner, Searched
<1>9. \A m : m \notin Owned
  BY <1>4, <1>5, <1>6, OwnedView
<1>10. ExclusiveBlocks
  BY <1>2, <1>9 DEF ExclusiveBlocks
<1>11. Pairs
  BY <1>2, <1>4, <1>5 DEF Pairs, Pair
<1> QED
  BY <1>3, <1>7, <1>8, <1>10, <1>11 DEF HeapInv

(* Every step of every caller keeps the invariant of the heap. *)
LEMMA HeapStepKeeps == HeapInv /\ [Next]_vars => HeapInv'
<1> SUFFICES ASSUME HeapInv, [Next]_vars PROVE HeapInv'
  OBVIOUS
<1>1. CASE UNCHANGED vars
  BY <1>1 DEF vars, HeapInv, ListOK, Tiled, Ordered, End, CallsOK, Within, Holding,
              ExclusiveBlocks, Owned, OneOwner, Pairs, Pair, Searched
<1>2. CASE Next
  <2>1. PICK c \in Callers :
          \/ \E n \in Sizes : Malloc(c, n)
          \/ \E m \in live, n \in Sizes : Realloc(c, m, n)
          \/ \E m \in live : Free(c, m)
          \/ Working(c)
    BY <1>2 DEF Next
  <2>2. CASE \E n \in Sizes : Malloc(c, n)
    <3>1. PICK n \in Sizes : StartMalloc(c, n, {}) /\ live' = live
      BY <2>2 DEF Malloc
    <3>2. {} \in SUBSET live /\ live' = live \ {} /\ \A m1, m2 \in {} : m1 = m2
      BY <3>1
    <3> QED
      BY <3>1, <3>2, StartMallocKeeps
  <2>3. CASE \E m \in live, n \in Sizes : Realloc(c, m, n)
    <3>1. PICK m \in live, n \in Sizes : StartMalloc(c, n, {m}) /\ live' = live \ {m}
      BY <2>3 DEF Realloc
    <3>2. {m} \in SUBSET live /\ \A m1, m2 \in {m} : m1 = m2
      BY <3>1
    <3> QED
      BY <3>1, <3>2, StartMallocKeeps
  <2>4. CASE \E m \in live : Free(c, m)
    BY <2>4, FreeKeeps
  <2>5. CASE Working(c)
    BY <2>5, WalkKeeps, TakeKeeps, TakeNothingKeeps, CopyKeeps, FreeOldKeeps, MergeKeeps,
       MergeDoneKeeps DEF Working
  <2> QED
    BY <2>1, <2>2, <2>3, <2>4, <2>5
<1> QED
  BY <1>1, <1>2

(* The invariant says what HeapSafe promises. *)
LEMMA HeapInvSafe == HeapInv => HeapSafe
<1> SUFFICES ASSUME HeapInv PROVE HeapSafe
  OBVIOUS
<1>1. TypeOK /\ Tiled
  BY TypeParts DEF HeapInv
<1>2. Coalesced
  BY DEF HeapInv, Pairs, Pair, Coalesced
<1> QED
  BY <1>1, <1>2 DEF HeapInv, HeapSafe

(* malloc_lite.c, for any heap, header, sizes asked for and number of         *)
(* callers, between any two turns of its loops: the chunks tile the heap;     *)
(* until one of the faults the chunks in use are exactly the blocks that      *)
(* callers own; and an unlocked heap has no two free neighbours.              *)
THEOREM HeapCorrect == Spec => []HeapSafe
<1>1. Spec => []HeapInv
  BY HeapInit, HeapStepKeeps, PTL DEF Spec
<1> QED
  BY <1>1, HeapInvSafe, PTL

(* Walk and Take are where malloc goes wrong, and where it does no free chunk *)
(* has room.                                                                  *)
LEMMA FullStep ==
  ASSUME HeapInv, Next, fault' # fault, fault' \in {"null_walk", "in_use"},
         NEW c \in Callers, NEW a \in DOMAIN chunk, mlock = c, chunk[a].free
  PROVE  chunk[a].size < call[c].n
<1> USE DEF HeapInv
<1>1. PICK d \in Callers : Walk(d) \/ Take(d)
  BY Zenon DEF Next, Malloc, Realloc, StartMalloc, Free, StartFree, Working, TakeNothing, Copy,
               FreeOld, Merge, MergeDone
<1>2. call[d].pc = "walk" /\ Running
  BY <1>1 DEF Walk, Take
<1>3. /\ mlock = d /\ fault = "none" /\ call[d].cur \in DOMAIN chunk
      /\ \A x \in DOMAIN chunk : chunk[x].free /\ x < call[d].cur => chunk[x].size < call[d].n
  BY <1>2, Walking
<1>4. PICK b \in DOMAIN chunk : b = call[d].cur
  BY <1>3
<1>5. chunk[b].next = NULL /\ (chunk[b].free => chunk[b].size < call[d].n)
  <2>1. CASE Walk(d)
    <3>1. fault' = (IF chunk[b].next = NULL THEN "null_walk" ELSE fault) /\ PassedOver(d)
      BY <1>4, <2>1 DEF Walk
    <3>2. chunk[b].next = NULL
      BY <3>1
    <3> QED
      BY <1>4, <3>1, <3>2 DEF PassedOver
  <2>2. CASE Take(d)
    <3>1. fault' = (IF chunk[b].free THEN fault ELSE "in_use") /\ ~PassedOver(d)
      BY <1>4, <2>2 DEF Take
    <3>2. ~chunk[b].free
      BY <3>1
    <3> QED
      BY <1>4, <3>1, <3>2 DEF PassedOver
  <2> QED
    BY <1>1, <2>1, <2>2
<1>6. ~(b < a)
  BY <1>5, ListOrder
<1> QED
  BY <1>3, <1>4, <1>5, <1>6, ListView

(* malloc follows the NULL of the last chunk, or hands out a chunk in use,    *)
(* only when no free chunk of the list has room for the request.              *)
THEOREM HeapFaultsOnlyWhenFull == Spec => FaultsOnlyWhenFull
<1>1. ASSUME HeapInv, [Next]_vars
      PROVE  [fault' \in {"null_walk", "in_use"} =>
                \A c \in Callers, a \in DOMAIN chunk :
                  mlock = c /\ chunk[a].free => chunk[a].size < call[c].n]_fault
  BY <1>1, FullStep DEF vars
<1> QED
  BY <1>1, HeapInit, HeapStepKeeps, PTL DEF Spec, FaultsOnlyWhenFull
-----------------------------------------------------------------------------
(* The time arithmetic of posix_utils.c.                                     *)

Timespecs == [sec : Int, nsec : 0 .. NsPerSec - 1]
Instant(t) == t.sec * NsPerSec + t.nsec

(* The last answer, with what TimeExact asks of it. *)
AnswerExact(a) ==
  /\ (a.err = "ETIMEDOUT") <=> (a.left < 0)
  /\ a.left <= SecMax * NsPerTick =>
       /\ a.err = "EINVAL" => Checked /\ a.left > TickMax * NsPerTick
       /\ a.err = "none" /\ (Checked \/ a.left <= TickMax * NsPerTick)
            => a.n * NsPerTick - a.left \in 0 .. NsPerTick - 1

(* A deadline is the instant meant and fits a time_t; an instant before 1970  *)
(* was converted, never summed, so that one more step cannot leave time_t.    *)
TimeInv ==
  /\ now \in Nat /\ instant \in Int
  /\ ts # NoTs => /\ ts \in Timespecs /\ Instant(ts) = instant /\ ts.sec <= SecMax
                  /\ -(NsPerSec * SecMax) <= 2 * instant
  /\ ticks # NoTicks => AnswerExact(ticks)

(* Integer division. *)
LEMMA Euclid ==
  ASSUME NEW a \in Nat, NEW k \in Nat \ {0}
  PROVE  /\ a \div k \in Nat /\ a % k \in Nat /\ a % k < k
         /\ a = k * (a \div k) + (a % k)
OBVIOUS

(* A quotient and a remainder in range are the quotient and the remainder. *)
LEMMA EuclidUnique ==
  ASSUME NEW k \in Nat \ {0}, NEW p \in Int, NEW q \in Int,
         NEW r \in Int, NEW s \in Int, 0 <= r, r < k, 0 <= s,
         p * k + r <= q * k + s, s < k
  PROVE  p <= q
<1>1. ASSUME p > q PROVE FALSE
  <2>1. PICK e \in Nat : p = q + 1 + e
    <3>1. p - q - 1 \in Nat /\ p = q + 1 + (p - q - 1)  BY <1>1
    <3> QED  BY <3>1
  <2>2. p * k = q * k + k + e * k  BY <2>1
  <2>3. e * k \in Nat  OBVIOUS
  <2>4. PICK u \in Int : u = q * k  OBVIOUS
  <2>5. PICK w \in Nat : w = e * k  BY <2>3
  <2>6. u + k + w + r <= u + s  BY <2>2, <2>4, <2>5
  <2> QED  BY <2>6
<1> QED  BY <1>1

(* A multiple of the clock's tick and of the second. *)
LEMMA Ticks ==
  /\ NsPerSec \in Nat \ {0} /\ TickHz \in Nat \ {0} /\ NsPerTick \in Nat \ {0}
  /\ NsPerSec = TickHz * NsPerTick
<1>1. NsPerSec \in Nat \ {0} /\ TickHz \in Nat \ {0} /\ NsPerSec % TickHz = 0
  BY TimespecConstants
<1>2. NsPerTick \in Nat /\ NsPerSec = TickHz * NsPerTick
  BY <1>1, Euclid DEF NsPerTick
<1>3. NsPerTick # 0  BY <1>1, <1>2
<1> QED  BY <1>1, <1>2, <1>3

(* UTILS_NanosecondsToTimespec is exact for every number, negative ones too. *)
LEMMA Converted ==
  ASSUME NEW n \in Int
  PROVE  NanosecondsToTimespec(n) \in Timespecs /\ Instant(NanosecondsToTimespec(n)) = n
<1> DEFINE N == NsPerSec
<1>n. N \in Nat \ {0}  BY Ticks
<1> HIDE DEF N
<1>1. CASE n >= 0
  <2>1. PICK q \in Nat : q = n \div N  BY <1>1, <1>n, Euclid
  <2>2. PICK r \in Nat : r = n % N /\ r < N /\ n = N * q + r  BY <1>1, <1>n, <2>1, Euclid
  <2>3. CDiv(n, N) = q  BY <1>1, <2>1 DEF CDiv
  <2>4. CMod(n, N) = r
    <3>1. PICK u \in Int : u = N * q  BY <1>n
    <3> QED  BY <2>2, <2>3, <3>1 DEF CMod
  <2>5. NanosecondsToTimespec(n) = [sec |-> q, nsec |-> r]
    BY <2>2, <2>3, <2>4 DEF NanosecondsToTimespec, N
  <2>6. q * N + r = n  BY <1>n, <2>2
  <2>7. r \in 0 .. N - 1  BY <1>n, <2>2
  <2> QED  BY <2>5, <2>6, <2>7 DEF Timespecs, Instant, N
<1>2. CASE n < 0
  <2>0. -n \in Nat  BY <1>2
  <2>1. PICK q \in Nat : q = (-n) \div N  BY <2>0, <1>n, Euclid
  <2>2. PICK r \in Nat : r = (-n) % N /\ r < N /\ -n = N * q + r  BY <2>0, <1>n, <2>1, Euclid
  <2>3. CDiv(n, N) = -q  BY <1>2, <2>1 DEF CDiv
  <2>4. CMod(n, N) = -r
    <3>1. PICK u \in Int : u = N * q /\ N * (-q) = -u  BY <1>n
    <3> QED  BY <2>2, <2>3, <3>1 DEF CMod
  <2>5. CASE r = 0
    <3>1. NanosecondsToTimespec(n) = [sec |-> -q, nsec |-> 0]
      BY <2>3, <2>4, <2>5 DEF NanosecondsToTimespec, N
    <3>2. (-q) * N + 0 = n
      <4>1. PICK u \in Int : u = N * q /\ (-q) * N = -u  BY <1>n
      <4> QED  BY <2>2, <2>5, <4>1
    <3>3. 0 \in 0 .. N - 1  BY <1>n
    <3> QED  BY <3>1, <3>2, <3>3 DEF Timespecs, Instant, N
  <2>6. CASE r > 0
    <3>1. r \div N = 0
      <4>1. PICK d \in Nat : d = r \div N  BY <1>n, Euclid
      <4>2. PICK m \in Nat : r = N * d + m  BY <1>n, <4>1, Euclid
      <4>3. d = 0
        <5>1. ASSUME d >= 1 PROVE FALSE
          <6>1. N * d >= N  BY <1>n, <5>1
          <6>2. PICK u \in Int : u = N * d  BY <1>n
          <6> QED  BY <1>n, <2>2, <4>2, <6>1, <6>2
        <5> QED  BY <5>1
      <4> QED  BY <4>1, <4>3
    <3>2. CDiv(-r, N) = 0
      <4>1. -(-r) = r /\ ~(-r >= 0)  BY <2>6
      <4> QED  BY <3>1, <4>1 DEF CDiv
    <3>3. NanosecondsToTimespec(n) = [sec |-> -q - 1, nsec |-> -r + N]
      <4>1. CDiv(CMod(n, N), N) + 1 = 1 /\ 1 * N = N  BY <1>n, <2>4, <3>2
      <4>2. CMod(n, N) < 0  BY <2>4, <2>6
      <4>3. NanosecondsToTimespec(n) =
              [sec |-> CDiv(n, N) - (CDiv(CMod(n, N), N) + 1),
               nsec |-> CMod(n, N) + (CDiv(CMod(n, N), N) + 1) * N]
        BY <4>2 DEF NanosecondsToTimespec, N
      <4> QED  BY <4>1, <4>3, <2>3, <2>4
    <3>4. (-q - 1) * N + (-r + N) = n
      <4>1. PICK u \in Int : u = N * q /\ (-q - 1) * N = -u - N  BY <1>n
      <4> QED  BY <1>n, <2>2, <4>1
    <3>5. -r + N \in 0 .. N - 1 /\ -q - 1 \in Int  BY <1>n, <2>2, <2>6
    <3> QED  BY <3>3, <3>4, <3>5 DEF Timespecs, Instant, N
  <2> QED  BY <2>5, <2>6
<1> QED  BY <1>1, <1>2

(* A sum of seconds that is at most twice the largest time_t either fits or   *)
(* is negative after the wrap, so that it is refused.                         *)
LEMMA SecondsWrap ==
  ASSUME NEW x \in Int, -(SecMax + 1) <= x, x <= 2 * SecMax + 1
  PROVE  /\ ToInt64(x) \in Int
         /\ ToInt64(x) >= 0 => ToInt64(x) = x /\ x <= SecMax
<1> DEFINE k == 2 * (SecMax + 1)
           y == x + SecMax + 1
<1>1. SecMax \in Nat  BY TimespecConstants
<1>2. y \in Nat /\ k \in Nat \ {0} /\ y < k + k  BY <1>1
<1>3. CASE y < k
  <2>1. y % k = y  BY <1>2, <1>3
  <2>2. ToInt64(x) = y - SecMax - 1  BY <2>1 DEF ToInt64
  <2> QED  BY <1>1, <1>3, <2>2
<1>4. CASE y >= k
  <2>1. y % k = y - k  BY <1>2, <1>4
  <2>2. ToInt64(x) = (y - k) - SecMax - 1  BY <2>1 DEF ToInt64
  <2>3. ToInt64(x) < 0 /\ ToInt64(x) \in Int  BY <1>1, <1>4, <2>2
  <2> QED  BY <2>3
<1> QED  BY <1>2, <1>3, <1>4

(* What a sum makes of a deadline: either it is refused, or it is the sum. *)
LEMMA Summed ==
  ASSUME TimeInv, ts # NoTs, NEW n \in Steps, NEW a \in Int, NEW t \in Nat,
         Instant(ts) + n = a * NsPerSec + t, a + (t \div NsPerSec) <= 2 * SecMax + 1,
         NEW r, r = Result(IF ToInt64(a + (t \div NsPerSec)) < 0 THEN 1 ELSE 0,
                           [sec |-> ToInt64(a + (t \div NsPerSec)), nsec |-> t % NsPerSec]),
         Sum(r, n)
  PROVE  TimeInv'
<1> DEFINE N == NsPerSec
<1>n. N \in Nat \ {0} /\ SecMax \in Nat /\ n \in Int  BY Ticks, TimespecConstants
<1>a. instant \in Int /\ instant + n \in Int /\ instant = Instant(ts)  BY <1>n DEF TimeInv
<1>c. -(N * SecMax) <= 2 * instant /\ -(N * SecMax) <= 2 * n  BY StepsFit DEF TimeInv
<1> HIDE DEF N
<1>1. PICK q \in Nat : q = t \div N  BY <1>n, Euclid
<1>2. PICK m \in Nat : m = t % N /\ m < N /\ t = N * q + m  BY <1>n, <1>1, Euclid
<1>3. PICK s \in Int : s = a + q  OBVIOUS
<1>4. instant + n = s * N + m
  <2>1. instant + n = a * N + t  BY <1>a DEF N
  <2>2. PICK u \in Int, v \in Int : u = a * N /\ v = N * q /\ s * N = u + v  BY <1>n, <1>3
  <2> QED  BY <1>2, <2>1, <2>2
<1>5. -(SecMax + 1) <= s
  <2>1. PICK u \in Int : u = N * SecMax  BY <1>n
  <2>2. -u <= instant + n  BY <1>a, <1>c, <2>1, <1>n
  <2>3. (-SecMax) * N + 0 <= s * N + m
    <3>1. (-SecMax) * N = -u  BY <1>n, <2>1
    <3> QED  BY <2>2, <3>1, <1>4
  <2>4. -SecMax <= s  BY <1>n, <1>2, <2>3, EuclidUnique
  <2> QED  BY <1>n, <2>4
<1>6. s <= 2 * SecMax + 1  BY <1>1, <1>3 DEF N
<1>7. /\ ToInt64(s) \in Int
      /\ ToInt64(s) >= 0 => ToInt64(s) = s /\ s <= SecMax
  BY <1>5, <1>6, SecondsWrap
<1>8. /\ instant' = instant + n /\ now' = now /\ ticks' = ticks
      /\ ts' = IF ToInt64(s) < 0 THEN NoTs ELSE [sec |-> ToInt64(s), nsec |-> m]
  <2>1. r.err = (IF ToInt64(s) < 0 THEN 1 ELSE 0) /\ r.t = [sec |-> ToInt64(s), nsec |-> m]
    BY <1>1, <1>2, <1>3 DEF Result, N
  <2> QED  BY <2>1 DEF Sum
<1>9. ASSUME ts' # NoTs
      PROVE  /\ ts' \in Timespecs /\ Instant(ts)' = instant' /\ ts'.sec <= SecMax
             /\ -(N * SecMax) <= 2 * instant'
  <2>1. ToInt64(s) >= 0  BY <1>7, <1>8, <1>9
  <2>2. ToInt64(s) = s /\ s <= SecMax /\ s >= 0  BY <1>7, <2>1
  <2>3. ts' = [sec |-> s, nsec |-> m]  BY <1>8, <2>1, <2>2, <1>7
  <2>4. m \in 0 .. N - 1  BY <1>n, <1>2
  <2>5. ts' \in Timespecs /\ ts'.sec <= SecMax  BY <2>2, <2>3, <2>4 DEF Timespecs, N
  <2>6. Instant(ts)' = instant'  BY <1>4, <1>8, <2>3 DEF Instant, N
  <2>7. -(N * SecMax) <= 2 * instant'
    <3>1. s * N \in Nat /\ N * SecMax \in Nat  BY <1>n, <2>2
    <3>2. PICK u \in Nat, v \in Nat : u = s * N /\ v = N * SecMax  BY <3>1
    <3> QED  BY <1>4, <1>8, <3>2
  <2> QED  BY <2>5, <2>6, <2>7
<1> QED  BY <1>8, <1>9, <1>a DEF TimeInv, AnswerExact, N

(* UTILS_TimespecAddNanoseconds and UTILS_TimespecAdd. *)
LEMMA AddKeeps ==
  ASSUME TimeInv, NEW n \in Steps, AddNanoseconds(n) \/ AddTimespec(n)
  PROVE  TimeInv'
<1> DEFINE N == NsPerSec
<1>n. N \in Nat \ {0} /\ SecMax \in Nat /\ n \in Int  BY Ticks, TimespecConstants
<1>0. ts # NoTs  BY DEF AddNanoseconds, AddTimespec
<1>1. ts \in Timespecs /\ Instant(ts) = instant /\ ts.sec <= SecMax  BY <1>0 DEF TimeInv
<1>2. ts.sec \in Int /\ ts.nsec \in Nat /\ ts.nsec < N  BY <1>1, <1>n DEF Timespecs
<1>3. 2 * n <= N * SecMax  BY StepsFit
<1>4. ASSUME NEW r, r.err = 1, Sum(r, n) PROVE TimeInv'
  <2>1. ts' = NoTs /\ instant' = instant + n /\ now' = now /\ ticks' = ticks
    BY <1>4 DEF Sum
  <2> QED  BY <2>1, <1>n DEF TimeInv, AnswerExact
<1> HIDE DEF N
<1>5. CASE AddNanoseconds(n)
  <2> DEFINE t == ts.nsec + n
  <2>1. t \in Int  BY <1>2, <1>n
  <2>s. Sum(TimespecAddNanoseconds(ts, n), n)  BY <1>5 DEF AddNanoseconds
  <2>2. CASE t < 0
    <3>1. TimespecAddNanoseconds(ts, n) = Result(1, NoTs)
      BY <2>2 DEF TimespecAddNanoseconds
    <3> QED  BY <3>1, <2>s, <1>4 DEF Result
  <2>3. CASE t >= 0
    <3>0. t \in Nat  BY <2>1, <2>3
    <3>1. TimespecAddNanoseconds(ts, n)
            = Result(IF ToInt64(ts.sec + (t \div N)) < 0 THEN 1 ELSE 0,
                     [sec |-> ToInt64(ts.sec + (t \div N)), nsec |-> t % N])
      <4>1. ~(t < 0)  BY <3>0
      <4> QED  BY <4>1 DEF TimespecAddNanoseconds, N
    <3>2. Instant(ts) + n = ts.sec * N + t
      <4>1. PICK u \in Int : u = ts.sec * N  BY <1>2, <1>n
      <4> QED  BY <4>1, <1>2, <1>n DEF Instant, N
    <3>3. ts.sec + (t \div N) <= 2 * SecMax + 1
      <4>1. PICK q \in Nat : q = t \div N  BY <3>0, <1>n, Euclid
      <4>2. PICK m \in Nat : m < N /\ t = N * q + m  BY <3>0, <1>n, <4>1, Euclid
      <4>3. q * N + m <= SecMax * N + (N - 1)
        <5>1. PICK u \in Nat : u = N * SecMax /\ SecMax * N = u  BY <1>n
        <5>2. t <= u + N - 1  BY <1>2, <1>3, <1>n, <5>1
        <5>3. q * N = N * q  BY <1>n
        <5> QED  BY <4>2, <5>1, <5>2, <5>3, <1>n
      <4>4. q <= SecMax
        <5>1. 0 <= N - 1 /\ N - 1 < N /\ N - 1 \in Int  BY <1>n
        <5> QED  BY <1>n, <4>2, <4>3, <5>1, EuclidUnique
      <4> QED  BY <1>1, <1>2, <1>n, <4>1, <4>4
    <3> HIDE DEF t
    <3> QED  BY <1>0, <1>2, <2>s, <3>0, <3>1, <3>2, <3>3, Summed DEF N
  <2> QED  BY <2>1, <2>2, <2>3
<1>6. CASE AddTimespec(n)
  <2>0. PICK y \in Timespecs : y = NanosecondsToTimespec(n) /\ Instant(y) = n
    BY <1>n, Converted
  <2>a. y.sec \in Int /\ y.nsec \in Nat /\ y.nsec < N  BY <1>n DEF Timespecs, N
  <2> DEFINE t == ts.nsec + y.nsec
             a == ts.sec + y.sec
  <2>1. t \in Nat /\ a \in Int /\ t < N + N  BY <1>2, <1>n, <2>a
  <2>2. Sum(TimespecAdd(ts, y), n)  BY <1>6, <2>0 DEF AddTimespec
  <2>3. TimespecAdd(ts, y)
          = Result(IF ToInt64(a + (t \div N)) < 0 THEN 1 ELSE 0,
                   [sec |-> ToInt64(a + (t \div N)), nsec |-> t % N])
    <3>1. ~(t < 0)  BY <2>1
    <3> QED  BY <3>1 DEF TimespecAdd, N
  <2>4. Instant(ts) + n = a * N + t
    <3>1. PICK u \in Int, v \in Int : u = ts.sec * N /\ v = y.sec * N /\ a * N = u + v
      BY <1>2, <1>n, <2>a
    <3> QED  BY <3>1, <2>0, <2>a, <1>2 DEF Instant, N
  <2>5. a + (t \div N) <= 2 * SecMax + 1
    <3>1. PICK q \in Nat : q = t \div N  BY <2>1, <1>n, Euclid
    <3>2. PICK m \in Nat : m < N /\ t = N * q + m  BY <2>1, <1>n, <3>1, Euclid
    <3>3. q <= 1
      <4>1. q * N + m <= 1 * N + (N - 1)
        <5>1. q * N = N * q /\ 1 * N = N  BY <1>n
        <5> QED  BY <5>1, <3>2, <2>1, <1>n
      <4>2. 0 <= N - 1 /\ N - 1 < N /\ N - 1 \in Int  BY <1>n
      <4> QED  BY <1>n, <3>2, <4>1, <4>2, EuclidUnique
    <3>4. y.sec <= SecMax
      <4>1. y.sec * N + y.nsec <= SecMax * N + 0
        <5>1. PICK u \in Nat : u = N * SecMax /\ SecMax * N = u  BY <1>n
        <5>2. n <= u  BY <1>3, <1>n, <5>1
        <5> QED  BY <5>1, <5>2, <2>0 DEF Instant, N
      <4>2. 0 <= y.nsec /\ 0 < N  BY <1>n, <2>a
      <4>3. y.nsec \in Int  BY <2>a
      <4> QED  BY <1>n, <2>a, <4>1, <4>2, <4>3, EuclidUnique
    <3> QED  BY <1>1, <1>2, <1>n, <2>a, <3>1, <3>3, <3>4
  <2> HIDE DEF t, a
  <2> QED  BY <1>0, <2>1, <2>2, <2>3, <2>4, <2>5, Summed DEF N
<1> QED  BY <1>5, <1>6

(* UTILS_TimespecCompare and UTILS_TimespecSubtract, on valid timespecs: the  *)
(* difference of the instants, refused when it is negative.                   *)
LEMMA Subtracted ==
  ASSUME NEW x \in Timespecs, NEW y \in Timespecs
  PROVE  /\ Instant(x) \in Int /\ Instant(y) \in Int
         /\ Instant(x) < Instant(y) => TimespecSubtract(x, y).err = 1
         /\ Instant(x) >= Instant(y) =>
              /\ TimespecSubtract(x, y).err = 0
              /\ TimespecSubtract(x, y).t \in Timespecs
              /\ Instant(TimespecSubtract(x, y).t) = Instant(x) - Instant(y)
<1> DEFINE N == NsPerSec
<1>n. N \in Nat \ {0}  BY Ticks
<1>1. /\ x.sec \in Int /\ y.sec \in Int /\ x.nsec \in Nat /\ y.nsec \in Nat
      /\ x.nsec < N /\ y.nsec < N
  BY <1>n DEF Timespecs
<1> HIDE DEF N
<1>2. PICK u \in Int, v \in Int : u = x.sec * N /\ v = y.sec * N  BY <1>1, <1>n
<1>3. Instant(x) = u + x.nsec /\ Instant(y) = v + y.nsec  BY <1>2 DEF Instant, N
<1>4. ASSUME x.sec < y.sec PROVE Instant(x) < Instant(y)
  <2>1. ~(y.sec * N + y.nsec <= x.sec * N + x.nsec)
    BY <1>1, <1>n, <1>4, EuclidUnique
  <2> QED  BY <1>1, <1>2, <1>3, <2>1
<1>5. ASSUME x.sec > y.sec PROVE Instant(x) > Instant(y)
  <2>1. ~(x.sec * N + x.nsec <= y.sec * N + y.nsec)
    BY <1>1, <1>n, <1>5, EuclidUnique
  <2> QED  BY <1>1, <1>2, <1>3, <2>1
<1>6. ASSUME x.sec = y.sec PROVE u = v  BY <1>2, <1>6
<1>7. CASE Instant(x) < Instant(y)
  <2>1. TimespecCompare(x, y) = -1
    BY <1>1, <1>3, <1>4, <1>5, <1>6, <1>7 DEF TimespecCompare
  <2>2. TimespecSubtract(x, y) = Result(1, NoTs)  BY <2>1 DEF TimespecSubtract
  <2> QED  BY <1>1, <1>3, <1>7, <2>2 DEF Result
<1>8. CASE Instant(x) = Instant(y)
  <2>1. x.sec = y.sec  BY <1>1, <1>3, <1>4, <1>5, <1>8
  <2>2. x.nsec = y.nsec  BY <1>1, <1>3, <1>6, <2>1, <1>8
  <2>3. TimespecCompare(x, y) = 0  BY <1>1, <2>1, <2>2 DEF TimespecCompare
  <2>4. TimespecSubtract(x, y) = Result(0, [sec |-> 0, nsec |-> 0])
    BY <2>3 DEF TimespecSubtract
  <2>5. 0 \in 0 .. N - 1 /\ 0 * N = 0  BY <1>n
  <2>6. TimespecSubtract(x, y).err = 0 /\ TimespecSubtract(x, y).t = [sec |-> 0, nsec |-> 0]
    BY <2>4 DEF Result
  <2>7. [sec |-> 0, nsec |-> 0] \in Timespecs /\ Instant([sec |-> 0, nsec |-> 0]) = 0
    BY <2>5 DEF Timespecs, Instant, N
  <2> QED  BY <1>1, <1>3, <1>8, <2>6, <2>7
<1>9. CASE Instant(x) > Instant(y)
  <2>1. x.sec > y.sec \/ (x.sec = y.sec /\ x.nsec > y.nsec)
    BY <1>1, <1>3, <1>4, <1>6, <1>9
  <2>2. TimespecCompare(x, y) = 1  BY <1>1, <2>1 DEF TimespecCompare
  <2>3. PICK b \in {0, 1} : b = IF x.nsec < y.nsec THEN 1 ELSE 0  OBVIOUS
  <2>4. PICK s \in Int, m \in Int : s = x.sec - y.sec - b /\ m = x.nsec - y.nsec + b * N
    BY <1>1, <1>n
  <2>5. m \in 0 .. N - 1  BY <1>1, <1>n, <2>3, <2>4
  <2>6. TimespecSubtract(x, y) = Result(0, [sec |-> s, nsec |-> m])
    <3>1. ~(m < 0)  BY <2>5, <1>n
    <3> QED  BY <2>2, <2>3, <2>4, <3>1 DEF TimespecSubtract, N
  <2>7. s * N + m = Instant(x) - Instant(y)
    <3>1. CASE b = 0
      <4>1. s * N = u - v  BY <1>1, <1>2, <1>n, <2>4, <3>1
      <4> QED  BY <1>1, <1>3, <1>n, <2>4, <3>1, <4>1
    <3>2. CASE b = 1
      <4>1. s * N = u - v - N  BY <1>1, <1>2, <1>n, <2>4, <3>2
      <4>2. m = x.nsec - y.nsec + N  BY <1>1, <1>n, <2>4, <3>2
      <4>3. PICK z \in Int : z = s * N  BY <1>n
      <4>4. z + m = (u + x.nsec) - (v + y.nsec)  BY <1>1, <1>n, <4>1, <4>2, <4>3
      <4> QED  BY <1>3, <4>3, <4>4
    <3> QED  BY <3>1, <3>2
  <2> QED  BY <1>1, <1>3, <1>9, <2>5, <2>6, <2>7 DEF Result, Timespecs, Instant, N
<1> QED  BY <1>1, <1>3, <1>7, <1>8, <1>9

(* UTILS_TimespecToTicks of a time that is not negative: rounded up by less   *)
(* than a tick, refused or cut off only when it does not fit, while the total *)
(* fits an int64_t.                                                           *)
LEMMA TicksExact ==
  ASSUME NEW d \in Timespecs, Instant(d) >= 0, NEW a,
         a.err = TimespecToTicks(d).err, a.n = TimespecToTicks(d).n, a.left = Instant(d)
  PROVE  AnswerExact(a)
<1> DEFINE N == NsPerSec
           P == NsPerTick
<1>n. /\ N \in Nat \ {0} /\ P \in Nat \ {0} /\ TickHz \in Nat \ {0}
      /\ N = TickHz * P /\ TickMax \in Nat /\ Checked \in BOOLEAN /\ SecMax \in Nat
  BY Ticks, TimespecConstants
<1>1. d.sec \in Int /\ d.nsec \in Nat /\ d.nsec < N  BY <1>n DEF Timespecs
<1>2. ValidateTimespec(d)  BY DEF ValidateTimespec, Timespecs
<1> HIDE DEF N, P
<1>3. d.sec \in Nat
  <2>1. d.sec * N + d.nsec >= 0 * N + 0  BY <1>n DEF Instant, N
  <2>2. 0 <= d.sec  BY <1>1, <1>n, <2>1, EuclidUnique
  <2> QED  BY <1>1, <2>2
<1>4. PICK q \in Nat : q = d.nsec \div P  BY <1>1, <1>n, Euclid
<1>5. PICK m \in Nat : m = d.nsec % P /\ m < P /\ d.nsec = P * q + m
  BY <1>1, <1>4, <1>n, Euclid
<1>6. PICK b \in {0, 1} : b = IF m # 0 THEN 1 ELSE 0  OBVIOUS
<1>7. PICK total \in Nat : total = TickHz * d.sec + q + b
  <2>1. TickHz * d.sec \in Nat  BY <1>3, <1>n
  <2> QED  BY <1>6, <2>1
<1>8. TimespecToTicks(d)
        = [err |-> IF ToInt64(total) < 0 \/ (Checked /\ ToInt64(total) > TickMax) THEN "EINVAL" ELSE "none",
           n |-> ToInt64(total) % (TickMax + 1)]
  <2>1. CDiv(d.nsec, P) = q  BY <1>1, <1>4 DEF CDiv
  <2>2. total = TickHz * d.sec + CDiv(d.nsec, P) + (IF d.nsec % P # 0 THEN 1 ELSE 0)
    BY <1>5, <1>6, <1>7, <2>1
  <2> QED  BY <1>2, <2>2 DEF TimespecToTicks, P
<1>9. PICK span \in Nat : span = Instant(d) /\ a.left = span
  BY <1>1, <1>3, <1>n DEF Instant, N
<1>10. total * P - span \in 0 .. P - 1
  <2>1. PICK u \in Nat : u = d.sec * N  BY <1>3, <1>n
  <2>2. span = u + d.nsec  BY <1>9, <2>1 DEF Instant, N
  <2>3. PICK v \in Nat : v = P * q  BY <1>n
  <2>4. total * P = u + v + b * P
    <3>1. (TickHz * d.sec) * P = u  BY <1>3, <1>n, <2>1
    <3>2. PICK h \in Nat : h = TickHz * d.sec  BY <1>3, <1>n
    <3>3. total * P = h * P + q * P + b * P  BY <1>6, <1>7, <1>n, <3>2
    <3> QED  BY <1>n, <2>3, <3>1, <3>2, <3>3
  <2>5. CASE m = 0
    <3>1. b * P = 0  BY <1>6, <1>n, <2>5
    <3>2. total * P = u + v  BY <2>4, <3>1
    <3>3. span = u + v  BY <1>5, <2>2, <2>3, <2>5
    <3>4. total * P - span = 0  BY <3>2, <3>3
    <3> QED  BY <1>n, <3>4
  <2>6. CASE m # 0
    <3>1. b * P = P  BY <1>6, <1>n, <2>6
    <3> QED  BY <1>5, <1>n, <2>2, <2>3, <2>4, <2>6, <3>1
  <2> QED  BY <2>5, <2>6
<1>11. PICK w \in Nat : w = TickMax * P  BY <1>n
<1>12. ASSUME total > TickMax PROVE span > w
  <2>1. total * P >= (TickMax + 1) * P  BY <1>12, <1>n
  <2>2. (TickMax + 1) * P = w + P  BY <1>11, <1>n
  <2>3. PICK z \in Nat : z = total * P  BY <1>n
  <2> QED  BY <1>10, <1>n, <2>1, <2>2, <2>3
<1>13. ASSUME total <= TickMax PROVE total % (TickMax + 1) = total  BY <1>13, <1>n
<1>14. a.err \in {"none", "EINVAL"} /\ a.left >= 0  BY <1>8, <1>9
<1>15. PICK s \in Nat : s = SecMax * P  BY <1>n
<1>16. ASSUME a.left <= s PROVE ToInt64(total) = total
  <2>1. total <= SecMax
    <3>1. SUFFICES ASSUME total > SecMax PROVE FALSE  BY <1>n
    <3>2. total * P >= (SecMax + 1) * P  BY <3>1, <1>n
    <3>3. (SecMax + 1) * P = s + P  BY <1>15, <1>n
    <3>4. PICK z \in Nat : z = total * P  BY <1>n
    <3> QED  BY <1>9, <1>10, <1>16, <1>n, <3>2, <3>3, <3>4
  <2>2. (total + SecMax + 1) % (2 * (SecMax + 1)) = total + SecMax + 1  BY <2>1, <1>n
  <2> QED  BY <2>2, <1>n DEF ToInt64
<1>17. ASSUME a.left <= s, a.err = "EINVAL" PROVE Checked /\ a.left > w
  <2>1. ToInt64(total) = total  BY <1>16, <1>17
  <2> QED  BY <2>1, <1>8, <1>9, <1>12, <1>17
<1>18. ASSUME a.left <= s, a.err = "none", Checked \/ a.left <= w
       PROVE  a.n * P - a.left \in 0 .. P - 1
  <2>1. ToInt64(total) = total  BY <1>16, <1>18
  <2>2. total <= TickMax
    <3>1. CASE Checked
      <4>1. ~(total > TickMax)  BY <1>8, <1>18, <2>1, <3>1
      <4> QED  BY <4>1, <1>n
    <3>2. CASE a.left <= w  BY <3>2, <1>9, <1>12, <1>n
    <3> QED  BY <1>18, <3>1, <3>2
  <2>3. a.n = total  BY <1>8, <1>13, <2>1, <2>2
  <2> QED  BY <1>9, <1>10, <2>3
<1> QED  BY <1>9, <1>11, <1>14, <1>15, <1>17, <1>18 DEF AnswerExact, P

(* UTILS_AbsoluteTimespecToDeltaTicks. *)
LEMMA AskKeeps ==
  ASSUME TimeInv, Ask
  PROVE  TimeInv'
<1> DEFINE cur == NanosecondsToTimespec(now)
           a == AbsoluteTimespecToDeltaTicks(ts, cur)
           d == TimespecSubtract(ts, cur)
<1>1. ts \in Timespecs /\ Instant(ts) = instant  BY DEF Ask, TimeInv
<1>2. now \in Nat /\ instant \in Int  BY DEF TimeInv
<1>3. cur \in Timespecs /\ Instant(cur) = now  BY <1>2, Converted
<1>4. UNCHANGED <<now, ts, instant>>  BY DEF Ask
<1>5. ticks' = [err |-> a.err, n |-> a.n, left |-> instant - now]  BY DEF Ask
<1> HIDE DEF cur
<1>6. CASE instant < now
  <2>1. d.err = 1  BY <1>1, <1>3, <1>6, Subtracted
  <2>2. a.err = "ETIMEDOUT"  BY <2>1 DEF AbsoluteTimespecToDeltaTicks
  <2>3. ticks'.err = "ETIMEDOUT" /\ ticks'.left < 0  BY <1>2, <1>5, <1>6, <2>2
  <2> QED  BY <1>4, <2>3 DEF TimeInv, AnswerExact
<1>7. CASE instant >= now
  <2>1. d.err = 0 /\ d.t \in Timespecs /\ Instant(d.t) = instant - now
    BY <1>1, <1>3, <1>7, Subtracted
  <2>2. a = TimespecToTicks(d.t)  BY <2>1 DEF AbsoluteTimespecToDeltaTicks
  <2>3. Instant(d.t) >= 0  BY <1>2, <1>7, <2>1
  <2>4. /\ ticks'.err = TimespecToTicks(d.t).err /\ ticks'.n = TimespecToTicks(d.t).n
        /\ ticks'.left = Instant(d.t)
    BY <1>5, <2>1, <2>2
  <2>5. AnswerExact(ticks')  BY <2>1, <2>3, <2>4, TicksExact
  <2> QED  BY <1>4, <2>5 DEF TimeInv, AnswerExact
<1> QED  BY <1>2, <1>6, <1>7

(* UTILS_NanosecondsToTimespec, UTILS_TimespecAdd, UTILS_TimespecAddNanoseconds, *)
(* UTILS_TimespecSubtract and UTILS_TimespecToTicks, chained in any order: a     *)
(* deadline is the instant that was meant and the ticks left for it, while they  *)
(* fit the int64_t they are counted in, are exact up to a tick, for every tick   *)
(* rate, width of the ticks and of time_t.                                       *)
THEOREM TimeCorrect == TimeSpec => []TimeExact
<1>1. TimeInit => TimeInv
  BY DEF TimeInit, TimeInv
<1>2. ASSUME TimeInv, [TimeNext]_timeVars PROVE TimeInv'
  <2>1. CASE Ask  BY <1>2, <2>1, AskKeeps
  <2>2. ASSUME NEW n \in Steps, SetDeadline(n) PROVE TimeInv'
    <3>1. n \in Int /\ SecMax \in Nat /\ NsPerSec \in Nat \ {0}
      BY Ticks, TimespecConstants
    <3>2. PICK y \in Timespecs : y = NanosecondsToTimespec(n) /\ Instant(y) = n
      BY <3>1, Converted
    <3>3. ts' = y /\ instant' = n /\ now' = now /\ ticks' = ticks
      BY <2>2, <3>2 DEF SetDeadline
    <3>4. -(NsPerSec * SecMax) <= 2 * n /\ 2 * n <= NsPerSec * SecMax  BY StepsFit
    <3>5. y.sec <= SecMax
      <4>1. y.sec \in Int /\ y.nsec \in Nat /\ y.nsec < NsPerSec  BY <3>1 DEF Timespecs
      <4>2. y.sec * NsPerSec + y.nsec <= SecMax * NsPerSec + 0
        <5>1. PICK u \in Nat : u = NsPerSec * SecMax /\ SecMax * NsPerSec = u  BY <3>1
        <5>2. n <= u  BY <3>4, <3>1, <5>1
        <5> QED  BY <5>1, <5>2, <3>2 DEF Instant
      <4> QED  BY <3>1, <4>1, <4>2, EuclidUnique
    <3>6. Instant(ts)' = instant'  BY <3>2, <3>3 DEF Instant
    <3> QED  BY <3>1, <3>3, <3>4, <3>5, <3>6, <1>2 DEF TimeInv, AnswerExact
  <2>3. ASSUME NEW n \in Steps, AddNanoseconds(n) \/ AddTimespec(n) PROVE TimeInv'
    BY <1>2, <2>3, AddKeeps
  <2>4. ASSUME NEW n \in Steps, Pass(n) PROVE TimeInv'
    BY <1>2, <2>4, TimespecConstants DEF Pass, TimeInv, Instant
  <2>5. CASE UNCHANGED timeVars
    BY <1>2, <2>5 DEF timeVars, TimeInv, Instant, AnswerExact
  <2> QED  BY <1>2, <2>1, <2>2, <2>3, <2>4, <2>5 DEF TimeNext
<1>3. TimeInv => TimeExact
  BY DEF TimeInv, TimeExact, AnswerExact, Instant, Timespecs, ValidateTimespec
<1> QED  BY <1>1, <1>2, <1>3, PTL DEF TimeSpec


-----------------------------------------------------------------------------
(* string.c: the invariant of every loop, then one lemma per turn and call.   *)

StringFunctions == {"none", "memset", "memchr", "memchr_rev", "memcmp", "memcpy", "memmove", "strlen",
              "strnlen", "strchr", "strchr_rev", "strcmp", "strncmp", "strlcpy"}

StringTypes ==
  /\ mem \in [Addrs -> Bytes] /\ before \in [Addrs -> Bytes]
  /\ pc \in {"idle", "loop", "back", "done"}
  /\ fn \in StringFunctions
  /\ arg \in [i : Nat, j : Nat, c : Bytes, size : Nat]
  /\ p1 \in Int /\ p2 \in Int /\ left \in Nat

(* The blocks and strings handed over, in the memory of the call. *)
BlockAt(a) == a \in Addrs /\ Block(a, arg.size)
StringAt(a, e) == a \in Addrs /\ e <= MemSize /\ \E x \in a .. e : before[x] = 0
StringOrBlockAt(a) == StringAt(a, MemSize) \/ BlockAt(a)

(* How far the loops are: p1 has gone over the first p1 - arg.i bytes, p2 with it. *)
Counted == p1 \in arg.i .. arg.i + arg.size /\ left = arg.i + arg.size - p1
Abreast == p2 = arg.j + (p1 - arg.i)
Clear(a, e, c) == \A x \in a .. e : before[x] # c
Moved(a, e) ==
  \A k \in Addrs : mem[k] = IF k \in a .. e THEN before[arg.j + (k - arg.i)] ELSE before[k]

(* The loop invariant of each function. *)
MemsetLoop ==
  /\ BlockAt(arg.i) /\ Counted
  /\ \A k \in Addrs : mem[k] = IF k \in arg.i .. p1 - 1 THEN arg.c ELSE before[k]
(* Forwards, the source begins after the bytes written or ends before them. *)
CopyLoop ==
  /\ BlockAt(arg.i) /\ BlockAt(arg.j) /\ Counted /\ Abreast
  /\ arg.i <= arg.j \/ arg.j + arg.size <= arg.i
  /\ Moved(arg.i, p1 - 1)
BackLoop ==
  /\ BlockAt(arg.i) /\ BlockAt(arg.j) /\ p1 \in arg.i .. arg.i + arg.size /\ Abreast
  /\ arg.j <= arg.i
  /\ Moved(p1, arg.i + arg.size - 1)
MemchrLoop == BlockAt(arg.i) /\ Counted /\ Clear(arg.i, p1 - 1, arg.c)
MemchrRevLoop ==
  /\ BlockAt(arg.i) /\ left <= arg.size /\ p1 = arg.i + left - 1
  /\ Clear(p1 + 1, arg.i + arg.size - 1, arg.c)
MemcmpLoop ==
  BlockAt(arg.i) /\ BlockAt(arg.j) /\ Counted /\ Abreast /\ Same(p1 - arg.i, FALSE)
StrlenLoop == StringAt(arg.i, MemSize) /\ InString(arg.i, p1)
StrnlenLoop ==
  /\ arg.i \in Addrs /\ StringOrBlockAt(arg.i) /\ p1 \in arg.i .. arg.i + arg.size
  /\ Clear(arg.i, p1 - 1, 0)
StrchrLoop ==
  StringAt(arg.i, MemSize) /\ InString(arg.i, p1) /\ Clear(arg.i, p1 - 1, arg.c)
StrchrRevLoop ==
  /\ StringAt(arg.i, MemSize) /\ InString(arg.i, p1)
  /\ \/ p2 = Null /\ Clear(arg.i, p1 - 1, arg.c)
     \/ p2 \in arg.i .. p1 - 1 /\ before[p2] = arg.c /\ Clear(p2 + 1, p1 - 1, arg.c)
StrcmpLoop ==
  /\ StringAt(arg.i, MemSize) /\ StringAt(arg.j, MemSize)
  /\ p1 \in arg.i .. MemSize /\ p2 <= MemSize /\ Abreast /\ Same(p1 - arg.i, TRUE)
StrncmpLoop ==
  /\ arg.i \in Addrs /\ arg.j \in Addrs /\ StringOrBlockAt(arg.i) /\ StringOrBlockAt(arg.j)
  /\ Counted /\ Abreast /\ Same(p1 - arg.i, TRUE)
StrlcpyLoop ==
  /\ BlockAt(arg.i) /\ Counted /\ Abreast /\ (left = 0 => arg.size = 0)
  /\ (arg.i + arg.size <= arg.j /\ StringAt(arg.j, MemSize)) \/ StringAt(arg.j, arg.i - 1)
  /\ Clear(arg.j, p2 - 1, 0)
  /\ Moved(arg.i, p1 - 1)

Loops ==
  /\ pc = "back" => fn = "memmove" /\ BackLoop
  /\ In("memset") => MemsetLoop
  /\ In("memcpy") \/ In("memmove") => CopyLoop
  /\ In("memchr") => MemchrLoop
  /\ In("memchr_rev") => MemchrRevLoop
  /\ In("memcmp") => MemcmpLoop
  /\ In("strlen") => StrlenLoop
  /\ In("strnlen") => StrnlenLoop
  /\ In("strchr") => StrchrLoop
  /\ In("strchr_rev") => StrchrRevLoop
  /\ In("strcmp") => StrcmpLoop
  /\ In("strncmp") => StrncmpLoop
  /\ In("strlcpy") => StrlcpyLoop

StringInv ==
  /\ StringTypes /\ StringsInside /\ Loops /\ StringsExact
  /\ pc = "loop" => fn # "none"
  /\ pc \in {"loop", "back"} /\ fn \notin Writers => mem = before
  /\ pc = "idle" => touched = {}


(* What a step that stays in a function keeps. *)
LEMMA TurnTypes ==
  ASSUME StringTypes, UNCHANGED <<fn, arg, before>>, mem' \in [Addrs -> Bytes],
         pc' \in {"idle", "loop", "back", "done"}, p1' \in Int, p2' \in Int, left' \in Nat
  PROVE  StringTypes'
BY DEF StringTypes

LEMMA FunctionReturns ==
  ASSUME StringTypes', pc' = "done", StringsInside', Meant', fn' \notin Writers => mem' = before'
  PROVE  StringInv'
<1>1. Loops' BY DEF Loops, In
<1> QED BY <1>1 DEF StringInv, StringsExact

LEMMA FunctionGoesOn ==
  ASSUME StringTypes', pc' \in {"loop", "back"}, fn' # "none", StringsInside', Loops',
         fn' \notin Writers => mem' = before'
  PROVE  StringInv'
BY DEF StringInv, StringsExact

(* A byte in a block or a string lies in the memory. *)
LEMMA PutByte ==
  ASSUME mem \in [Addrs -> Bytes], NEW a \in Addrs, NEW c \in Bytes, NEW as, Put(a, c, as)
  PROVE  /\ mem' \in [Addrs -> Bytes]
         /\ \A k \in Addrs : mem'[k] = IF k = a THEN c ELSE mem[k]
BY DEF Put

LEMMA MemsetTurn ==
  ASSUME StringInv, Memset
  PROVE  StringInv'
<1> USE StringConstants
<1>0. pc = "loop" /\ fn = "memset" /\ StringTypes /\ MemsetLoop
  BY DEF StringInv, Loops, Memset, In
<1>1. CASE left = 0
  <2>1. pc' = "done" /\ UNCHANGED <<mem, p1, p2, left, fn, arg, before>> /\ ret' = arg.i /\ touched' = {}
    BY <1>1 DEF Memset, Return, Look
  <2>2. StringTypes' BY <2>1, <1>0, TurnTypes DEF StringTypes
  <2>3. Meant'
    BY <2>1, <1>0, <1>1 DEF Meant, InBlock, MemsetLoop, Counted, StringTypes
  <2>4. StringsInside' BY <2>1 DEF StringsInside
  <2> QED BY <2>1, <2>2, <2>3, <2>4, <1>0, FunctionReturns DEF Writers
<1>2. CASE left # 0
  <2>1. /\ UNCHANGED <<pc, p2, fn, arg, before>> /\ touched' = {p1} /\ Put(p1, arg.c, {p1})
        /\ p1' = p1 + 1 /\ left' = left - 1
    BY <1>2 DEF Memset, Go, Put
  <2>2. p1 \in Addrs /\ p1 \in arg.i .. arg.i + arg.size - 1
    BY <1>0, <1>2 DEF MemsetLoop, Counted, BlockAt, Block, StringTypes, Addrs
  <2>3. /\ mem' \in [Addrs -> Bytes]
        /\ \A k \in Addrs : mem'[k] = IF k = p1 THEN arg.c ELSE mem[k]
    BY <2>1, <2>2, <1>0, PutByte DEF StringTypes
  <2>4. StringTypes' BY <2>1, <2>3, <1>0, <1>2, TurnTypes DEF StringTypes
  <2>5. MemsetLoop'
    <3>1. BlockAt(arg.i)' /\ Counted'
      BY <2>1, <2>2, <1>0 DEF MemsetLoop, Counted, BlockAt, Block, StringTypes
    <3>2. ASSUME NEW k \in Addrs
          PROVE  mem'[k] = IF k \in arg.i .. p1 THEN arg.c ELSE before[k]
      BY <2>2, <2>3, <1>0 DEF MemsetLoop, StringTypes, Addrs
    <3> QED BY <3>1, <3>2, <2>1, <1>0 DEF MemsetLoop, StringTypes
  <2>6. Loops' BY <2>1, <2>5, <1>0 DEF Loops, In
  <2>7. StringsInside' BY <2>1, <2>2, <1>0 DEF StringsInside, Given, InBlock
  <2> QED BY <2>1, <2>4, <2>6, <2>7, <1>0, FunctionGoesOn DEF Writers
<1> QED BY <1>1, <1>2

LEMMA MemcpyTurn ==
  ASSUME StringInv, Memcpy
  PROVE  StringInv'
<1> USE StringConstants
<1>0. pc = "loop" /\ fn \in {"memcpy", "memmove"} /\ StringTypes /\ CopyLoop
  BY DEF StringInv, Loops, Memcpy, In
<1>1. CASE left = 0
  <2>1. /\ pc' = "done" /\ UNCHANGED <<mem, p1, p2, left, fn, arg, before>> /\ touched' = {}
        /\ ret' = IF fn = "memcpy" THEN p1 ELSE arg.i
    BY <1>1 DEF Memcpy, Return, Look
  <2>2. StringTypes' BY <2>1, <1>0, TurnTypes DEF StringTypes
  <2>3. p1 = arg.i + arg.size BY <1>0, <1>1 DEF CopyLoop, Counted, StringTypes
  <2>4. Meant'
    <3>1. /\ ret' = IF fn = "memcpy" THEN arg.i + arg.size ELSE arg.i
          /\ \A k \in Addrs : mem'[k] = IF k \in arg.i .. arg.i + arg.size - 1
                                       THEN before[arg.j + (k - arg.i)] ELSE before[k]
      BY <2>1, <2>3, <1>0 DEF CopyLoop, Moved, StringTypes
    <3>2. CASE fn = "memcpy" BY <3>1, <3>2, <2>1 DEF Meant, InBlock
    <3>3. CASE fn = "memmove" BY <3>1, <3>3, <2>1 DEF Meant, InBlock
    <3> QED BY <3>2, <3>3, <1>0
  <2>5. StringsInside' BY <2>1 DEF StringsInside
  <2> QED BY <2>1, <2>2, <2>4, <2>5, <1>0, FunctionReturns DEF Writers
<1>2. CASE left # 0
  <2>1. /\ UNCHANGED <<pc, fn, arg, before>> /\ touched' = {p1, p2} /\ Put(p1, mem[p2], {p1, p2})
        /\ p1' = p1 + 1 /\ p2' = p2 + 1 /\ left' = left - 1
    BY <1>2 DEF Memcpy, Go, Put
  <2>2. /\ p1 \in Addrs /\ p1 \in arg.i .. arg.i + arg.size - 1
        /\ p2 \in Addrs /\ p2 \in arg.j .. arg.j + arg.size - 1 /\ p2 = arg.j + (p1 - arg.i)
    <3>1. /\ p1 \in Int /\ arg.i \in Nat /\ arg.j \in Nat /\ arg.size \in Nat
          /\ arg.i <= p1 /\ p1 < arg.i + arg.size /\ p2 = arg.j + (p1 - arg.i)
      BY <1>0, <1>2 DEF CopyLoop, Counted, Abreast, StringTypes
    <3>2. /\ 1 <= arg.i /\ arg.i + arg.size - 1 <= MemSize
          /\ 1 <= arg.j /\ arg.j + arg.size - 1 <= MemSize
      BY <1>0 DEF CopyLoop, BlockAt, Block, Addrs
    <3> QED BY <3>1, <3>2 DEF Addrs
  <2>3. mem[p2] = before[p2]
    BY <2>2, <1>0 DEF CopyLoop, Moved, StringTypes
  <2>4. /\ mem' \in [Addrs -> Bytes]
        /\ \A k \in Addrs : mem'[k] = IF k = p1 THEN before[p2] ELSE mem[k]
    BY <2>1, <2>2, <2>3, <1>0, PutByte DEF StringTypes
  <2>5. StringTypes' BY <2>1, <2>4, <1>0, <1>2, TurnTypes DEF StringTypes
  <2>6. CopyLoop'
    <3>1. BlockAt(arg.i)' /\ BlockAt(arg.j)' /\ Counted' /\ Abreast'
      BY <2>1, <2>2, <1>0 DEF CopyLoop, Counted, Abreast, BlockAt, Block, StringTypes
    <3>2. ASSUME NEW k \in Addrs
          PROVE  mem'[k] = IF k \in arg.i .. p1 THEN before[arg.j + (k - arg.i)] ELSE before[k]
      <4>1. CASE k = p1 BY <4>1, <2>2, <2>4, <1>0 DEF StringTypes
      <4>2. CASE k # p1
        <5>1. k \in arg.i .. p1 <=> k \in arg.i .. p1 - 1 BY <4>2, <1>0 DEF StringTypes, Addrs
        <5> QED BY <5>1, <4>2, <2>4, <1>0 DEF CopyLoop, Moved
      <4> QED BY <4>1, <4>2
    <3> QED BY <3>1, <3>2, <2>1, <1>0 DEF CopyLoop, Moved, StringTypes
  <2>7. Loops' BY <2>1, <2>6, <1>0 DEF Loops, In
  <2>8. StringsInside' BY <2>1, <2>2, <1>0 DEF StringsInside, Given, InBlock
  <2> QED BY <2>1, <2>5, <2>7, <2>8, <1>0, FunctionGoesOn DEF Writers
<1> QED BY <1>1, <1>2

LEMMA MemmoveBackTurn ==
  ASSUME StringInv, MemmoveBack
  PROVE  StringInv'
<1> USE StringConstants
<1>0. pc = "back" /\ fn = "memmove" /\ StringTypes /\ BackLoop
  BY DEF StringInv, Loops, MemmoveBack
<1>1. CASE p1 = arg.i
  <2>1. /\ pc' = "done" /\ UNCHANGED <<mem, p1, p2, left, fn, arg, before>> /\ touched' = {}
        /\ ret' = arg.i
    BY <1>1 DEF MemmoveBack, Return, Look
  <2>2. StringTypes' BY <2>1, <1>0, TurnTypes DEF StringTypes
  <2>4. Meant'
    BY <2>1, <1>0, <1>1 DEF Meant, InBlock, BackLoop, Moved, StringTypes
  <2>5. StringsInside' BY <2>1 DEF StringsInside
  <2> QED BY <2>1, <2>2, <2>4, <2>5, <1>0, FunctionReturns DEF Writers
<1>2. CASE p1 # arg.i
  <2>1. /\ UNCHANGED <<pc, left, fn, arg, before>> /\ touched' = {p1 - 1, p2 - 1}
        /\ Put(p1 - 1, mem[p2 - 1], {p1 - 1, p2 - 1})
        /\ p1' = p1 - 1 /\ p2' = p2 - 1
    BY <1>2 DEF MemmoveBack, Go, Put
  <2>2. /\ p1 - 1 \in Addrs /\ p1 - 1 \in arg.i .. arg.i + arg.size - 1
        /\ p2 - 1 \in Addrs /\ p2 - 1 \in arg.j .. arg.j + arg.size - 1
        /\ p2 - 1 = arg.j + ((p1 - 1) - arg.i)
    <3>1. /\ p1 \in Int /\ arg.i \in Nat /\ arg.j \in Nat /\ arg.size \in Nat /\ MemSize \in Nat
          /\ arg.i <= p1 /\ p1 <= arg.i + arg.size /\ p1 # arg.i /\ p2 = arg.j + (p1 - arg.i)
          /\ 1 <= arg.i /\ arg.i + arg.size - 1 <= MemSize
          /\ 1 <= arg.j /\ arg.j + arg.size - 1 <= MemSize
      BY <1>0, <1>2 DEF BackLoop, Abreast, BlockAt, Block, StringTypes, Addrs
    <3> QED BY <3>1 DEF Addrs
  <2>3. mem[p2 - 1] = before[p2 - 1]
    BY <2>2, <1>0 DEF BackLoop, Moved, StringTypes
  <2>4. /\ mem' \in [Addrs -> Bytes]
        /\ \A k \in Addrs : mem'[k] = IF k = p1 - 1 THEN before[p2 - 1] ELSE mem[k]
    BY <2>1, <2>2, <2>3, <1>0, PutByte DEF StringTypes
  <2>5. StringTypes' BY <2>1, <2>4, <1>0, TurnTypes DEF StringTypes
  <2>6. BackLoop'
    <3>1. BlockAt(arg.i)' /\ BlockAt(arg.j)' /\ p1' \in arg.i .. arg.i + arg.size /\ Abreast'
      BY <2>1, <2>2, <1>0 DEF BackLoop, Abreast, BlockAt, Block, StringTypes
    <3>2. ASSUME NEW k \in Addrs
          PROVE  mem'[k] = IF k \in p1 - 1 .. arg.i + arg.size - 1
                           THEN before[arg.j + (k - arg.i)] ELSE before[k]
      <4>1. CASE k = p1 - 1 BY <4>1, <2>2, <2>4, <1>0 DEF StringTypes
      <4>2. CASE k # p1 - 1
        <5>1. k \in p1 - 1 .. arg.i + arg.size - 1 <=> k \in p1 .. arg.i + arg.size - 1
          BY <4>2, <1>0 DEF StringTypes, Addrs
        <5> QED BY <5>1, <4>2, <2>4, <1>0 DEF BackLoop, Moved
      <4> QED BY <4>1, <4>2
    <3> QED BY <3>1, <3>2, <2>1, <1>0 DEF BackLoop, Moved, StringTypes
  <2>7. Loops' BY <2>1, <2>6, <1>0 DEF Loops, In
  <2>8. StringsInside' BY <2>1, <2>2, <1>0 DEF StringsInside, Given, InBlock
  <2> QED BY <2>1, <2>5, <2>7, <2>8, <1>0, FunctionGoesOn DEF Writers
<1> QED BY <1>1, <1>2

LEMMA MemchrTurn ==
  ASSUME StringInv, Memchr, fn = "memchr"
  PROVE  StringInv'
<1> USE StringConstants
<1>0. pc = "loop" /\ StringTypes /\ MemchrLoop /\ mem = before
  BY DEF StringInv, Loops, Memchr, In, Writers
<1>1. UNCHANGED <<mem, fn, arg, before>> /\ touched' = IF left = 0 THEN {} ELSE {p1}
  BY DEF Memchr, Return, Go, Look
<1>2. left # 0 => p1 \in Addrs /\ p1 \in arg.i .. arg.i + arg.size - 1
  BY <1>0 DEF MemchrLoop, Counted, BlockAt, Block, StringTypes, Addrs
<1>3. StringsInside' BY <1>1, <1>2 DEF StringsInside, Given, InBlock
<1>4. CASE left = 0 \/ mem[p1] = arg.c
  <2>1. pc' = "done" /\ UNCHANGED <<p1, p2, left>> /\ ret' = IF left = 0 THEN Null ELSE p1
    BY <1>4 DEF Memchr, Return
  <2>2. StringTypes' BY <2>1, <1>1, <1>0, TurnTypes DEF StringTypes
  <2>3. IsFirst(ret', InBytes)
    <3>1. CASE left = 0
      <4>1. InBytes = {}
        BY <3>1, <1>0 DEF InBytes, InBlock, MemchrLoop, Counted, Clear, StringTypes, Addrs
      <4> QED BY <4>1, <3>1, <2>1 DEF IsFirst
    <3>2. CASE left # 0
      <4>1. p1 \in InBytes BY <3>2, <1>0, <1>2, <1>4 DEF InBytes, InBlock
      <4>2. ASSUME NEW x \in InBytes PROVE p1 <= x
        BY <1>0 DEF InBytes, InBlock, MemchrLoop, Clear, StringTypes, Addrs
      <4> QED BY <4>1, <4>2, <3>2, <2>1 DEF IsFirst
    <3> QED BY <3>1, <3>2
  <2>4. Meant' BY <2>3, <1>1 DEF Meant, IsFirst, InBytes, InBlock
  <2> QED BY <2>1, <2>2, <2>4, <1>0, <1>1, <1>3, FunctionReturns
<1>5. CASE left # 0 /\ mem[p1] # arg.c
  <2>1. pc' = pc /\ p1' = p1 + 1 /\ p2' = p2 /\ left' = left - 1
    BY <1>5 DEF Memchr, Go
  <2>2. StringTypes' BY <2>1, <1>0, <1>1, <1>5, TurnTypes DEF StringTypes
  <2>3. MemchrLoop'
    BY <2>1, <1>0, <1>1, <1>2, <1>5
    DEF MemchrLoop, Counted, BlockAt, Block, Clear, StringTypes
  <2>4. Loops' BY <2>1, <2>3, <1>0, <1>1 DEF Loops, In
  <2> QED BY <2>1, <2>2, <2>4, <1>0, <1>1, <1>3, FunctionGoesOn
<1> QED BY <1>4, <1>5

LEMMA MemchrRevTurn ==
  ASSUME StringInv, Memchr, fn = "memchr_rev"
  PROVE  StringInv'
<1> USE StringConstants
<1>0. pc = "loop" /\ StringTypes /\ MemchrRevLoop /\ mem = before
  BY DEF StringInv, Loops, Memchr, In, Writers
<1>1. UNCHANGED <<mem, fn, arg, before>> /\ touched' = IF left = 0 THEN {} ELSE {p1}
  BY DEF Memchr, Return, Go, Look
<1>2. left # 0 => p1 \in Addrs /\ p1 \in arg.i .. arg.i + arg.size - 1
  BY <1>0 DEF MemchrRevLoop, BlockAt, Block, StringTypes, Addrs
<1>3. StringsInside' BY <1>1, <1>2 DEF StringsInside, Given, InBlock
<1>4. CASE left = 0 \/ mem[p1] = arg.c
  <2>1. pc' = "done" /\ UNCHANGED <<p1, p2, left>> /\ ret' = IF left = 0 THEN Null ELSE p1
    BY <1>4 DEF Memchr, Return
  <2>2. StringTypes' BY <2>1, <1>1, <1>0, TurnTypes DEF StringTypes
  <2>3. IsLast(ret', InBytes)
    <3>1. CASE left = 0
      <4>1. InBytes = {}
        BY <3>1, <1>0 DEF InBytes, InBlock, MemchrRevLoop, Clear, StringTypes, Addrs
      <4> QED BY <4>1, <3>1, <2>1 DEF IsLast
    <3>2. CASE left # 0
      <4>1. p1 \in InBytes BY <3>2, <1>0, <1>2, <1>4 DEF InBytes, InBlock
      <4>2. ASSUME NEW x \in InBytes PROVE x <= p1
        BY <1>0 DEF InBytes, InBlock, MemchrRevLoop, Clear, StringTypes, Addrs
      <4> QED BY <4>1, <4>2, <3>2, <2>1 DEF IsLast
    <3> QED BY <3>1, <3>2
  <2>4. Meant' BY <2>3, <1>1 DEF Meant, IsLast, InBytes, InBlock
  <2> QED BY <2>1, <2>2, <2>4, <1>0, <1>1, <1>3, FunctionReturns
<1>5. CASE left # 0 /\ mem[p1] # arg.c
  <2>1. pc' = pc /\ p1' = p1 - 1 /\ p2' = p2 /\ left' = left - 1
    BY <1>5 DEF Memchr, Go
  <2>2. StringTypes' BY <2>1, <1>0, <1>1, <1>5, TurnTypes DEF StringTypes
  <2>3. MemchrRevLoop'
    BY <2>1, <1>0, <1>1, <1>2, <1>5
    DEF MemchrRevLoop, BlockAt, Block, Clear, StringTypes
  <2>4. Loops' BY <2>1, <2>3, <1>0, <1>1 DEF Loops, In
  <2> QED BY <2>1, <2>2, <2>4, <1>0, <1>1, <1>3, FunctionGoesOn
<1> QED BY <1>4, <1>5

LEMMA MemcmpTurn ==
  ASSUME StringInv, Memcmp
  PROVE  StringInv'
<1> USE StringConstants
<1>0. pc = "loop" /\ fn = "memcmp" /\ StringTypes /\ MemcmpLoop /\ mem = before
  BY DEF StringInv, Loops, Memcmp, In, Writers
<1>1. UNCHANGED <<mem, fn, arg, before>> /\ touched' = IF left = 0 THEN {} ELSE {p1, p2}
  BY DEF Memcmp, Return, Go, Look
<1>2. /\ left # 0 => /\ p1 \in Addrs /\ p1 \in arg.i .. arg.i + arg.size - 1
                     /\ p2 \in Addrs /\ p2 \in arg.j .. arg.j + arg.size - 1
      /\ p1 = arg.i + (p1 - arg.i) /\ p2 = arg.j + (p1 - arg.i) /\ p1 - arg.i \in Nat
  <2>1. /\ p1 \in Int /\ arg.i \in Nat /\ arg.j \in Nat /\ arg.size \in Nat
        /\ arg.i <= p1 /\ p1 <= arg.i + arg.size /\ left = arg.i + arg.size - p1
        /\ p2 = arg.j + (p1 - arg.i)
    BY <1>0 DEF MemcmpLoop, Counted, Abreast, StringTypes
  <2>2. /\ 1 <= arg.i /\ arg.i + arg.size - 1 <= MemSize
        /\ 1 <= arg.j /\ arg.j + arg.size - 1 <= MemSize
    BY <1>0 DEF MemcmpLoop, BlockAt, Block, Addrs
  <2> QED BY <2>1, <2>2 DEF Addrs
<1>3. StringsInside' BY <1>0, <1>1, <1>2 DEF StringsInside, Given, InBlock
<1>4. CASE left = 0 \/ mem[p1] # mem[p2]
  <2>1. /\ pc' = "done" /\ UNCHANGED <<p1, p2, left>>
        /\ ret' = IF left = 0 THEN 0 ELSE before[p1] - before[p2]
    BY <1>0, <1>4 DEF Memcmp, Return
  <2>2. StringTypes' BY <2>1, <1>1, <1>0, TurnTypes DEF StringTypes
  <2>3. Compared(arg.size, FALSE)'
    <3>1. CASE left = 0
      BY <3>1, <2>1, <1>0, <1>1 DEF Compared, MemcmpLoop, Counted, Same, StringTypes
    <3>2. CASE left # 0
      <4>1. before[p1] - before[p2] # 0
        <5>1. before[p1] \in Nat /\ before[p2] \in Nat BY <3>2, <1>0, <1>2 DEF StringTypes
        <5>2. before[p1] # before[p2] BY <3>2, <1>0, <1>4
        <5> QED BY <5>1, <5>2
      <4>2. p1 - arg.i \in 0 .. arg.size - 1 BY <3>2, <1>2, <1>0 DEF StringTypes
      <4>3. Same(p1 - arg.i, FALSE)' BY <1>0, <1>1, <2>1 DEF MemcmpLoop, Same
      <4> QED BY <4>1, <4>2, <4>3, <3>2, <2>1, <1>1, <1>2 DEF Compared
    <3> QED BY <3>1, <3>2
  <2>4. Meant' BY <2>3, <1>0, <1>1 DEF Meant
  <2> QED BY <2>1, <2>2, <2>4, <1>0, <1>1, <1>3, FunctionReturns
<1>5. CASE left # 0 /\ mem[p1] = mem[p2]
  <2>1. pc' = pc /\ p1' = p1 + 1 /\ p2' = p2 + 1 /\ left' = left - 1
    BY <1>5 DEF Memcmp, Go
  <2>2. StringTypes' BY <2>1, <1>0, <1>1, <1>5, TurnTypes DEF StringTypes
  <2>3. MemcmpLoop'
    <3>1. (BlockAt(arg.i) /\ BlockAt(arg.j) /\ Counted /\ Abreast)'
      BY <2>1, <1>0, <1>1, <1>2, <1>5
      DEF MemcmpLoop, Counted, Abreast, BlockAt, Block, StringTypes
    <3>2. Same(p1 - arg.i, FALSE)'
      BY <2>1, <1>0, <1>1, <1>2, <1>5 DEF MemcmpLoop, Same, StringTypes
    <3> QED BY <3>1, <3>2 DEF MemcmpLoop
  <2>4. Loops' BY <2>1, <2>3, <1>0, <1>1 DEF Loops, In
  <2> QED BY <2>1, <2>2, <2>4, <1>0, <1>1, <1>3, FunctionGoesOn
<1> QED BY <1>4, <1>5

(* A walk over a string has not gone past its terminator. *)
LEMMA StringGoesOn ==
  ASSUME StringTypes, NEW a \in Nat, NEW p \in Int, StringAt(a, MemSize), p >= a, Clear(a, p - 1, 0)
  PROVE  p \in Addrs /\ InString(a, p)
<1> USE StringConstants
<1>1. PICK x \in a .. MemSize : before[x] = 0 BY DEF StringAt
<1>2. p <= x BY <1>1 DEF Clear, StringTypes
<1>3. p \in Addrs /\ p \in a .. MemSize BY <1>1, <1>2 DEF StringAt, Addrs
<1> QED BY <1>3 DEF InString, Clear

LEMMA StrlenTurn ==
  ASSUME StringInv, Strlen
  PROVE  StringInv'
<1> USE StringConstants
<1>0. pc = "loop" /\ fn = "strlen" /\ StringTypes /\ StrlenLoop /\ mem = before
  BY DEF StringInv, Loops, Strlen, In, Writers
<1>1. UNCHANGED <<mem, fn, arg, before>> /\ touched' = {p1}
  BY DEF Strlen, Return, Go, Look
<1>2. StringsInside' BY <1>0, <1>1 DEF StringsInside, Given, StrlenLoop, InString
<1>3. CASE mem[p1] = 0
  <2>1. pc' = "done" /\ UNCHANGED <<p1, p2, left>> /\ ret' = p1 - arg.i
    BY <1>3 DEF Strlen, Return
  <2>2. StringTypes' BY <2>1, <1>1, <1>0, TurnTypes DEF StringTypes
  <2>3. arg.i + (p1 - arg.i) = p1 BY <1>0 DEF StringTypes
  <2>4. Meant' BY <2>1, <2>3, <1>0, <1>1, <1>3 DEF Meant, StrlenLoop, InString
  <2> QED BY <2>1, <2>2, <2>4, <1>0, <1>1, <1>2, FunctionReturns
<1>4. CASE mem[p1] # 0
  <2>1. pc' = pc /\ p1' = p1 + 1 /\ p2' = p2 /\ left' = left
    BY <1>4 DEF Strlen, Go
  <2>2. StringTypes' BY <2>1, <1>0, <1>1, TurnTypes DEF StringTypes
  <2>3. p1 + 1 \in Int /\ arg.i \in Nat /\ p1 + 1 >= arg.i /\ Clear(arg.i, (p1 + 1) - 1, 0)
    BY <1>0, <1>4 DEF StrlenLoop, InString, Clear, StringTypes
  <2>4. InString(arg.i, p1 + 1) BY <2>3, <1>0, StringGoesOn DEF StrlenLoop
  <2>5. StrlenLoop' BY <2>4, <2>1, <1>0, <1>1 DEF StrlenLoop, StringAt, InString
  <2>6. Loops' BY <2>1, <2>5, <1>0, <1>1 DEF Loops, In
  <2> QED BY <2>1, <2>2, <2>6, <1>0, <1>1, <1>2, FunctionGoesOn
<1> QED BY <1>3, <1>4

(* The same within a size: what is handed over is a string or a block. *)
LEMMA StringOrBlockGoesOn ==
  ASSUME StringTypes, NEW a \in Addrs, NEW p \in Int, StringOrBlockAt(a), p >= a,
         p < a + arg.size, Clear(a, p - 1, 0)
  PROVE  p \in Addrs /\ InString(a, p) /\ InBlock(a, p)
<1> USE StringConstants
<1>1. InBlock(a, p) BY DEF InBlock, StringTypes, Addrs
<1>2. CASE StringAt(a, MemSize) BY <1>1, <1>2, StringGoesOn DEF Addrs
<1>3. CASE BlockAt(a)
  <2>1. p \in Addrs /\ p \in a .. MemSize BY <1>3 DEF BlockAt, Block, StringTypes, Addrs
  <2> QED BY <1>1, <2>1 DEF InString, Clear
<1> QED BY <1>2, <1>3 DEF StringOrBlockAt

LEMMA StrnlenTurn ==
  ASSUME StringInv, Strnlen
  PROVE  StringInv'
<1> USE StringConstants
<1>0. pc = "loop" /\ fn = "strnlen" /\ StringTypes /\ StrnlenLoop /\ mem = before
  BY DEF StringInv, Loops, Strnlen, In, Writers
<1> DEFINE full == p1 - arg.i = arg.size
<1>1. UNCHANGED <<mem, fn, arg, before>> /\ touched' = IF full THEN {} ELSE {p1}
  BY DEF Strnlen, Return, Go, Look
<1>2. p1 \in arg.i .. arg.i + arg.size /\ arg.i + (p1 - arg.i) = p1
  BY <1>0 DEF StrnlenLoop, StringTypes
<1>3. ~full => p1 < arg.i + arg.size BY <1>0, <1>2 DEF StringTypes
<1>4. ~full => InBlock(arg.i, p1) /\ InString(arg.i, p1)
  BY <1>0, <1>2, <1>3, StringOrBlockGoesOn DEF StrnlenLoop, StringTypes
<1>5. StringsInside' BY <1>0, <1>1, <1>4 DEF StringsInside, Given, InString, InBlock
<1>6. CASE full \/ mem[p1] = 0
  <2>1. pc' = "done" /\ UNCHANGED <<p1, p2, left>> /\ ret' = p1 - arg.i
    BY <1>6 DEF Strnlen, Return
  <2>2. StringTypes' BY <2>1, <1>1, <1>0, TurnTypes DEF StringTypes
  <2>3. p1 - arg.i \in 0 .. arg.size BY <1>0, <1>2 DEF StringTypes
  <2>4. Meant'
    <3>1. ret' = arg.size \/ before[arg.i + ret'] = 0 BY <2>1, <1>0, <1>2, <1>6
    <3>2. \A x \in arg.i .. arg.i + ret' - 1 : before[x] # 0
      BY <2>1, <1>0, <1>2 DEF StrnlenLoop, Clear, StringTypes
    <3> QED BY <3>1, <3>2, <2>1, <2>3, <1>0, <1>1 DEF Meant
  <2> QED BY <2>1, <2>2, <2>4, <1>0, <1>1, <1>5, FunctionReturns
<1>7. CASE ~full /\ mem[p1] # 0
  <2>1. pc' = pc /\ p1' = p1 + 1 /\ p2' = p2 /\ left' = left
    BY <1>7 DEF Strnlen, Go
  <2>2. StringTypes' BY <2>1, <1>0, <1>1, TurnTypes DEF StringTypes
  <2>3. p1 + 1 \in arg.i .. arg.i + arg.size /\ Clear(arg.i, (p1 + 1) - 1, 0)
    BY <1>0, <1>2, <1>3, <1>7 DEF StrnlenLoop, Clear, StringTypes
  <2>4. StrnlenLoop'
    BY <2>1, <2>3, <1>0, <1>1 DEF StrnlenLoop, StringOrBlockAt, StringAt, BlockAt, Block, Clear
  <2>5. Loops' BY <2>1, <2>4, <1>0, <1>1 DEF Loops, In
  <2> QED BY <2>1, <2>2, <2>5, <1>0, <1>1, <1>5, FunctionGoesOn
<1> QED BY <1>6, <1>7

LEMMA StrchrTurn ==
  ASSUME StringInv, Strchr
  PROVE  StringInv'
<1> USE StringConstants
<1>0. pc = "loop" /\ fn = "strchr" /\ StringTypes /\ StrchrLoop /\ mem = before
  BY DEF StringInv, Loops, Strchr, In, Writers
<1>1. UNCHANGED <<mem, fn, arg, before>> /\ touched' = {p1}
  BY DEF Strchr, Return, Go, Look
<1>2. StringsInside' BY <1>0, <1>1 DEF StringsInside, Given, StrchrLoop, InString
<1>3. p1 \in Addrs /\ arg.i \in Addrs
  BY <1>0 DEF StrchrLoop, InString, StringAt, StringTypes, Addrs
<1>4. CASE mem[p1] = arg.c \/ mem[p1] = 0
  <2>1. /\ pc' = "done" /\ UNCHANGED <<p1, p2, left>>
        /\ ret' = IF mem[p1] = arg.c THEN p1 ELSE Null
    BY <1>4 DEF Strchr, Return
  <2>2. StringTypes' BY <2>1, <1>1, <1>0, TurnTypes DEF StringTypes
  <2>3. ASSUME NEW x \in InChars PROVE x >= p1
    BY <1>0, <1>3 DEF InChars, InString, StrchrLoop, Clear, StringTypes, Addrs
  <2>4. IsFirst(ret', InChars)
    <3>1. CASE mem[p1] = arg.c
      <4>1. p1 \in InChars BY <3>1, <1>0, <1>3 DEF InChars, StrchrLoop
      <4> QED BY <4>1, <3>1, <2>1, <2>3, <1>3 DEF IsFirst, Addrs
    <3>2. CASE mem[p1] # arg.c
      <4>1. ASSUME NEW x \in InChars PROVE FALSE
        <5>1. x \in Addrs /\ x # p1 /\ InString(arg.i, x) BY <3>2, <1>0 DEF InChars
        <5>2. p1 \in arg.i .. x - 1
          BY <5>1, <2>3, <1>0, <1>3 DEF StrchrLoop, InString, Addrs
        <5> QED BY <5>1, <5>2, <3>2, <1>0, <1>4 DEF InString
      <4> QED BY <4>1, <3>2, <2>1 DEF IsFirst
    <3> QED BY <3>1, <3>2
  <2>5. Meant' BY <2>4, <1>0, <1>1 DEF Meant, IsFirst, InChars, InString
  <2> QED BY <2>1, <2>2, <2>5, <1>0, <1>1, <1>2, FunctionReturns
<1>5. CASE mem[p1] # arg.c /\ mem[p1] # 0
  <2>1. pc' = pc /\ p1' = p1 + 1 /\ p2' = p2 /\ left' = left
    BY <1>5 DEF Strchr, Go
  <2>2. StringTypes' BY <2>1, <1>0, <1>1, TurnTypes DEF StringTypes
  <2>3. /\ p1 + 1 \in Int /\ arg.i \in Nat /\ p1 + 1 >= arg.i /\ Clear(arg.i, (p1 + 1) - 1, 0)
        /\ Clear(arg.i, (p1 + 1) - 1, arg.c)
    BY <1>0, <1>5 DEF StrchrLoop, InString, Clear, StringTypes
  <2>4. InString(arg.i, p1 + 1) BY <2>3, <1>0, StringGoesOn DEF StrchrLoop
  <2>5. StrchrLoop' BY <2>3, <2>4, <2>1, <1>0, <1>1 DEF StrchrLoop, StringAt, InString, Clear
  <2>6. Loops' BY <2>1, <2>5, <1>0, <1>1 DEF Loops, In
  <2> QED BY <2>1, <2>2, <2>6, <1>0, <1>1, <1>2, FunctionGoesOn
<1> QED BY <1>4, <1>5

LEMMA StrchrRevTurn ==
  ASSUME StringInv, StrchrRev
  PROVE  StringInv'
<1> USE StringConstants
<1>0. pc = "loop" /\ fn = "strchr_rev" /\ StringTypes /\ StrchrRevLoop /\ mem = before
  BY DEF StringInv, Loops, StrchrRev, In, Writers
<1> DEFINE found == IF mem[p1] = arg.c THEN p1 ELSE p2
<1>1. UNCHANGED <<mem, fn, arg, before>> /\ touched' = {p1}
  BY DEF StrchrRev, Return, Go, Look
<1>2. StringsInside' BY <1>0, <1>1 DEF StringsInside, Given, StrchrRevLoop, InString
<1>3. /\ p1 \in Addrs /\ arg.i \in Addrs /\ arg.i <= p1
      /\ p2 \in Int /\ arg.c \in Bytes /\ found \in Int
  BY <1>0 DEF StrchrRevLoop, InString, StringAt, StringTypes, Addrs
<1>4. \/ found = Null /\ Clear(arg.i, p1, arg.c)
      \/ found \in arg.i .. p1 /\ before[found] = arg.c /\ Clear(found + 1, p1, arg.c)
  <2>1. CASE mem[p1] = arg.c BY <2>1, <1>0, <1>3 DEF Clear, Addrs
  <2>2. CASE mem[p1] # arg.c /\ p2 = Null /\ Clear(arg.i, p1 - 1, arg.c)
    BY <2>2, <1>0, <1>3 DEF Clear, Addrs
  <2>3. CASE /\ mem[p1] # arg.c /\ p2 \in arg.i .. p1 - 1 /\ before[p2] = arg.c
             /\ Clear(p2 + 1, p1 - 1, arg.c)
    BY <2>3, <1>0, <1>3 DEF Clear, Addrs
  <2> QED BY <2>1, <2>2, <2>3, <1>0 DEF StrchrRevLoop
<1>5. CASE mem[p1] = 0
  <2>1. pc' = "done" /\ UNCHANGED <<p1, p2, left>> /\ ret' = found
    BY <1>5 DEF StrchrRev, Return
  <2>2. StringTypes' BY <2>1, <1>1, <1>0, TurnTypes DEF StringTypes
  <2>3. ASSUME NEW x \in InChars PROVE x \in arg.i .. p1 /\ before[x] = arg.c
    <3>1. x \in Addrs /\ InString(arg.i, x) /\ before[x] = arg.c BY DEF InChars
    <3>2. x <= p1 BY <3>1, <1>0, <1>3, <1>5 DEF InString, Addrs
    <3> QED BY <3>1, <3>2, <1>3 DEF InString, Addrs
  <2>4. ASSUME NEW x \in arg.i .. p1, before[x] = arg.c PROVE x \in InChars
    BY <2>4, <1>0, <1>3 DEF InChars, InString, StrchrRevLoop, Addrs
  <2>5. IsLast(found, InChars)
    <3>1. CASE found = Null /\ Clear(arg.i, p1, arg.c)
      BY <3>1, <2>3 DEF IsLast, Clear
    <3>2. CASE found \in arg.i .. p1 /\ before[found] = arg.c /\ Clear(found + 1, p1, arg.c)
      <4>1. found \in InChars BY <3>2, <2>4
      <4>2. ASSUME NEW x \in InChars PROVE x <= found
        BY <3>2, <2>3, <1>3 DEF Clear, Addrs
      <4> QED BY <4>1, <4>2 DEF IsLast
    <3> QED BY <3>1, <3>2, <1>4
  <2>6. Meant' BY <2>1, <2>5, <1>0, <1>1 DEF Meant, IsLast, InChars, InString
  <2> QED BY <2>1, <2>2, <2>6, <1>0, <1>1, <1>2, FunctionReturns
<1>6. CASE mem[p1] # 0
  <2>1. pc' = pc /\ p1' = p1 + 1 /\ p2' = found /\ left' = left
    BY <1>6 DEF StrchrRev, Go
  <2>2. StringTypes' BY <2>1, <1>0, <1>1, <1>3, TurnTypes DEF StringTypes
  <2>3. /\ p1 + 1 \in Int /\ arg.i \in Nat /\ p1 + 1 >= arg.i /\ Clear(arg.i, (p1 + 1) - 1, 0)
        /\ (p1 + 1) - 1 = p1
    BY <1>0, <1>6 DEF StrchrRevLoop, InString, Clear, StringTypes
  <2>4. InString(arg.i, p1 + 1) BY <2>3, <1>0, StringGoesOn DEF StrchrRevLoop
  <2>5. StrchrRevLoop'
    BY <2>3, <2>4, <2>1, <1>0, <1>1, <1>4 DEF StrchrRevLoop, StringAt, InString, Clear
  <2>6. Loops' BY <2>1, <2>5, <1>0, <1>1 DEF Loops, In
  <2> QED BY <2>1, <2>2, <2>6, <1>0, <1>1, <1>2, FunctionGoesOn
<1> QED BY <1>5, <1>6

(* Two walks that go on together: the terminator of either stops both. *)
LEMMA SameIsClear ==
  ASSUME StringTypes, NEW p \in Int, NEW q \in Int, p >= arg.i, q = arg.j + (p - arg.i),
         Same(p - arg.i, TRUE)
  PROVE  Clear(arg.i, p - 1, 0) /\ Clear(arg.j, q - 1, 0)
<1>1. ASSUME NEW x \in arg.i .. p - 1 PROVE before[x] # 0
  <2>1. x - arg.i \in 0 .. (p - arg.i) - 1 /\ arg.i + (x - arg.i) = x BY DEF StringTypes
  <2> QED BY <2>1 DEF Same
<1>2. ASSUME NEW x \in arg.j .. q - 1 PROVE before[x] # 0
  <2>1. x - arg.j \in 0 .. (p - arg.i) - 1 /\ arg.j + (x - arg.j) = x BY DEF StringTypes
  <2> QED BY <2>1 DEF Same
<1> QED BY <1>1, <1>2 DEF Clear

LEMMA SameGoesOn ==
  ASSUME StringTypes, NEW n \in Nat, Same(n, TRUE),
         before[arg.i + n] = before[arg.j + n], before[arg.i + n] # 0
  PROVE  Same(n + 1, TRUE)
BY DEF Same, StringTypes

LEMMA StrcmpTurn ==
  ASSUME StringInv, Strcmp
  PROVE  StringInv'
<1> USE StringConstants
<1>0. pc = "loop" /\ fn = "strcmp" /\ StringTypes /\ StrcmpLoop /\ mem = before
  BY DEF StringInv, Loops, Strcmp, In, Writers
<1>1. UNCHANGED <<mem, fn, arg, before>> /\ touched' = {p1, p2}
  BY DEF Strcmp, Return, Go, Look
<1> DEFINE n == p1 - arg.i
<1>2. /\ p1 = arg.i + n /\ p2 = arg.j + n /\ n \in Nat /\ n \in 0 .. MemSize - 1
      /\ p1 \in Addrs /\ p2 \in Addrs /\ arg.i \in Nat /\ arg.j \in Nat /\ p1 >= arg.i /\ p2 >= arg.j
  BY <1>0 DEF StrcmpLoop, Abreast, StringAt, StringTypes, Addrs
<1>3. InString(arg.i, p1) /\ InString(arg.j, p2)
  <2>1. p1 \in Int /\ p2 \in Int BY <1>2 DEF Addrs
  <2>2. Clear(arg.i, p1 - 1, 0) /\ Clear(arg.j, p2 - 1, 0)
    BY <2>1, <1>0, <1>2, SameIsClear DEF StrcmpLoop
  <2> QED BY <2>1, <2>2, <1>0, <1>2, StringGoesOn DEF StrcmpLoop
<1>4. StringsInside' BY <1>0, <1>1, <1>3 DEF StringsInside, Given, InString
<1>5. CASE mem[p1] # mem[p2] \/ mem[p1] = 0
  <2>1. before[p1] \in Nat /\ before[p2] \in Nat BY <1>0, <1>2 DEF StringTypes
  <2>2. pc' = "done" /\ UNCHANGED <<p1, p2, left>> /\ ret' = before[p1] - before[p2]
    <3>1. CASE mem[p1] # mem[p2] BY <3>1, <1>0 DEF Strcmp, Return
    <3>2. CASE mem[p1] = mem[p2]
      <4>1. mem[p1] = 0 BY <3>2, <1>5
      <4>2. pc' = "done" /\ UNCHANGED <<p1, p2, left>> /\ ret' = 0 BY <4>1, <3>2 DEF Strcmp, Return
      <4> QED BY <4>2, <3>2, <2>1, <1>0
    <3> QED BY <3>1, <3>2
  <2>3. StringTypes' BY <2>2, <1>1, <1>0, TurnTypes DEF StringTypes
  <2>4. Compared(MemSize, TRUE)'
    <3>1. ret' # 0 \/ before[p1] = 0 BY <2>1, <2>2, <1>0, <1>5
    <3>2. Same(n, TRUE)' BY <2>2, <1>0, <1>1 DEF StrcmpLoop, Same
    <3> QED BY <3>1, <3>2, <2>2, <1>1, <1>2 DEF Compared
  <2>5. Meant' BY <2>4, <1>0, <1>1 DEF Meant
  <2> QED BY <2>2, <2>3, <2>5, <1>0, <1>1, <1>4, FunctionReturns
<1>6. CASE mem[p1] = mem[p2] /\ mem[p1] # 0
  <2>1. pc' = pc /\ p1' = p1 + 1 /\ p2' = p2 + 1 /\ left' = left
    BY <1>6 DEF Strcmp, Go
  <2>2. StringTypes' BY <2>1, <1>0, <1>1, TurnTypes DEF StringTypes
  <2>3. /\ p1 + 1 \in Int /\ p2 + 1 \in Int /\ p1 + 1 >= arg.i /\ p2 + 1 >= arg.j
        /\ p2 + 1 = arg.j + ((p1 + 1) - arg.i) /\ (p1 + 1) - arg.i = n + 1
    BY <1>2 DEF Addrs
  <2>4. Same(n, TRUE) BY <1>0 DEF StrcmpLoop
  <2>5. Same(n + 1, TRUE) BY <2>4, <1>0, <1>2, <1>6, SameGoesOn
  <2>6. Same((p1 + 1) - arg.i, TRUE) BY <2>3, <2>5
  <2>7. Clear(arg.i, (p1 + 1) - 1, 0) /\ Clear(arg.j, (p2 + 1) - 1, 0)
    BY <2>3, <2>6, <1>0, SameIsClear
  <2>8. InString(arg.i, p1 + 1) /\ InString(arg.j, p2 + 1)
    BY <2>3, <2>7, <1>0, <1>2, StringGoesOn DEF StrcmpLoop
  <2>9. StrcmpLoop'
    BY <2>1, <2>3, <2>6, <2>8, <1>0, <1>1 DEF StrcmpLoop, StringAt, InString, Abreast, Same
  <2>10. Loops' BY <2>1, <2>9, <1>0, <1>1 DEF Loops, In
  <2> QED BY <2>1, <2>2, <2>10, <1>0, <1>1, <1>4, FunctionGoesOn
<1> QED BY <1>5, <1>6

LEMMA StrncmpTurn ==
  ASSUME StringInv, Strncmp
  PROVE  StringInv'
<1> USE StringConstants
<1>0. pc = "loop" /\ fn = "strncmp" /\ StringTypes /\ StrncmpLoop /\ mem = before
  BY DEF StringInv, Loops, Strncmp, In, Writers
<1>1. UNCHANGED <<mem, fn, arg, before>> /\ touched' = IF left = 0 THEN {} ELSE {p1, p2}
  BY DEF Strncmp, Return, Go, Look
<1> DEFINE n == p1 - arg.i
<1>2. /\ p1 = arg.i + n /\ p2 = arg.j + n /\ n \in Nat /\ left = arg.size - n
      /\ p1 \in Int /\ p2 \in Int /\ left \in Nat /\ arg.size \in Nat
      /\ arg.i \in Addrs /\ arg.j \in Addrs /\ p1 >= arg.i /\ p2 >= arg.j
  BY <1>0 DEF StrncmpLoop, Counted, Abreast, StringTypes, Addrs
<1>3. left # 0 => /\ p1 \in Addrs /\ InString(arg.i, p1) /\ InBlock(arg.i, p1)
                  /\ p2 \in Addrs /\ InString(arg.j, p2) /\ InBlock(arg.j, p2)
  <2>1. Clear(arg.i, p1 - 1, 0) /\ Clear(arg.j, p2 - 1, 0)
    BY <1>0, <1>2, SameIsClear DEF StrncmpLoop
  <2>2. left # 0 => p1 < arg.i + arg.size /\ p2 < arg.j + arg.size BY <1>2 DEF Addrs
  <2> QED BY <2>1, <2>2, <1>0, <1>2, StringOrBlockGoesOn DEF StrncmpLoop
<1>4. StringsInside' BY <1>0, <1>1, <1>3 DEF StringsInside, Given, InString, InBlock
<1>5. CASE left = 0
  <2>1. pc' = "done" /\ UNCHANGED <<p1, p2, left>> /\ ret' = 0
    BY <1>5 DEF Strncmp, Return
  <2>2. StringTypes' BY <2>1, <1>1, <1>0, TurnTypes DEF StringTypes
  <2>3. n = arg.size BY <1>2, <1>5
  <2>4. Same(arg.size, TRUE)' BY <2>3, <1>0, <1>1 DEF StrncmpLoop, Same
  <2>5. Meant' BY <2>1, <2>4, <1>0, <1>1 DEF Meant, Compared
  <2> QED BY <2>1, <2>2, <2>5, <1>0, <1>1, <1>4, FunctionReturns
<1>6. CASE left # 0 /\ (mem[p1] # mem[p2] \/ mem[p1] = 0)
  <2>1. before[p1] \in Nat /\ before[p2] \in Nat BY <1>0, <1>3, <1>6 DEF StringTypes
  <2>2. pc' = "done" /\ UNCHANGED <<p1, p2, left>> /\ ret' = before[p1] - before[p2]
    <3>1. CASE mem[p1] # mem[p2] BY <3>1, <1>0, <1>6 DEF Strncmp, Return
    <3>2. CASE mem[p1] = mem[p2]
      <4>1. mem[p1] = 0 BY <3>2, <1>6
      <4>2. pc' = "done" /\ UNCHANGED <<p1, p2, left>> /\ ret' = 0
        BY <4>1, <3>2, <1>6 DEF Strncmp, Return
      <4> QED BY <4>2, <3>2, <2>1, <1>0
    <3> QED BY <3>1, <3>2
  <2>3. StringTypes' BY <2>2, <1>1, <1>0, TurnTypes DEF StringTypes
  <2>4. Compared(arg.size, TRUE)'
    <3>1. ret' # 0 \/ before[p1] = 0 BY <2>1, <2>2, <1>0, <1>6
    <3>2. Same(n, TRUE)' BY <2>2, <1>0, <1>1 DEF StrncmpLoop, Same
    <3>3. n \in 0 .. arg.size - 1 BY <1>2, <1>6
    <3> QED BY <3>1, <3>2, <3>3, <2>2, <1>1, <1>2 DEF Compared
  <2>5. Meant' BY <2>4, <1>0, <1>1 DEF Meant
  <2> QED BY <2>2, <2>3, <2>5, <1>0, <1>1, <1>4, FunctionReturns
<1>7. CASE left # 0 /\ mem[p1] = mem[p2] /\ mem[p1] # 0
  <2>1. pc' = pc /\ p1' = p1 + 1 /\ p2' = p2 + 1 /\ left' = left - 1
    BY <1>7 DEF Strncmp, Go
  <2>2. StringTypes' BY <2>1, <1>0, <1>1, <1>7, TurnTypes DEF StringTypes
  <2>3. /\ p1 + 1 \in arg.i .. arg.i + arg.size /\ left - 1 = arg.i + arg.size - (p1 + 1)
        /\ p2 + 1 = arg.j + ((p1 + 1) - arg.i) /\ (p1 + 1) - arg.i = n + 1
    BY <1>2, <1>7 DEF Addrs
  <2>4. Same(n, TRUE) BY <1>0 DEF StrncmpLoop
  <2>5. Same(n + 1, TRUE) BY <2>4, <1>0, <1>2, <1>7, SameGoesOn
  <2>6. (Counted /\ Abreast)' BY <2>1, <2>3, <1>1 DEF Counted, Abreast
  <2>7. Same(p1 - arg.i, TRUE)' BY <2>1, <2>3, <2>5, <1>1 DEF Same
  <2>8. (StringOrBlockAt(arg.i) /\ StringOrBlockAt(arg.j))'
    BY <1>0, <1>1 DEF StrncmpLoop, StringOrBlockAt, StringAt, BlockAt, Block
  <2>9. StrncmpLoop' BY <2>6, <2>7, <2>8, <1>1, <1>2 DEF StrncmpLoop
  <2>10. Loops' BY <2>1, <2>9, <1>0, <1>1 DEF Loops, In
  <2> QED BY <2>1, <2>2, <2>10, <1>0, <1>1, <1>4, FunctionGoesOn
<1> QED BY <1>5, <1>6, <1>7

LEMMA StrlcpyTurn ==
  ASSUME StringInv, Strlcpy
  PROVE  StringInv'
<1> USE StringConstants
<1>0. pc = "loop" /\ fn = "strlcpy" /\ StringTypes /\ StrlcpyLoop
  BY DEF StringInv, Loops, Strlcpy, In
<1>1. UNCHANGED <<fn, arg, before>>
  BY DEF Strlcpy, Return, Go
<1> DEFINE n == p1 - arg.i
<1>2. /\ p1 = arg.i + n /\ p2 = arg.j + n /\ n \in Nat /\ left = arg.size - n
      /\ p1 \in Int /\ p2 \in Int /\ left \in Nat /\ arg.size \in Nat
      /\ arg.i \in Addrs /\ arg.j \in Addrs /\ p2 >= arg.j
      /\ arg.i + arg.size - 1 <= MemSize
  <2>1. /\ p1 \in Int /\ arg.i \in Nat /\ arg.j \in Nat /\ arg.size \in Nat /\ left \in Nat
        /\ arg.i <= p1 /\ p1 <= arg.i + arg.size /\ left = arg.i + arg.size - p1
        /\ p2 = arg.j + (p1 - arg.i)
    BY <1>0 DEF StrlcpyLoop, Counted, Abreast, StringTypes
  <2>2. arg.i \in Addrs /\ arg.j \in Addrs /\ arg.i + arg.size - 1 <= MemSize
    BY <1>0 DEF StrlcpyLoop, BlockAt, StringAt, Block
  <2> QED BY <2>1, <2>2
<1>3. /\ left # 0 => p1 \in Addrs /\ InBlock(arg.i, p1) /\ n \in 0 .. arg.size - 1
      /\ arg.i + n - 1 = p1 - 1
  BY <1>2 DEF InBlock, Addrs
<1>4. \A t \in 0 .. n - 1 : before[arg.j + t] # 0
  <2>1. SUFFICES ASSUME NEW t \in 0 .. n - 1 PROVE arg.j + t \in arg.j .. p2 - 1
    BY <1>0 DEF StrlcpyLoop, Clear
  <2> QED BY <1>2 DEF Addrs
<1>5. CASE left = 0
  <2>1. pc' = "done" /\ UNCHANGED <<mem, p1, p2, left>> /\ touched' = {}
    BY <1>5 DEF Strlcpy, Return, Look
  <2>2. StringTypes' BY <2>1, <1>1, <1>0, TurnTypes DEF StringTypes
  <2>3. arg.size = 0 /\ p1 = arg.i
    <3>1. arg.size = 0 BY <1>0, <1>5 DEF StrlcpyLoop
    <3> QED BY <3>1, <1>2, <1>5 DEF Addrs
  <2>4. ASSUME NEW k \in Addrs PROVE mem[k] = before[k]
    BY <2>3, <1>0, <1>2 DEF StrlcpyLoop, Moved, Addrs
  <2>5. mem = before BY <2>4, <1>0 DEF StringTypes
  <2>6. Meant' BY <2>1, <2>3, <2>5, <1>0, <1>1 DEF Meant
  <2>7. StringsInside' BY <2>1 DEF StringsInside
  <2> QED BY <2>1, <2>2, <2>6, <2>7, <1>0, <1>1, FunctionReturns DEF Writers
<1>6. CASE left = 1
  <2>1. /\ pc' = "done" /\ UNCHANGED <<p1, p2, left>> /\ touched' = {p1} /\ Put(p1, 0, {p1})
        /\ ret' = (p2 - arg.j - 1) % AddrMod
    BY <1>6 DEF Strlcpy, Return, Put
  <2>2. /\ mem' \in [Addrs -> Bytes]
        /\ \A k \in Addrs : mem'[k] = IF k = p1 THEN 0 ELSE mem[k]
    BY <2>1, <1>0, <1>3, <1>6, PutByte DEF StringTypes
  <2>3. StringTypes' BY <2>1, <2>2, <1>1, <1>0, TurnTypes DEF StringTypes
  <2>4. n = arg.size - 1 /\ p2 - arg.j - 1 = n - 1 BY <1>2, <1>6 DEF Addrs
  <2>5. Cut(n)'
    <3>1. ASSUME NEW k \in Addrs
          PROVE  mem'[k] = IF k = arg.i + n THEN 0
                           ELSE IF k \in arg.i .. arg.i + n - 1 THEN before[arg.j + (k - arg.i)]
                           ELSE before[k]
      <4>1. CASE k = p1 BY <4>1, <2>2, <1>2
      <4>2. CASE k # p1 BY <4>2, <2>2, <1>0, <1>2, <1>3 DEF StrlcpyLoop, Moved
      <4> QED BY <4>1, <4>2
    <3> QED BY <3>1, <2>1, <1>1 DEF Cut
  <2>6. Copied' BY <2>1, <2>4, <2>5, <1>1, <1>3, <1>4, <1>6 DEF Copied, CopiedLength
  <2>7. Meant' BY <2>4, <2>6, <1>0, <1>1, <1>2 DEF Meant
  <2>8. StringsInside' BY <2>1, <1>0, <1>1, <1>3, <1>6 DEF StringsInside, Given, InBlock
  <2> QED BY <2>1, <2>3, <2>7, <2>8, <1>0, <1>1, FunctionReturns DEF Writers
<1>7. CASE left > 1
  <2>1. touched' = {p1, p2} /\ Put(p1, mem[p2], {p1, p2})
    BY <1>7, <1>2 DEF Strlcpy, Put
  <2>2. n < arg.size - 1 /\ InBlock(arg.j, p2) BY <1>2, <1>7 DEF InBlock, Addrs
  <2>3. Clear(arg.j, p2 - 1, 0) BY <1>0 DEF StrlcpyLoop
  <2>4. p2 \in Addrs /\ InString(arg.j, p2) /\ p2 \notin arg.i .. p1 - 1
    <3>1. CASE arg.i + arg.size <= arg.j /\ StringAt(arg.j, MemSize)
      <4>1. arg.j \in Nat BY <1>2 DEF Addrs
      <4>2. p2 \in Addrs /\ InString(arg.j, p2) BY <4>1, <3>1, <2>3, <1>0, <1>2, StringGoesOn
      <4> QED BY <4>2, <3>1, <1>2, <2>2 DEF Addrs
    <3>2. CASE StringAt(arg.j, arg.i - 1)
      <4>1. PICK e \in arg.j .. arg.i - 1 : before[e] = 0 BY <3>2 DEF StringAt
      <4>2. p2 <= e BY <4>1, <2>3, <1>2 DEF Clear, Addrs
      <4>3. p2 \in arg.j .. MemSize /\ p2 < arg.i /\ p2 \in Addrs BY <4>1, <4>2, <1>2 DEF Addrs
      <4> QED BY <4>3, <2>3, <1>2 DEF InString, Clear, Addrs
    <3> QED BY <3>1, <3>2, <1>0 DEF StrlcpyLoop
  <2>5. mem[p2] = before[p2] BY <2>4, <1>0 DEF StrlcpyLoop, Moved
  <2>6. /\ mem' \in [Addrs -> Bytes]
        /\ \A k \in Addrs : mem'[k] = IF k = p1 THEN before[p2] ELSE mem[k]
    <3>1. mem[p2] \in Bytes /\ mem \in [Addrs -> Bytes] BY <2>4, <1>0 DEF StringTypes
    <3>2. p1 \in Addrs BY <1>2, <1>3, <1>7
    <3>3. /\ mem' \in [Addrs -> Bytes]
          /\ \A k \in Addrs : mem'[k] = IF k = p1 THEN mem[p2] ELSE mem[k]
      BY <3>1, <3>2, <2>1, PutByte
    <3> QED BY <3>3, <2>5
  <2>7. ASSUME NEW k \in Addrs
        PROVE  mem'[k] = IF k \in arg.i .. p1 THEN before[arg.j + (k - arg.i)] ELSE before[k]
    <3>1. CASE k = p1 BY <3>1, <2>6, <1>2 DEF Addrs
    <3>2. CASE k # p1
      <4>1. k \in arg.i .. p1 <=> k \in arg.i .. p1 - 1 BY <3>2, <1>2 DEF Addrs
      <4> QED BY <4>1, <3>2, <2>6, <1>0 DEF StrlcpyLoop, Moved
    <3> QED BY <3>1, <3>2
  <2>8. StringsInside'
    BY <2>1, <2>2, <2>4, <1>0, <1>1, <1>3, <1>7 DEF StringsInside, Given, InBlock, InString
  <2>9. CASE mem[p2] = 0
    <3>1. pc' = "done" /\ UNCHANGED <<p1, p2, left>> /\ ret' = p2 - arg.j
      BY <2>9, <1>2, <1>7 DEF Strlcpy, Return
    <3>2. StringTypes' BY <3>1, <2>6, <1>0, <1>1, TurnTypes DEF StringTypes
    <3>3. Cut(n)'
      <4>1. ASSUME NEW k \in Addrs
            PROVE  mem'[k] = IF k = arg.i + n THEN 0
                             ELSE IF k \in arg.i .. arg.i + n - 1 THEN before[arg.j + (k - arg.i)]
                             ELSE before[k]
        <5>1. CASE k = p1 BY <5>1, <2>5, <2>6, <2>9, <1>2
        <5>2. CASE k # p1 BY <5>2, <2>6, <1>0, <1>2, <1>3 DEF StrlcpyLoop, Moved
        <5> QED BY <5>1, <5>2
      <4> QED BY <4>1, <3>1, <1>1 DEF Cut
    <3>4. ret' = n /\ before[arg.j + n] = 0
      <4>1. before[arg.j + n] = 0 BY <2>5, <2>9, <1>2
      <4>2. p2 - arg.j = n BY <1>2 DEF Addrs
      <4> QED BY <4>1, <4>2, <3>1
    <3>5. Copied' BY <3>1, <3>3, <3>4, <2>2, <1>1, <1>3, <1>4, <1>7 DEF Copied, CopiedLength
    <3>6. Meant' BY <3>5, <1>0, <1>1, <1>2, <1>7 DEF Meant
    <3> QED BY <3>1, <3>2, <3>6, <2>8, <1>0, <1>1, FunctionReturns DEF Writers
  <2>10. CASE mem[p2] # 0
    <3>1. pc' = pc /\ p1' = p1 + 1 /\ p2' = p2 + 1 /\ left' = left - 1
      BY <2>10, <1>2, <1>7 DEF Strlcpy, Go
    <3>2. left - 1 \in Nat /\ left - 1 # 0 BY <1>2, <1>7
    <3>3. StringTypes' BY <3>1, <3>2, <2>6, <1>0, <1>1, TurnTypes DEF StringTypes
    <3>4. StrlcpyLoop'
      <4>1. (BlockAt(arg.i) /\ Counted /\ Abreast /\ (left = 0 => arg.size = 0))'
        BY <3>1, <3>2, <1>1, <1>2 DEF BlockAt, Block, Counted, Abreast, Addrs
      <4>2. ((arg.i + arg.size <= arg.j /\ StringAt(arg.j, MemSize)) \/ StringAt(arg.j, arg.i - 1))'
        BY <1>0, <1>1 DEF StrlcpyLoop, StringAt
      <4>3. Clear(arg.j, p2 - 1, 0)'
        BY <3>1, <2>3, <2>5, <2>10, <1>1, <1>2 DEF Clear, Addrs
      <4>4. Moved(arg.i, p1 - 1)'
        <5>1. (p1 + 1) - 1 = p1 BY <1>2
        <5> QED BY <5>1, <3>1, <2>7, <1>1 DEF Moved
      <4> QED BY <4>1, <4>2, <4>3, <4>4 DEF StrlcpyLoop
    <3>5. Loops' BY <3>1, <3>4, <1>0, <1>1 DEF Loops, In
    <3> QED BY <3>1, <3>3, <3>5, <2>8, <1>0, <1>1, FunctionGoesOn DEF Writers
  <2> QED BY <2>9, <2>10
<1> QED BY <1>2, <1>5, <1>6, <1>7

(* The remainder of the difference of two addresses. *)
LEMMA Direction ==
  ASSUME NEW i \in Addrs, NEW j \in Addrs, NEW size \in Nat, Block(j, size)
  PROVE  IF (i - j) % AddrMod >= size THEN i <= j \/ j + size <= i ELSE j <= i
<1> USE StringConstants
<1>1. i \in Int /\ j \in Int /\ 1 <= i /\ i <= MemSize /\ 1 <= j /\ j <= MemSize
      /\ MemSize \in Nat /\ AddrMod \in Nat /\ MemSize < AddrMod /\ j + size - 1 <= MemSize
  BY DEF Addrs, Block
<1>2. CASE i >= j
  <2>1. i - j \in Nat /\ i - j < AddrMod BY <1>1, <1>2
  <2>2. (i - j) % AddrMod = i - j BY <2>1, <1>1
  <2> QED BY <2>2, <1>1, <1>2
<1>3. CASE i < j
  <2>1. i - j + AddrMod \in 0 .. AddrMod - 1 /\ i - j + AddrMod >= size BY <1>1, <1>3
  <2>2. (i - j) % AddrMod = i - j + AddrMod BY <2>1, <1>1
  <2> QED BY <2>1, <2>2, <1>1, <1>3
<1> QED BY <1>1, <1>2, <1>3

LEMMA ArgsType ==
  ASSUME NEW i \in Nat, NEW j \in Nat, NEW c \in Bytes, NEW size \in Nat
  PROVE  Args(i, j, c, size) \in [i : Nat, j : Nat, c : Bytes, size : Nat]
BY DEF Args

(* A call that sets up its loop. *)
LEMMA CallEnters ==
  ASSUME StringInv, NEW f \in StringFunctions \ {"none"}, NEW loop \in {"loop", "back"},
         NEW i \in Nat, NEW j \in Nat, NEW c \in Bytes, NEW size \in Nat,
         NEW p \in Int, NEW q \in Int, Enter(f, Args(i, j, c, size), loop, p, q)
  PROVE  /\ StringTypes /\ StringTypes'
         /\ pc' = loop /\ fn' = f /\ before' = mem /\ mem' = mem /\ p1' = p /\ p2' = q /\ left' = size
         /\ arg'.i = i /\ arg'.j = j /\ arg'.c = c /\ arg'.size = size
         /\ Loops' => StringInv'
<1>0. StringTypes /\ (pc = "idle" => touched = {}) BY DEF StringInv
<1>1. /\ pc' = loop /\ fn' = f /\ before' = mem /\ mem' = mem /\ p1' = p /\ p2' = q /\ left' = size
      /\ arg' = Args(i, j, c, size) /\ touched' = {}
  BY <1>0 DEF Enter, Args
<1>2. StringTypes' BY <1>0, <1>1, ArgsType DEF StringTypes
<1>3. StringsInside' BY <1>1 DEF StringsInside
<1>4. Loops' => StringInv' BY <1>1, <1>2, <1>3, FunctionGoesOn
<1> QED BY <1>0, <1>1, <1>2, <1>4 DEF Args

LEMMA CallsKeep ==
  ASSUME StringInv, StringCalls
  PROVE  StringInv'
<1> USE StringConstants
<1>0. PICK i \in Addrs :
    \/ \E c \in Bytes, size \in 0 .. MemSize :
         CallMemset(i, c, size) \/ CallMemchr(i, c, size) \/ CallMemchrRev(i, c, size)
    \/ \E j \in Addrs, size \in 0 .. MemSize :
         \/ CallMemcmp(i, j, size) \/ CallMemcpy(i, j, size) \/ CallMemmove(i, j, size)
         \/ CallStrncmp(i, j, size) \/ CallStrlcpy(i, j, size)
    \/ \E size \in 0 .. MemSize : CallStrnlen(i, size)
    \/ \E c \in Bytes : CallStrchr(i, c) \/ CallStrchrRev(i, c)
    \/ \E j \in Addrs : CallStrcmp(i, j)
    \/ CallStrlen(i)
  BY DEF StringCalls
<1>n. /\ i \in Nat /\ i \in Int /\ 1 <= i /\ 0 \in Bytes /\ Null \in Nat /\ Null \in Int /\ 0 \in Nat
      /\ MemSize \in Nat /\ Addrs \subseteq Nat /\ Addrs \subseteq Int /\ 0 .. MemSize \subseteq Nat
  BY DEF Addrs, Null
<1>f. {"memset", "memchr", "memchr_rev", "memcmp", "memmove", "strnlen", "strcmp", "strncmp", "strlcpy"}
        \subseteq StringFunctions \ {"none"}
  BY DEF StringFunctions
<1>1. ASSUME NEW c \in Bytes, NEW size \in 0 .. MemSize, CallMemset(i, c, size) PROVE StringInv'
  <2>1. Enter("memset", Args(i, Null, c, size), "loop", i, Null) /\ Block(i, size) BY <1>1 DEF CallMemset
  <2>2. /\ StringTypes' /\ pc' = "loop" /\ fn' = "memset" /\ before' = mem /\ mem' = mem
        /\ p1' = i /\ left' = size /\ arg'.i = i /\ arg'.size = size
        /\ (Loops' => StringInv')
    BY <2>1, <1>n, <1>f, CallEnters
  <2>3. MemsetLoop' BY <2>1, <2>2, <1>n DEF MemsetLoop, BlockAt, Block, Counted
  <2> QED BY <2>2, <2>3 DEF Loops, In
<1>2. ASSUME NEW c \in Bytes, NEW size \in 0 .. MemSize, CallMemchr(i, c, size) PROVE StringInv'
  <2>1. Enter("memchr", Args(i, Null, c, size), "loop", i, Null) /\ Block(i, size) BY <1>2 DEF CallMemchr
  <2>2. /\ StringTypes' /\ pc' = "loop" /\ fn' = "memchr" /\ before' = mem /\ mem' = mem
        /\ p1' = i /\ left' = size /\ arg'.i = i /\ arg'.size = size
        /\ (Loops' => StringInv')
    BY <2>1, <1>n, <1>f, CallEnters
  <2>3. MemchrLoop' BY <2>1, <2>2, <1>n DEF MemchrLoop, BlockAt, Block, Counted, Clear
  <2> QED BY <2>2, <2>3 DEF Loops, In
<1>3. ASSUME NEW c \in Bytes, NEW size \in 0 .. MemSize, CallMemchrRev(i, c, size) PROVE StringInv'
  <2>1. /\ Enter("memchr_rev", Args(i, Null, c, size), "loop", i + size - 1, Null)
        /\ Block(i, size) /\ i + size - 1 \in Int
    BY <1>3, <1>n DEF CallMemchrRev
  <2>2. /\ StringTypes' /\ pc' = "loop" /\ fn' = "memchr_rev" /\ before' = mem /\ mem' = mem
        /\ p1' = i + size - 1 /\ left' = size /\ arg'.i = i /\ arg'.size = size
        /\ (Loops' => StringInv')
    BY <2>1, <1>n, <1>f, CallEnters
  <2>3. MemchrRevLoop' BY <2>1, <2>2, <1>n DEF MemchrRevLoop, BlockAt, Block, Clear
  <2> QED BY <2>2, <2>3 DEF Loops, In
<1>4. ASSUME NEW j \in Addrs, NEW size \in 0 .. MemSize, CallMemcmp(i, j, size) PROVE StringInv'
  <2>1. Enter("memcmp", Args(i, j, 0, size), "loop", i, j) /\ Block(i, size) /\ Block(j, size)
    BY <1>4 DEF CallMemcmp
  <2>2. /\ StringTypes' /\ pc' = "loop" /\ fn' = "memcmp" /\ before' = mem /\ mem' = mem
        /\ p1' = i /\ p2' = j /\ left' = size /\ arg'.i = i /\ arg'.j = j /\ arg'.size = size
        /\ (Loops' => StringInv')
    BY <2>1, <1>n, <1>f, CallEnters
  <2>3. MemcmpLoop' BY <2>1, <2>2, <1>n DEF MemcmpLoop, BlockAt, Block, Counted, Abreast, Same
  <2> QED BY <2>2, <2>3 DEF Loops, In
<1>5. ASSUME NEW j \in Addrs, NEW size \in 0 .. MemSize, NEW f \in {"memcpy", "memmove"},
             Block(i, size), Block(j, size), i <= j \/ j + size <= i,
             Enter(f, Args(i, j, 0, size), "loop", i, j)
      PROVE  StringInv'
  <2>1. f \in StringFunctions \ {"none"} BY DEF StringFunctions
  <2>2. /\ StringTypes' /\ pc' = "loop" /\ fn' = f /\ before' = mem /\ mem' = mem
        /\ p1' = i /\ p2' = j /\ left' = size /\ arg'.i = i /\ arg'.j = j /\ arg'.size = size
        /\ (Loops' => StringInv')
    BY <2>1, <1>n, <1>5, CallEnters
  <2>3. CopyLoop' BY <2>2, <1>n, <1>5 DEF CopyLoop, BlockAt, Block, Counted, Abreast, Moved
  <2>4. CASE f = "memcpy" BY <2>2, <2>3, <2>4 DEF Loops, In
  <2>5. CASE f = "memmove" BY <2>2, <2>3, <2>5 DEF Loops, In
  <2> QED BY <2>4, <2>5
<1>6. ASSUME NEW j \in Addrs, NEW size \in 0 .. MemSize, CallMemcpy(i, j, size) PROVE StringInv'
  <2>1. i <= j \/ j + size <= i BY <1>6, <1>n DEF CallMemcpy
  <2> QED BY <2>1, <1>5, <1>6 DEF CallMemcpy
<1>7. ASSUME NEW j \in Addrs, NEW size \in 0 .. MemSize, CallMemmove(i, j, size) PROVE StringInv'
  <2>1. Block(i, size) /\ Block(j, size) BY <1>7 DEF CallMemmove
  <2>2. IF (i - j) % AddrMod >= size THEN i <= j \/ j + size <= i ELSE j <= i
    BY <2>1, <1>n, Direction
  <2>3. CASE (i - j) % AddrMod >= size BY <2>1, <2>2, <2>3, <1>5, <1>7 DEF CallMemmove
  <2>4. CASE ~((i - j) % AddrMod >= size)
    <3>1. /\ Enter("memmove", Args(i, j, 0, size), "back", i + size, j + size) /\ j <= i
          /\ i + size \in Int /\ j + size \in Int
      BY <2>2, <2>4, <1>7, <1>n DEF CallMemmove
    <3>2. /\ StringTypes' /\ pc' = "back" /\ fn' = "memmove" /\ before' = mem /\ mem' = mem
          /\ p1' = i + size /\ p2' = j + size /\ arg'.i = i /\ arg'.j = j /\ arg'.size = size
          /\ (Loops' => StringInv')
      BY <3>1, <1>n, <1>f, CallEnters
    <3>3. BackLoop'
      BY <3>1, <3>2, <2>1, <1>n DEF BackLoop, BlockAt, Block, Abreast, Moved
    <3> QED BY <3>2, <3>3 DEF Loops, In
  <2> QED BY <2>3, <2>4
<1>8. ASSUME String(i, MemSize), NEW f \in {"strlen", "strchr", "strchr_rev"}, NEW c \in Bytes,
             Enter(f, Args(i, Null, c, 0), "loop", i, Null)
      PROVE  StringInv'
  <2>1. f \in StringFunctions \ {"none"} BY DEF StringFunctions
  <2>2. /\ StringTypes' /\ pc' = "loop" /\ fn' = f /\ before' = mem /\ mem' = mem
        /\ p1' = i /\ p2' = Null /\ arg'.i = i /\ arg'.c = c
        /\ (Loops' => StringInv')
    BY <2>1, <1>n, <1>8, CallEnters
  <2>3. StringAt(i, MemSize)' /\ InString(i, i)' /\ \A d : Clear(i, i - 1, d)'
    BY <2>2, <1>n, <1>8 DEF StringAt, String, InString, Clear, Addrs
  <2>4. StrlenLoop' /\ StrchrLoop' /\ StrchrRevLoop'
    BY <2>2, <2>3 DEF StrlenLoop, StrchrLoop, StrchrRevLoop, StringAt, InString, Clear
  <2>5. CASE f = "strlen" BY <2>2, <2>4, <2>5 DEF Loops, In
  <2>6. CASE f = "strchr" BY <2>2, <2>4, <2>6 DEF Loops, In
  <2>7. CASE f = "strchr_rev" BY <2>2, <2>4, <2>7 DEF Loops, In
  <2> QED BY <2>5, <2>6, <2>7
<1>9. ASSUME NEW c \in Bytes, CallStrlen(i) \/ CallStrchr(i, c) \/ CallStrchrRev(i, c)
      PROVE  StringInv'
  BY <1>8, <1>9, <1>n DEF CallStrlen, CallStrchr, CallStrchrRev
<1>10. ASSUME NEW size \in 0 .. MemSize, CallStrnlen(i, size) PROVE StringInv'
  <2>1. Enter("strnlen", Args(i, Null, 0, size), "loop", i, Null) /\ (String(i, MemSize) \/ Block(i, size))
    BY <1>10 DEF CallStrnlen
  <2>2. /\ StringTypes' /\ pc' = "loop" /\ fn' = "strnlen" /\ before' = mem /\ mem' = mem
        /\ p1' = i /\ arg'.i = i /\ arg'.size = size
        /\ (Loops' => StringInv')
    BY <2>1, <1>n, <1>f, CallEnters
  <2>3. StrnlenLoop'
    BY <2>1, <2>2, <1>n
    DEF StrnlenLoop, StringOrBlockAt, StringAt, BlockAt, Block, String, Clear
  <2> QED BY <2>2, <2>3 DEF Loops, In
<1>11. ASSUME NEW j \in Addrs, CallStrcmp(i, j) PROVE StringInv'
  <2>1. Enter("strcmp", Args(i, j, 0, 0), "loop", i, j) /\ String(i, MemSize) /\ String(j, MemSize)
    BY <1>11 DEF CallStrcmp
  <2>2. /\ StringTypes' /\ pc' = "loop" /\ fn' = "strcmp" /\ before' = mem /\ mem' = mem
        /\ p1' = i /\ p2' = j /\ arg'.i = i /\ arg'.j = j
        /\ (Loops' => StringInv')
    BY <2>1, <1>n, <1>f, CallEnters
  <2>3. i <= MemSize /\ j <= MemSize /\ j \in Nat BY <1>n DEF Addrs
  <2>4. StrcmpLoop'
    BY <2>1, <2>2, <2>3, <1>n DEF StrcmpLoop, StringAt, String, Abreast, Same
  <2> QED BY <2>2, <2>4 DEF Loops, In
<1>12. ASSUME NEW j \in Addrs, NEW size \in 0 .. MemSize, CallStrncmp(i, j, size) PROVE StringInv'
  <2>1. /\ Enter("strncmp", Args(i, j, 0, size), "loop", i, j)
        /\ String(i, MemSize) \/ Block(i, size)
        /\ String(j, MemSize) \/ Block(j, size)
    BY <1>12 DEF CallStrncmp
  <2>2. /\ StringTypes' /\ pc' = "loop" /\ fn' = "strncmp" /\ before' = mem /\ mem' = mem
        /\ p1' = i /\ p2' = j /\ left' = size /\ arg'.i = i /\ arg'.j = j /\ arg'.size = size
        /\ (Loops' => StringInv')
    BY <2>1, <1>n, <1>f, CallEnters
  <2>3. (StringOrBlockAt(i) /\ StringOrBlockAt(j))'
    BY <2>1, <2>2, <1>n DEF StringOrBlockAt, StringAt, BlockAt, Block, String
  <2>4. StrncmpLoop'
    BY <2>2, <2>3, <1>n DEF StrncmpLoop, Counted, Abreast, Same, StringOrBlockAt, StringAt, BlockAt, Block
  <2> QED BY <2>2, <2>4 DEF Loops, In
<1>13. ASSUME NEW j \in Addrs, NEW size \in 0 .. MemSize, CallStrlcpy(i, j, size) PROVE StringInv'
  <2>1. /\ Enter("strlcpy", Args(i, j, 0, size), "loop", i, j) /\ Block(i, size)
        /\ (i + size <= j /\ String(j, MemSize)) \/ String(j, i - 1)
    BY <1>13 DEF CallStrlcpy
  <2>2. /\ StringTypes' /\ pc' = "loop" /\ fn' = "strlcpy" /\ before' = mem /\ mem' = mem
        /\ p1' = i /\ p2' = j /\ left' = size /\ arg'.i = i /\ arg'.j = j /\ arg'.size = size
        /\ (Loops' => StringInv')
    BY <2>1, <1>n, <1>f, CallEnters
  <2>3. i - 1 <= MemSize BY <1>n DEF Addrs
  <2>4. ((i + size <= j /\ StringAt(j, MemSize)) \/ StringAt(j, i - 1))'
    BY <2>1, <2>2, <2>3, <1>n DEF StringAt, String
  <2>5. StrlcpyLoop'
    BY <2>1, <2>2, <2>4, <1>n
    DEF StrlcpyLoop, BlockAt, Block, Counted, Abreast, Moved, Clear, StringAt
  <2> QED BY <2>2, <2>5 DEF Loops, In
<1> QED
  <2>1. CASE \E c \in Bytes, size \in 0 .. MemSize :
               CallMemset(i, c, size) \/ CallMemchr(i, c, size) \/ CallMemchrRev(i, c, size)
    BY <2>1, <1>1, <1>2, <1>3
  <2>2. CASE \E j \in Addrs, size \in 0 .. MemSize :
               \/ CallMemcmp(i, j, size) \/ CallMemcpy(i, j, size) \/ CallMemmove(i, j, size)
               \/ CallStrncmp(i, j, size) \/ CallStrlcpy(i, j, size)
    BY <2>2, <1>4, <1>6, <1>7, <1>12, <1>13
  <2>3. CASE \E size \in 0 .. MemSize : CallStrnlen(i, size) BY <2>3, <1>10
  <2>4. CASE (\E c \in Bytes : CallStrchr(i, c) \/ CallStrchrRev(i, c)) \/ CallStrlen(i)
    BY <2>4, <1>9, <1>n
  <2>5. CASE \E j \in Addrs : CallStrcmp(i, j) BY <2>5, <1>11
  <2> QED BY <2>1, <2>2, <2>3, <2>4, <2>5, <1>0

LEMMA LeaveKeeps ==
  ASSUME StringInv, Leave
  PROVE  StringInv'
<1>1. StringTypes BY DEF StringInv
<1>2. 0 \in Bytes BY StringConstants
<1>3. /\ mem' = mem /\ before' = mem /\ pc' = "idle" /\ fn' = "none" /\ touched' = {}
      /\ arg' = Args(Null, Null, 0, 0) /\ p1' = 0 /\ p2' = 0 /\ left' = 0
  BY DEF Leave, Look, Null
<1>a. Args(Null, Null, 0, 0) \in [i : Nat, j : Nat, c : Bytes, size : Nat] BY <1>2 DEF Args, Null
<1>4. StringTypes' BY <1>1, <1>3, <1>a DEF StringTypes, StringFunctions
<1>5. Loops' /\ StringsInside' /\ StringsExact' BY <1>3 DEF Loops, In, StringsInside, StringsExact
<1> QED BY <1>3, <1>4, <1>5 DEF StringInv

LEMMA StringStart == StringInit => StringInv
<1> SUFFICES ASSUME StringInit PROVE StringInv OBVIOUS
<1>1. 0 \in Bytes BY StringConstants
<1>a. Args(Null, Null, 0, 0) \in [i : Nat, j : Nat, c : Bytes, size : Nat] BY <1>1 DEF Args, Null
<1>2. StringTypes BY <1>a DEF StringInit, StringTypes, StringFunctions, Null
<1>3. Loops /\ StringsInside /\ StringsExact
  BY DEF StringInit, Loops, In, StringsInside, StringsExact
<1> QED BY <1>2, <1>3 DEF StringInv, StringInit

LEMMA StringStepKeeps == StringInv /\ [StringNext]_stringVars => StringInv'
<1> SUFFICES ASSUME StringInv, [StringNext]_stringVars PROVE StringInv' OBVIOUS
<1>1. CASE UNCHANGED stringVars
  <2> USE <1>1 DEF stringVars
  <2>1. StringTypes' BY DEF StringInv, StringTypes
  <2>2. StringsInside' BY DEF StringInv, StringsInside, Given, InBlock, InString
  <2>3. (BackLoop' <=> BackLoop) /\ (CopyLoop' <=> CopyLoop) /\ (MemsetLoop' <=> MemsetLoop)
    BY DEF BackLoop, CopyLoop, MemsetLoop, BlockAt, Block, Counted, Abreast, Moved
  <2>4. (MemchrLoop' <=> MemchrLoop) /\ (MemchrRevLoop' <=> MemchrRevLoop) /\ (MemcmpLoop' <=> MemcmpLoop)
    BY DEF MemchrLoop, MemchrRevLoop, MemcmpLoop, BlockAt, Block, Counted, Abreast, Clear, Same
  <2>5. (StrlenLoop' <=> StrlenLoop) /\ (StrchrLoop' <=> StrchrLoop) /\ (StrchrRevLoop' <=> StrchrRevLoop)
    BY DEF StrlenLoop, StrchrLoop, StrchrRevLoop, StringAt, InString, Clear
  <2>6. (StrnlenLoop' <=> StrnlenLoop) /\ (StrcmpLoop' <=> StrcmpLoop) /\ (StrncmpLoop' <=> StrncmpLoop)
    BY DEF StrnlenLoop, StrcmpLoop, StrncmpLoop, StringOrBlockAt, StringAt, BlockAt, Block, Counted,
           Abreast, Same, Clear
  <2>7. StrlcpyLoop' <=> StrlcpyLoop
    BY DEF StrlcpyLoop, StringAt, BlockAt, Block, Counted, Abreast, Clear, Moved
  <2>8. Loops' BY <2>3, <2>4, <2>5, <2>6, <2>7 DEF StringInv, Loops, In
  <2>9. /\ IsFirst(ret, InBytes)' <=> IsFirst(ret, InBytes)
        /\ IsLast(ret, InBytes)' <=> IsLast(ret, InBytes)
        /\ IsFirst(ret, InChars)' <=> IsFirst(ret, InChars)
        /\ (ret \in InChars)' <=> ret \in InChars
        /\ (InChars = {})' <=> InChars = {}
    BY DEF IsFirst, IsLast, InBytes, InChars, InBlock, InString
  <2>10. /\ Compared(arg.size, FALSE)' <=> Compared(arg.size, FALSE)
         /\ Compared(arg.size, TRUE)' <=> Compared(arg.size, TRUE)
         /\ Compared(MemSize, TRUE)' <=> Compared(MemSize, TRUE)
         /\ Copied' <=> Copied
    BY DEF Compared, Same, Copied, CopiedLength, Cut
  <2>11. Meant' <=> Meant BY <2>9, <2>10 DEF Meant, InBlock, InString
  <2>12. StringsExact' BY <2>11 DEF StringInv, StringsExact
  <2> QED BY <2>1, <2>2, <2>8, <2>12 DEF StringInv
<1>2. CASE StringCalls BY <1>2, CallsKeep
<1>3. CASE Leave BY <1>3, LeaveKeeps
<1>4. CASE Memset BY <1>4, MemsetTurn
<1>5. CASE Memcpy BY <1>5, MemcpyTurn
<1>6. CASE MemmoveBack BY <1>6, MemmoveBackTurn
<1>7. CASE Memchr BY <1>7, MemchrTurn, MemchrRevTurn DEF Memchr, In
<1>8. CASE Memcmp BY <1>8, MemcmpTurn
<1>9. CASE Strlen BY <1>9, StrlenTurn
<1>10. CASE Strnlen BY <1>10, StrnlenTurn
<1>11. CASE Strchr BY <1>11, StrchrTurn
<1>12. CASE StrchrRev BY <1>12, StrchrRevTurn
<1>13. CASE Strcmp BY <1>13, StrcmpTurn
<1>14. CASE Strncmp BY <1>14, StrncmpTurn
<1>15. CASE Strlcpy BY <1>15, StrlcpyTurn
<1> QED
  BY <1>1, <1>2, <1>3, <1>4, <1>5, <1>6, <1>7, <1>8, <1>9, <1>10, <1>11, <1>12, <1>13, <1>14, <1>15
  DEF StringNext

(* Every call of a function of string.c returns what it is for and changes    *)
(* just the bytes it should, and no turn of its loop touches a byte outside   *)
(* what it was given, on any memory, with any blocks and strings.             *)
THEOREM StringsCorrect == StringSpec => []StringsSound
<1>1. StringInv => StringsSound BY DEF StringInv, StringsSound
<1> QED BY <1>1, StringStart, StringStepKeeps, PTL DEF StringSpec
=============================================================================
