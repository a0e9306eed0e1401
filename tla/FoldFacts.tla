------------------------------ MODULE FoldFacts ------------------------------
(***************************************************************************)
(* Facts about numbers, sequences and folds that the proofs of several     *)
(* components need.  The steps of a fold are given as functions, one for   *)
(* each position, so that the lemmas take no operator.                     *)
(***************************************************************************)
EXTENDS Integers, FiniteSets, Sequences, SequencesExt, FiniteSetTheorems,
        SequenceTheorems, WellFoundedInduction, TLAPS

(* Every set of numbers that is not empty has a least one: what stands for  *)
(* an induction over the natural numbers.                                   *)
LEMMA LeastNumber ==
  ASSUME NEW T \in SUBSET Nat, T # {}
  PROVE  \E x \in T : \A y \in T : x <= y
<1> DEFINE R == {p \in Nat \X Nat : p[1] < p[2]}
<1>1. IsWellFoundedOn(R, Nat)  BY NatLessThanWellFounded DEF OpToRel
<1>2. PICK x \in T : \A y \in T : ~(<<y, x>> \in R)  BY <1>1, WFMin
<1>3. ASSUME NEW y \in T PROVE x <= y
  <2>1. ~(y < x)  BY <1>2
  <2> QED  BY <2>1
<1> QED  BY <1>2, <1>3

(* A set of numbers that holds 0 and, with a number below n, the next one, *)
(* holds n.                                                                *)
LEMMA UpTo ==
  ASSUME NEW n \in Nat, NEW T, 0 \in T, \A i \in 1 .. n : i - 1 \in T => i \in T
  PROVE  \A i \in 0 .. n : i \in T
<1> DEFINE B == {i \in 0 .. n : i \notin T}
<1> SUFFICES ASSUME B # {} PROVE FALSE  OBVIOUS
<1>0. B \in SUBSET Nat  OBVIOUS
<1>1. PICK j \in B : \A y \in B : j <= y
  <2> HIDE DEF B
  <2> QED  BY <1>0, LeastNumber
<1>2. j \in 1 .. n /\ j \notin T  OBVIOUS
<1>3. j - 1 \notin B  BY <1>1, <1>2
<1> QED  BY <1>2, <1>3

(* The largest number of a set that is bounded. *)
LEMMA LargestNumber ==
  ASSUME NEW n \in Nat, NEW T \in SUBSET (1 .. n), T # {}
  PROVE  Max(T) \in T /\ \A y \in T : y <= Max(T)
<1> DEFINE D == {n - y : y \in T}
<1>1. D \in SUBSET Nat /\ D # {}  OBVIOUS
<1>2. PICK d \in D : \A e \in D : d <= e  BY <1>1, LeastNumber
<1>3. PICK x \in T : d = n - x  OBVIOUS
<1>4. \A y \in T : x >= y
  <2> TAKE y \in T
  <2>1. d <= n - y  BY <1>2
  <2> QED  BY <1>3, <2>1
<1> QED  BY <1>4 DEF Max

(* The largest number of 1 .. n, with or without more of them. *)
LEMMA LargestOf ==
  ASSUME NEW n \in Nat, NEW T \in SUBSET (1 .. n), n \in T
  PROVE  Max(T) = n
<1>1. Max(T) \in T /\ n <= Max(T)  BY LargestNumber
<1>2. Max(T) \in 1 .. n  BY <1>1
<1> QED  BY <1>1, <1>2

(* f is what a fold from the left over a sequence of length n computes     *)
(* with: the value of a set of positions is the step of the last one       *)
(* applied to the value of the others.                                     *)
Follows(f, n, G, base, step) ==
  /\ f[{}] = base
  /\ \A s \in SUBSET (1 .. n) : s # {} /\ f[s \ {Max(s)}] \in G =>
       f[s] = step[Max(s)][f[s \ {Max(s)}]]

(* Each step takes inv[i - 1] to inv[i]. *)
Keeps(inv, n, G, step) ==
  \A i \in 1 .. n : \A g \in G : g \in inv[i - 1] => step[i][g] \in inv[i]

(* Such a function exists when the steps stay in G. *)
LEMMA FoldDefined ==
  ASSUME NEW n \in Nat, NEW G, NEW base \in G, NEW step \in [1 .. n -> [G -> G]]
  PROVE  \E f : f \in [SUBSET (1 .. n) -> G] /\ Follows(f, n, G, base, step)
<1> DEFINE Good(m, f) ==
      /\ f \in [SUBSET (1 .. m) -> G]
      /\ \A s \in SUBSET (1 .. m) : f[s] = IF s = {} THEN base ELSE step[Max(s)][f[s \ {Max(s)}]]
           T == {m \in 0 .. n : \E f : Good(m, f)}
<1>1. 0 \in T
  <2> DEFINE f == [s \in SUBSET (1 .. 0) |-> base]
  <2>1. \A s \in SUBSET (1 .. 0) : s = {}  OBVIOUS
  <2>2. Good(0, f)  BY <2>1
  <2> HIDE DEF Good, f
  <2> QED  BY <2>2
<1>2. ASSUME NEW i \in 1 .. n, i - 1 \in T PROVE i \in T
  <2>1. PICK f : Good(i - 1, f)  BY <1>2
  <2> DEFINE h == [s \in SUBSET (1 .. i) |-> IF i \in s THEN step[i][f[s \ {i}]] ELSE f[s]]
  <2>2. ASSUME NEW s \in SUBSET (1 .. i)
        PROVE  h[s] \in G /\ h[s] = IF s = {} THEN base ELSE step[Max(s)][h[s \ {Max(s)}]]
    <3>1. CASE i \in s
      <4>1. Max(s) = i  BY <3>1, LargestOf
      <4>2. s \ {i} \in SUBSET (1 .. i - 1) /\ s \ {i} \in SUBSET (1 .. i)  OBVIOUS
      <4>3. f[s \ {i}] \in G  BY <2>1, <4>2
      <4>4. h[s \ {i}] = f[s \ {i}]  BY <4>2
      <4>5. step[i] \in [G -> G]  OBVIOUS
      <4> QED  BY <3>1, <4>1, <4>3, <4>4, <4>5
    <3>2. CASE i \notin s
      <4>1. s \in SUBSET (1 .. i - 1)  BY <3>2
      <4>2. h[s] = f[s] /\ f[s] \in G  BY <2>1, <3>2, <4>1
      <4>3. CASE s = {}
        BY <2>1, <4>1, <4>2, <4>3
      <4>4. CASE s # {}
        <5>1. s \ {Max(s)} \in SUBSET (1 .. i - 1) /\ s \ {Max(s)} \in SUBSET (1 .. i)  BY <4>1
        <5>2. h[s \ {Max(s)}] = f[s \ {Max(s)}]  BY <3>2, <5>1
        <5>3. f[s] = step[Max(s)][f[s \ {Max(s)}]]  BY <2>1, <4>1, <4>4
        <5> QED  BY <4>2, <4>4, <5>2, <5>3
      <4> QED  BY <4>3, <4>4
    <3> QED  BY <3>1, <3>2
  <2>3. Good(i, h)  BY <2>2
  <2> HIDE DEF Good, h
  <2> QED  BY <2>3
<1> HIDE DEF T
<1>3. \A i \in 0 .. n : i \in T  BY <1>1, <1>2, UpTo
<1>4. n \in T  BY <1>3
<1>5. PICK f : Good(n, f)  BY <1>4 DEF T
<1>6. f[{}] = base
  <2>1. {} \in SUBSET (1 .. n)  OBVIOUS
  <2> QED  BY <1>5, <2>1
<1> QED  BY <1>5, <1>6 DEF Follows

(* What such a fold returns: if the base is in inv[0] and each step takes  *)
(* inv[i - 1] to inv[i], the result is in inv[n].                          *)
LEMMA FoldKeeps ==
  ASSUME NEW n \in Nat, NEW G, NEW base \in G, NEW step \in [1 .. n -> [G -> G]], NEW inv,
         NEW f, Follows(f, n, G, base, step), base \in inv[0], Keeps(inv, n, G, step)
  PROVE  f[1 .. n] \in G /\ f[1 .. n] \in inv[n]
<1> DEFINE T == {i \in 0 .. n : f[1 .. i] \in G /\ f[1 .. i] \in inv[i]}
<1>1. 0 \in T
  <2>1. 1 .. 0 = {}  OBVIOUS
  <2> QED  BY <2>1 DEF Follows
<1>2. ASSUME NEW i \in 1 .. n, i - 1 \in T PROVE i \in T
  <2>0. i \in 1 .. i /\ \A j \in 1 .. i : j \in 1 .. n  OBVIOUS
  <2>1. 1 .. i \in SUBSET (1 .. n) /\ 1 .. i # {} /\ 1 .. i \in SUBSET (1 .. i) /\ i \in 1 .. i
    BY <2>0
  <2>2. Max(1 .. i) = i  BY <2>1, LargestOf
  <2>3. (1 .. i) \ {i} = 1 .. i - 1  OBVIOUS
  <2>4. f[1 .. i - 1] \in inv[i - 1] /\ f[1 .. i - 1] \in G  BY <1>2
  <2>5. f[1 .. i] = step[i][f[1 .. i - 1]]  BY <2>1, <2>2, <2>3, <2>4 DEF Follows
  <2>6. step[i][f[1 .. i - 1]] \in G /\ step[i][f[1 .. i - 1]] \in inv[i]  BY <2>4 DEF Keeps
  <2> QED  BY <2>5, <2>6
<1> HIDE DEF T
<1>3. \A i \in 0 .. n : i \in T  BY <1>1, <1>2, UpTo
<1>4. n \in T  BY <1>3
<1> QED  BY <1>4 DEF T

(* The members of a sequence. *)
LEMMA ToSetIs ==
  ASSUME NEW S, NEW q \in Seq(S)
  PROVE  /\ ToSet(q) = {q[i] : i \in 1 .. Len(q)}
         /\ ToSet(q) \subseteq S
         /\ Len(q) \in Nat /\ DOMAIN q = 1 .. Len(q)
         /\ q = <<>> <=> ToSet(q) = {}
         /\ \A x \in S : /\ Append(q, x) \in Seq(S) /\ ToSet(Append(q, x)) = ToSet(q) \cup {x}
                         /\ Append(q, x) # <<>>
<1>1. Len(q) \in Nat /\ DOMAIN q = 1 .. Len(q) /\ \A i \in 1 .. Len(q) : q[i] \in S
  OBVIOUS
<1>2. ToSet(q) = {q[i] : i \in 1 .. Len(q)}  BY <1>1 DEF ToSet
<1>3. q = <<>> <=> ToSet(q) = {}
  <2>1. q = <<>> => ToSet(q) = {}  BY <1>2
  <2>2. q # <<>> => 1 \in 1 .. Len(q)  BY EmptySeq
  <2> QED  BY <1>2, <2>1, <2>2
<1>4. ASSUME NEW x \in S
      PROVE  /\ Append(q, x) \in Seq(S) /\ ToSet(Append(q, x)) = ToSet(q) \cup {x}
             /\ Append(q, x) # <<>>
  <2> DEFINE r == Append(q, x)
  <2>1. /\ r \in Seq(S) /\ r # <<>> /\ Len(r) = Len(q) + 1
        /\ \A i \in 1 .. Len(q) : r[i] = q[i]
        /\ r[Len(q) + 1] = x
    BY AppendProperties
  <2> HIDE DEF r
  <2>2. ToSet(r) = {r[i] : i \in 1 .. Len(q) + 1}  BY <1>1, <2>1 DEF ToSet
  <2>3. \A i \in 1 .. Len(q) + 1 : i \in 1 .. Len(q) \/ i = Len(q) + 1  BY <1>1
  <2>4. ToSet(r) = ToSet(q) \cup {x}
    <3>1. ASSUME NEW y \in ToSet(r) PROVE y \in ToSet(q) \cup {x}
      BY <1>2, <2>1, <2>2, <2>3, <3>1
    <3>2. ASSUME NEW y \in ToSet(q) PROVE y \in ToSet(r)
      <4>1. PICK i \in 1 .. Len(q) : y = q[i]  BY <1>2, <3>2
      <4>2. i \in 1 .. Len(q) + 1 /\ r[i] = y  BY <1>1, <2>1, <4>1
      <4> QED  BY <2>2, <4>2
    <3>3. x \in ToSet(r)
      <4>1. Len(q) + 1 \in 1 .. Len(q) + 1  BY <1>1
      <4> QED  BY <2>1, <2>2, <4>1
    <3> QED  BY <3>1, <3>2, <3>3
  <2> QED  BY <2>1, <2>4 DEF r
<1> QED  BY <1>1, <1>2, <1>3, <1>4

(* The sequence of a finite set holds its members. *)
LEMMA SetToSeqIs ==
  ASSUME NEW S, IsFiniteSet(S)
  PROVE  SetToSeq(S) \in Seq(S) /\ ToSet(SetToSeq(S)) = S
<1> DEFINE n == Cardinality(S)
           q == SetToSeq(S)
<1>1. n \in Nat /\ ExistsBijection(1 .. n, S)  BY FS_CardinalityType
<1>2. \E f \in [1 .. n -> S] : IsInjective(f)
  BY <1>1 DEF ExistsBijection, Bijection, Injection
<1>3. q \in [1 .. n -> S] /\ IsInjective(q)  BY <1>2 DEF SetToSeq
<1> HIDE DEF n, q
<1>4. q \in Injection(1 .. n, S)  BY <1>3 DEF Injection
<1>5. Cardinality(1 .. n) = n
  <2>1. 0 \in Int /\ 1 \in Int /\ n \in Int  BY <1>1
  <2>2. Cardinality(1 .. n) = IF 1 > n THEN 0 ELSE n - 1 + 1  BY <2>1, FS_Interval
  <2> QED  BY <1>1, <2>2
<1>6. q \in Surjection(1 .. n, S)  BY <1>4, <1>5, FS_Injection DEF n
<1>7. \A x \in S : \E i \in 1 .. n : q[i] = x  BY <1>6 DEF Surjection
<1>8. q \in Seq(S) /\ DOMAIN q = 1 .. n  BY <1>1, <1>3
<1>9. ToSet(q) = S
  <2>1. ToSet(q) = {q[i] : i \in 1 .. n}  BY <1>8 DEF ToSet
  <2> QED  BY <1>3, <1>7, <2>1
<1> QED  BY <1>8, <1>9 DEF q
=============================================================================
