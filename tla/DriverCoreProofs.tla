--------------------------- MODULE DriverCoreProofs ---------------------------
(***************************************************************************)
(* Proofs about the driver core, for every number of cores and devices.    *)
(***************************************************************************)
EXTENDS DriverCore, TLAPS

(* The calls a core is in: a nested one only over a callback, and nothing  *)
(* nests in it.                                                            *)
StackOK(s) ==
  /\ s \in Seq(Frames) /\ Len(s) <= 2
  /\ Len(s) = 2 => s[2].at \in {"body", "end"} /\ stepsIn[s[1].dev] = 0

Scans == {NoScan} \cup [op : Ops, order : 0 .. MaxOrder, ptr : 1 .. N + 1]

Cells ==
  /\ exec \in [Dev -> {0, 1}] /\ con \in Consoles \cup {0}
  /\ up \in [Dev -> BOOLEAN] /\ called \in [Dev -> Int]
  /\ raced \in [Dev -> BOOLEAN] /\ failed \in BOOLEAN
  /\ stack \in [Cores -> Seq(Frames)] /\ scan \in [Cores -> Scans]
  /\ \A c \in Cores : StackOK(stack[c])

(* The core c is at the point at of a call for d. *)
At(c, d, at) == stack[c] # <<>> /\ stack[c][1].dev = d /\ stack[c][1].at = at
Claims(c, d) == At(c, d, "claim") \/ At(c, d, "call")

(* As long as no two calls for d met between their test and their call, at *)
(* most one core is there, it found exec as its test needs it, and exec    *)
(* and the callbacks part only between its claim and its call.             *)
Mirror(d) ==
  ~percpu[d] /\ ~raced[d] =>
    /\ \A c, e \in Cores : Claims(c, d) /\ Claims(e, d) => c = e
    /\ \A c \in Cores :
         At(c, d, "claim") => /\ exec[d] = IF stack[c][1].op = "setup" THEN 0 ELSE 1
                              /\ called[d] = exec[d]
    /\ \A c \in Cores :
         At(c, d, "call") => /\ exec[d] = IF stack[c][1].op = "setup" THEN 1 ELSE 0
                             /\ called[d] = 1 - exec[d]
    /\ (\A c \in Cores : ~Claims(c, d)) => called[d] = exec[d]

ExecInv == Cells /\ \A d \in Dev : Mirror(d)

-----------------------------------------------------------------------------
(* What the operators on the calls of a core return. *)

(* The first and the rest of a sequence of at most two. *)
LEMMA HeadTail ==
  ASSUME NEW S, NEW s \in Seq(S), s # <<>>, Len(s) <= 2
  PROVE  /\ Len(s) = 1 \/ Len(s) = 2
         /\ s[1] \in S /\ Head(s) = s[1]
         /\ Tail(s) \in Seq(S) /\ Len(Tail(s)) = Len(s) - 1
         /\ Len(s) = 2 => Tail(s)[1] = s[2]
         /\ Tail(s) # <<>> => Len(s) = 2
<1>1. Len(s) \in Nat /\ Len(s) # 0
  OBVIOUS
<1>2. Len(s) = 1 \/ Len(s) = 2
  <2> DEFINE n == Len(s)
  <2>1. n \in Nat /\ n # 0 /\ n <= 2
    BY <1>1
  <2> HIDE DEF n
  <2>2. n = 1 \/ n = 2
    BY <2>1
  <2> QED
    BY <2>2 DEF n
<1>3. s[1] \in S /\ Head(s) = s[1] /\ Tail(s) \in Seq(S) /\ Len(Tail(s)) = Len(s) - 1
  BY <1>1
<1>4. Len(s) = 2 => Tail(s)[1] = s[2]
  OBVIOUS
<1>5. Len(s) = 1 => Tail(s) = <<>>
  <2> DEFINE t == Tail(s)
  <2>1. t \in Seq(S) /\ (Len(s) = 1 => Len(t) = 0)
    BY <1>3
  <2> HIDE DEF t
  <2>2. Len(t) = 0 => t = <<>>
    BY <2>1
  <2> QED
    BY <2>1, <2>2 DEF t
<1> QED
  BY <1>2, <1>3, <1>4, <1>5

(* One more at the front of a sequence. *)
LEMMA Push ==
  ASSUME NEW S, NEW f \in S, NEW g \in Seq(S)
  PROVE  LET s == <<f>> \o g
         IN  /\ s \in Seq(S) /\ Len(s) = Len(g) + 1 /\ s # <<>> /\ s[1] = f
             /\ Len(g) = 1 => s[2] = g[1]
<1> DEFINE s == <<f>> \o g
<1>1. s \in Seq(S) /\ Len(s) = Len(g) + 1
  OBVIOUS
<1>2. s[1] = f
  OBVIOUS
<1>3. Len(g) = 1 => s[2] = g[1]
  OBVIOUS
<1>4. Len(s) # 0
  BY <1>1
<1>5. s # <<>>
  <2> HIDE DEF s
  <2> QED
    BY <1>4
<1> QED
  BY <1>1, <1>2, <1>3, <1>5

(* A new call, alone. *)
LEMMA FrameShape ==
  ASSUME NEW op \in Ops, NEW d \in Dev, con \in Consoles \cup {0}
  PROVE  /\ Frame(op, d) \in Frames /\ StackOK(<<Frame(op, d)>>)
         /\ <<Frame(op, d)>>[1].dev = d /\ <<Frame(op, d)>>[1].at = "test"
<1>1. con \in 0 .. N
  BY DriverAssumption DEF Dev
<1>2. Frame(op, d) \in Frames
  BY <1>1 DEF Frame, Frames
<1>3. Frame(op, d).dev = d /\ Frame(op, d).at = "test"
  BY DEF Frame
<1>4. ASSUME NEW f \in Frames PROVE StackOK(<<f>>) /\ <<f>>[1] = f
  BY DEF StackOK
<1> QED
  BY <1>2, <1>3, <1>4

(* The innermost call goes on. *)
LEMMA GotoShape ==
  ASSUME NEW c, StackOK(stack[c]), stack[c] # <<>>,
         NEW at \in {"test", "claim", "call", "body", "end"}
  PROVE  /\ StackOK(Goto(c, at)) /\ Goto(c, at) # <<>> /\ Len(Goto(c, at)) = Len(stack[c])
         /\ Goto(c, at)[1] = [stack[c][1] EXCEPT !.at = at]
         /\ Goto(c, at)[1].dev = stack[c][1].dev /\ Goto(c, at)[1].op = stack[c][1].op
         /\ Goto(c, at)[1].at = at
         /\ Len(stack[c]) = 2 => Goto(c, at)[2] = stack[c][2]
<1> DEFINE s == stack[c]
           f == [s[1] EXCEPT !.at = at]
           g == <<f>> \o Tail(s)
<1> HIDE DEF s
<1>1. s \in Seq(Frames) /\ s # <<>> /\ Len(s) <= 2
      /\ (Len(s) = 2 => s[2].at \in {"body", "end"} /\ stepsIn[s[1].dev] = 0)
  BY DEF s, StackOK
<1>2. /\ Len(s) = 1 \/ Len(s) = 2
      /\ s[1] \in Frames /\ Head(s) = s[1]
      /\ Tail(s) \in Seq(Frames) /\ Len(Tail(s)) = Len(s) - 1
      /\ Len(s) = 2 => Tail(s)[1] = s[2]
  BY <1>1, HeadTail
<1>3. f \in Frames /\ f.dev = s[1].dev /\ f.op = s[1].op /\ f.at = at
  BY <1>2 DEF Frames
<1> HIDE DEF f
<1>4. g \in Seq(Frames) /\ Len(g) = Len(s) /\ g[1] = f /\ (Len(s) = 2 => g[2] = s[2])
  <2> DEFINE t == Tail(s)
  <2>1. t \in Seq(Frames) /\ Len(t) = Len(s) - 1 /\ (Len(s) = 2 => t[1] = s[2])
    BY <1>2
  <2> HIDE DEF t
  <2>2. LET h == <<f>> \o t
        IN  /\ h \in Seq(Frames) /\ Len(h) = Len(t) + 1 /\ h # <<>> /\ h[1] = f
            /\ Len(t) = 1 => h[2] = t[1]
    BY <1>3, <2>1, Push
  <2> QED
    BY <1>2, <2>1, <2>2 DEF t
<1>5. Goto(c, at) = g
  BY <1>2 DEF Goto, Top, s, f
<1> HIDE DEF g
<1>6. StackOK(g) /\ g # <<>>
  BY <1>1, <1>3, <1>4 DEF StackOK
<1> QED
  BY <1>3, <1>4, <1>5, <1>6 DEF s, f

(* The innermost call is over. *)
LEMMA TailShape ==
  ASSUME NEW s, StackOK(s), s # <<>>
  PROVE  StackOK(Tail(s)) /\ (Tail(s) # <<>> => Tail(s)[1].at \in {"body", "end"})
<1>1. s \in Seq(Frames) /\ Len(s) <= 2 /\ (Len(s) = 2 => s[2].at \in {"body", "end"})
  BY DEF StackOK
<1>2. /\ Len(s) = 1 \/ Len(s) = 2
      /\ Tail(s) \in Seq(Frames) /\ Len(Tail(s)) = Len(s) - 1
      /\ Len(s) = 2 => Tail(s)[1] = s[2]
      /\ Tail(s) # <<>> => Len(s) = 2
  BY <1>1, HeadTail
<1> DEFINE t == Tail(s)
<1> HIDE DEF t
<1>3. StackOK(t)
  BY <1>2 DEF StackOK, t
<1> QED
  BY <1>1, <1>2, <1>3 DEF t

(* The innermost call, which replaces a device, calls the core again. *)
Nested(c, op, at) == <<Frame(op, stepsIn[stack[c][1].dev])>> \o Goto(c, at)
(* A console driver's nested call lies on top of the call that makes it. *)
LEMMA NestShape ==
  ASSUME Cells, NEW c \in Cores, stack[c] # <<>>,
         stepsIn[stack[c][1].dev] # 0,
         NEW at \in {"body", "end"}, NEW op \in Ops
  PROVE  /\ Len(stack[c]) = 1
         /\ StackOK(Nested(c, op, at)) /\ Nested(c, op, at) # <<>>
         /\ Nested(c, op, at)[1].at = "test" /\ Len(Nested(c, op, at)) = 2
         /\ Nested(c, op, at)[1] = Frame(op, stepsIn[stack[c][1].dev])
         /\ Nested(c, op, at)[2].dev = stack[c][1].dev
         /\ Nested(c, op, at)[2].op = stack[c][1].op
         /\ Nested(c, op, at)[2].had = stack[c][1].had /\ Nested(c, op, at)[2].at = at
<1> DEFINE d == stack[c][1].dev
           f == Frame(op, stepsIn[d])
           g == Goto(c, at)
           s == <<f>> \o g
<1>1. StackOK(stack[c]) /\ stack[c] \in Seq(Frames)
  BY DEF Cells, StackOK
<1>2. stack[c][1] \in Frames /\ d \in Dev
  <2>1. stack[c][1] \in Frames
    BY <1>1, HeadTail DEF StackOK
  <2> QED
    BY <2>1 DEF Frames
<1>3. stepsIn[d] \in Dev /\ stepsIn[stepsIn[d]] = 0
  BY <1>2, DriverAssumption, SMTT(30) DEF Dev
<1>4. Len(stack[c]) = 1
  <2>1. Len(stack[c]) = 1 \/ Len(stack[c]) = 2
    BY <1>1, HeadTail DEF StackOK
  <2> QED
    BY <1>1, <2>1 DEF StackOK
<1>5. f \in Frames /\ f.dev = stepsIn[d] /\ f.at = "test"
  BY <1>3, FrameShape DEF Cells, Frame
<1>6. StackOK(g) /\ Len(g) = 1 /\ g[1].at = at /\ g[1] = [stack[c][1] EXCEPT !.at = at]
  <2>1. at \in {"test", "claim", "call", "body", "end"}
    OBVIOUS
  <2> QED
    <3>1. StackOK(Goto(c, at)) /\ Len(Goto(c, at)) = Len(stack[c]) /\ Goto(c, at)[1].at = at
          /\ Goto(c, at)[1] = [stack[c][1] EXCEPT !.at = at]
      BY <1>1, <2>1, GotoShape, Zenon
    <3> QED
      BY <1>4, <3>1
<1> HIDE DEF f, g
<1>7. s \in Seq(Frames) /\ Len(s) = 2 /\ s[1] = f /\ s[2] = g[1]
  <2>1. g \in Seq(Frames)
    BY <1>6 DEF StackOK
  <2>2. LET h == <<f>> \o g
        IN  /\ h \in Seq(Frames) /\ Len(h) = Len(g) + 1 /\ h # <<>> /\ h[1] = f
            /\ Len(g) = 1 => h[2] = g[1]
    BY <1>5, <2>1, Push
  <2> QED
    BY <1>6, <2>2
<1> HIDE DEF s
<1>8. StackOK(s) /\ s # <<>> /\ s[1].at = "test"
  BY <1>3, <1>5, <1>6, <1>7 DEF StackOK
<1>9. s[1] = f /\ f = Frame(op, stepsIn[stack[c][1].dev]) /\ s[2] = [stack[c][1] EXCEPT !.at = at]
  BY <1>6, <1>7 DEF f
<1>10. s = Nested(c, op, at)
  BY Zenon DEF s, f, g, Nested
<1>11. /\ s[2].dev = stack[c][1].dev /\ s[2].op = stack[c][1].op /\ s[2].had = stack[c][1].had
       /\ s[2].at = at
  BY <1>2, <1>9 DEF Frames
<1> QED
  BY <1>4, <1>7, <1>8, <1>9, <1>10, <1>11, Zenon

(* What is left of a call after its body. *)
LEMMA EndingShape ==
  ASSUME Cells, NEW c \in Cores, stack[c] # <<>>
  PROVE  StackOK(Ending(c)) /\ (Ending(c) # <<>> => Ending(c)[1].at \in {"test", "body", "end"})
<1>1. StackOK(stack[c]) /\ Top(c) = stack[c][1]
  BY DEF Cells, Top, StackOK
<1>2. CASE stepsIn[Top(c).dev] # 0
  <2>1. Ending(c) = Nested(c, "setup", "end")
    BY <1>1, <1>2 DEF Ending, Nested
  <2>2. "setup" \in Ops
    BY DEF Ops
  <2>3. StackOK(Ending(c)) /\ Ending(c)[1].at = "test"
    <3>1. "end" \in {"body", "end"} /\ stepsIn[stack[c][1].dev] # 0
      BY <1>1, <1>2
    <3> QED
      BY <2>1, <2>2, <3>1, NestShape
  <2> QED
    BY <2>3
<1>3. CASE stepsIn[Top(c).dev] = 0
  <2>1. Ending(c) = Tail(stack[c])
    BY <1>3 DEF Ending
  <2> QED
    BY <1>1, <2>1, TailShape
<1> QED
  BY <1>2, <1>3

-----------------------------------------------------------------------------
(* The top of a core's calls is a call. *)
LEMMA TopShape ==
  ASSUME Cells, NEW c \in Cores, stack[c] # <<>>
  PROVE  /\ StackOK(stack[c]) /\ Top(c) = stack[c][1] /\ stack[c][1] \in Frames
         /\ stack[c][1].dev \in Dev /\ stack[c][1].op \in Ops
<1>1. StackOK(stack[c])
  BY DEF Cells
<1>2. Head(stack[c]) = stack[c][1] /\ stack[c][1] \in Frames
  BY <1>1, HeadTail DEF StackOK
<1> QED
  BY <1>1, <1>2 DEF Top, Frames

(* A step of c in a call for d0 says nothing of another device. *)
LEMMA OthersKept ==
  ASSUME Cells, \A d \in Dev : Mirror(d), NEW c \in Cores, NEW s,
         stack' = [stack EXCEPT ![c] = s],
         NEW d0 \in Dev, stack[c] # <<>>, stack[c][1].dev = d0,
         s # <<>> => s[1].dev = d0 \/ s[1].at \notin {"claim", "call"},
         \A d \in Dev : d # d0 => /\ exec'[d] = exec[d] /\ called'[d] = called[d]
                                  /\ raced[d] => raced'[d]
  PROVE  \A d \in Dev : d # d0 => Mirror(d)'
<1> SUFFICES ASSUME NEW d \in Dev, d # d0 PROVE Mirror(d)'
  OBVIOUS
<1>1. stack'[c] = s /\ \A e \in Cores : e # c => stack'[e] = stack[e]
  BY DEF Cells
<1>2. \A e \in Cores : /\ At(e, d, "claim")' <=> At(e, d, "claim")
                       /\ At(e, d, "call")' <=> At(e, d, "call")
  BY <1>1 DEF At
<1>3. \A e \in Cores : At(e, d, "claim") \/ At(e, d, "call") => stack'[e] = stack[e]
  BY <1>1 DEF At
<1>4. exec'[d] = exec[d] /\ called'[d] = called[d] /\ (~raced'[d] => ~raced[d])
  OBVIOUS
<1>5. Mirror(d)
  OBVIOUS
<1> QED
  BY <1>2, <1>3, <1>4, <1>5 DEF Mirror, Claims

(* A step of c that neither leaves nor reaches the claim. *)
LEMMA QuietStep ==
  ASSUME Cells, \A d \in Dev : Mirror(d), NEW c \in Cores, NEW s,
         stack' = [stack EXCEPT ![c] = s],
         stack[c] # <<>> => stack[c][1].at \notin {"claim", "call"},
         s # <<>> => s[1].at \notin {"claim", "call"},
         \A d \in Dev : /\ exec'[d] = exec[d] /\ called'[d] = called[d]
                        /\ raced[d] => raced'[d]
  PROVE  \A d \in Dev : Mirror(d)'
<1> SUFFICES ASSUME NEW d \in Dev PROVE Mirror(d)'
  OBVIOUS
<1>1. stack'[c] = s /\ \A e \in Cores : e # c => stack'[e] = stack[e]
  BY DEF Cells
<1>2. \A e \in Cores : /\ At(e, d, "claim")' <=> At(e, d, "claim")
                       /\ At(e, d, "call")' <=> At(e, d, "call")
  BY <1>1 DEF At
<1>3. \A e \in Cores : At(e, d, "claim") \/ At(e, d, "call") => stack'[e] = stack[e]
  BY <1>1 DEF At
<1>4. exec'[d] = exec[d] /\ called'[d] = called[d] /\ (~raced'[d] => ~raced[d])
  OBVIOUS
<1>5. Mirror(d)
  OBVIOUS
<1> QED
  BY <1>2, <1>3, <1>4, <1>5 DEF Mirror, Claims

(* The cells a step of c leaves well typed: its calls and the rest. *)
LEMMA StackKept ==
  ASSUME Cells, NEW c \in Cores, NEW s, StackOK(s), stack' = [stack EXCEPT ![c] = s]
  PROVE  stack' \in [Cores -> Seq(Frames)] /\ \A e \in Cores : StackOK(stack'[e])
BY DEF Cells, StackOK

(* driver_setup and driver_exit by name, and the start of the two loops. *)
LEMMA ByNameKeeps ==
  ASSUME ExecInv, NEW c \in Cores, NEW op \in Ops, NEW d \in Dev, ByName(c, op, d)
  PROVE  ExecInv'
<1> DEFINE s == <<Frame(op, d)>>
<1>1. stack' = [stack EXCEPT ![c] = s] /\ stack[c] = <<>>
      /\ UNCHANGED <<exec, con, scan, up, called, raced, failed>>
  BY DEF ByName, SetStack, Idle, InCall
<1>2. StackOK(s) /\ s[1].at = "test"
  BY FrameShape DEF ExecInv, Cells
<1> HIDE DEF s
<1>3. stack' \in [Cores -> Seq(Frames)] /\ \A e \in Cores : StackOK(stack'[e])
  BY <1>1, <1>2, StackKept DEF ExecInv
<1>4. Cells'
  BY <1>1, <1>3 DEF ExecInv, Cells
<1>5. \A x \in Dev : Mirror(x)'
  BY <1>1, <1>2, QuietStep DEF ExecInv
<1> QED
  BY <1>4, <1>5 DEF ExecInv

(* driver_setup_all and driver_exit_all start with nothing done yet. *)
LEMMA AllKeeps ==
  ASSUME ExecInv, NEW c \in Cores, NEW op \in Ops, All(c, op)
  PROVE  ExecInv'
<1>1. UNCHANGED <<exec, con, stack, up, called, raced, failed>>
  BY DEF All
<1>2. [op |-> op, ptr |-> 1, order |-> IF op = "setup" THEN 0 ELSE MaxOrder] \in Scans
  BY DriverAssumption DEF Scans
<1>3. scan' \in [Cores -> Scans]
  BY <1>2 DEF ExecInv, Cells, All
<1>4. Cells'
  BY <1>1, <1>3 DEF ExecInv, Cells
<1>5. \A x \in Dev : Mirror(x)'
  BY <1>1 DEF ExecInv, Mirror, Claims, At
<1> QED
  BY <1>4, <1>5 DEF ExecInv

(* The loops of driver_setup_all and driver_exit_all. *)
LEMMA ScanKeeps ==
  ASSUME ExecInv, NEW c \in Cores, Scan(c)
  PROVE  ExecInv'
<1> DEFINE s == scan[c]
<1>1. s \in [op : Ops, order : 0 .. MaxOrder, ptr : 1 .. N + 1] /\ stack[c] = <<>>
      /\ UNCHANGED <<exec, con, up, called, raced, failed>>
  BY DEF Scan, ExecInv, Cells, Scans, InCall
<1>2. s.ptr \in 1 .. N + 1 /\ s.order \in 0 .. MaxOrder /\ s.op \in Ops
  BY <1>1
<1>3. CASE /\ s.ptr <= N
           /\ scan' = [scan EXCEPT ![c].ptr = @ + 1]
           /\ IF sorder[s.ptr] = s.order
                THEN SetStack(c, <<Frame(s.op, s.ptr)>>) ELSE UNCHANGED stack
  <2>1. s.ptr \in Dev
    BY <1>2, <1>3, DriverAssumption DEF Dev
  <2>2. s.ptr + 1 \in 1 .. N + 1
    BY <1>2, <1>3, DriverAssumption
  <2>3. [s EXCEPT !.ptr = @ + 1] \in Scans
    BY <1>1, <2>2 DEF Scans
  <2>4. scan' = [scan EXCEPT ![c] = [s EXCEPT !.ptr = @ + 1]]
    BY <1>3
  <2>5. scan' \in [Cores -> Scans]
    BY <2>3, <2>4 DEF ExecInv, Cells
  <2>6. PICK t : /\ StackOK(t) /\ (t # <<>> => t[1].at \notin {"claim", "call"})
                 /\ stack' = [stack EXCEPT ![c] = t]
    <3>1. CASE sorder[s.ptr] = s.order
      <4>1. StackOK(<<Frame(s.op, s.ptr)>>) /\ <<Frame(s.op, s.ptr)>>[1].at = "test"
        BY <1>2, <2>1, FrameShape DEF ExecInv, Cells
      <4>2. stack' = [stack EXCEPT ![c] = <<Frame(s.op, s.ptr)>>]
        BY <1>3, <3>1 DEF SetStack
      <4> QED
        BY <4>1, <4>2
    <3>2. CASE sorder[s.ptr] # s.order
      <4>1. stack' = [stack EXCEPT ![c] = stack[c]]
        BY <1>3, <3>2 DEF ExecInv, Cells
      <4>2. StackOK(stack[c])
        BY DEF ExecInv, Cells
      <4> QED
        BY <1>1, <4>1, <4>2
    <3> QED
      BY <3>1, <3>2
  <2>7. stack' \in [Cores -> Seq(Frames)] /\ \A e \in Cores : StackOK(stack'[e])
    BY <2>6, StackKept DEF ExecInv
  <2>8. Cells'
    BY <1>1, <2>5, <2>7 DEF ExecInv, Cells
  <2>9. \A x \in Dev : Mirror(x)'
    BY <1>1, <2>6, QuietStep DEF ExecInv
  <2> QED
    BY <2>8, <2>9 DEF ExecInv
<1>4. CASE /\ UNCHANGED stack
           /\ \E next : scan' = [scan EXCEPT ![c] = IF next \in 0 .. MaxOrder
                                             THEN [s EXCEPT !.order = next, !.ptr = 1]
                                             ELSE NoScan]
  <2>1. 1 \in 1 .. N + 1
    BY DriverAssumption
  <2>2. \A n \in 0 .. MaxOrder : [s EXCEPT !.order = n, !.ptr = 1] \in Scans
    BY <1>1, <2>1 DEF Scans
  <2>3. NoScan \in Scans
    BY DEF Scans
  <2>4. scan' \in [Cores -> Scans]
    BY <1>4, <2>2, <2>3 DEF ExecInv, Cells
  <2>5. Cells'
    BY <1>1, <1>4, <2>4 DEF ExecInv, Cells
  <2>6. \A x \in Dev : Mirror(x)'
    BY <1>1, <1>4 DEF ExecInv, Mirror, Claims, At
  <2> QED
    BY <2>5, <2>6 DEF ExecInv
<1> QED
  BY <1>3, <1>4 DEF Scan

(* The test of exec. *)
LEMMA TestKeeps ==
  ASSUME ExecInv, NEW c \in Cores, Test(c)
  PROVE  ExecInv'
<1> USE DEF ExecInv
<1> DEFINE f == stack[c][1]
<1>0. PICK d0 \in Dev : d0 = f.dev
  BY TopShape DEF Test, Claim, Call, TopAt, InCall
<1> DEFINE s == IF percpu[d0] THEN Goto(c, "call")
                ELSE IF exec[d0] = (IF f.op = "setup" THEN 1 ELSE 0) THEN Tail(stack[c])
                ELSE Goto(c, "claim")
<1>1. /\ stack[c] # <<>> /\ f.at = "test" /\ f.dev = d0 /\ f.op \in Ops /\ Top(c) = f
      /\ StackOK(stack[c])
  BY <1>0, TopShape DEF Test, TopAt, InCall
<1>2. /\ stack' = [stack EXCEPT ![c] = s]
      /\ raced' = [raced EXCEPT ![d0] = @ \/ Claiming(c, d0)]
      /\ UNCHANGED <<exec, con, scan, up, called, failed>>
  BY <1>1 DEF Test, SetStack
<1>3. /\ StackOK(Goto(c, "call")) /\ Goto(c, "call")[1].dev = d0
      /\ StackOK(Goto(c, "claim")) /\ Goto(c, "claim")[1].dev = d0
      /\ Goto(c, "claim")[1].at = "claim" /\ Goto(c, "claim")[1].op = f.op
      /\ Goto(c, "claim") # <<>>
  BY <1>1, GotoShape
<1>4. StackOK(Tail(stack[c])) /\ (Tail(stack[c]) # <<>> => Tail(stack[c])[1].at \in {"body", "end"})
  BY <1>1, TailShape
<1>5. StackOK(s) /\ (s # <<>> => s[1].dev = d0 \/ s[1].at \notin {"claim", "call"})
  BY <1>3, <1>4
<1>6. /\ raced' \in [Dev -> BOOLEAN]
      /\ raced'[d0] <=> raced[d0] \/ Claiming(c, d0)
      /\ \A d \in Dev : raced[d] => raced'[d]
      /\ \A d \in Dev : d # d0 => raced'[d] = raced[d]
  <2>1. (raced[d0] \/ Claiming(c, d0)) \in BOOLEAN
    BY Zenon
  <2>2. raced \in [Dev -> BOOLEAN]
    BY DEF Cells
  <2>3. raced' \in [Dev -> BOOLEAN] /\ raced'[d0] = (raced[d0] \/ Claiming(c, d0))
        /\ \A d \in Dev : d # d0 => raced'[d] = raced[d]
    BY <1>1, <1>2, <2>1, <2>2, Zenon
  <2> QED
    BY <1>1, <2>2, <2>3, Zenon
<1>7. Cells'
  <2>1. stack' \in [Cores -> Seq(Frames)] /\ \A e \in Cores : StackOK(stack'[e])
    <3> HIDE DEF s
    <3> QED
      BY <1>2, <1>5, StackKept
  <2> QED
    BY <1>2, <1>6, <2>1 DEF Cells
<1>8. \A d \in Dev : d # d0 => Mirror(d)'
  <2> HIDE DEF s
  <2>1. \A d \in Dev : d # d0 => /\ exec'[d] = exec[d] /\ called'[d] = called[d]
                                 /\ raced[d] => raced'[d]
    BY <1>2, <1>6
  <2> QED
    BY <1>1, <1>2, <1>5, <2>1, OthersKept, ZenonT(60)
<1>9. Mirror(d0)'
  <2>1. CASE percpu[d0]
    BY <2>1 DEF Mirror
  <2>2. CASE ~percpu[d0] /\ exec[d0] = (IF f.op = "setup" THEN 1 ELSE 0)
    <3>1. s = Tail(stack[c])
      BY <2>2
    <3>2. s # <<>> => s[1].at \notin {"claim", "call"}
      BY <1>4, <3>1
    <3>3. \A d \in Dev : Mirror(d)'
      <4> HIDE DEF s
      <4> QED
        BY <1>1, <1>2, <1>6, <3>2, QuietStep
    <3> QED
      BY <1>1, <3>3
  <2>3. CASE ~percpu[d0] /\ exec[d0] # (IF f.op = "setup" THEN 1 ELSE 0)
    <3> SUFFICES ASSUME ~raced'[d0] PROVE Mirror(d0)'
      BY DEF Mirror
    <3>1. ~raced[d0] /\ ~Claiming(c, d0)
      BY <1>6, Zenon
    <3>2. \A e \in Cores : ~Claims(e, d0)
      <4> SUFFICES ASSUME NEW e \in Cores, Claims(e, d0) PROVE FALSE
        OBVIOUS
      <4>1. stack[e] # <<>> /\ stack[e][1].dev = d0 /\ stack[e][1].at \in {"claim", "call"}
        BY DEF Claims, At
      <4>2. e # c
        BY <1>1, <4>1
      <4>3. 1 \in 1 .. Len(stack[e])
        <5>1. StackOK(stack[e])
          BY DEF Cells
        <5>2. Len(stack[e]) = 1 \/ Len(stack[e]) = 2
          BY <4>1, <5>1, HeadTail DEF StackOK
        <5>3. \A n : n = 1 \/ n = 2 => 1 \in 1 .. n
          OBVIOUS
        <5> QED
          BY <5>2, <5>3, Zenon
      <4> QED
        BY <3>1, <4>1, <4>2, <4>3, Zenon DEF Claiming
    <3>3. called[d0] = exec[d0]
      BY <1>1, <2>3, <3>1, <3>2 DEF Mirror
    <3>4. exec[d0] = IF f.op = "setup" THEN 0 ELSE 1
      <4>1. exec[d0] \in {0, 1}
        BY <1>1 DEF Cells
      <4> QED
        BY <2>3, <4>1
    <3>5. stack'[c] = Goto(c, "claim") /\ \A e \in Cores : e # c => stack'[e] = stack[e]
      BY <1>2, <2>3 DEF Cells
    <3>6. stack'[c] # <<>> /\ stack'[c][1].dev = d0 /\ stack'[c][1].at = "claim"
          /\ stack'[c][1].op = f.op
      BY <1>3, <3>5
    <3>7. \A e \in Cores : e # c => ~Claims(e, d0)'
      BY <3>2, <3>5 DEF Claims, At
    <3>8. At(c, d0, "claim")' /\ ~At(c, d0, "call")'
      BY <3>6 DEF At
    <3>9. exec'[d0] = exec[d0] /\ called'[d0] = called[d0]
      BY <1>2
    <3> QED
      BY <3>3, <3>4, <3>6, <3>7, <3>8, <3>9 DEF Mirror, Claims
  <2> QED
    BY <2>1, <2>2, <2>3
<1> QED
  BY <1>7, <1>8, <1>9

(* The claim of exec. *)
LEMMA ClaimKeeps ==
  ASSUME ExecInv, NEW c \in Cores, Claim(c)
  PROVE  ExecInv'
<1> USE DEF ExecInv
<1> DEFINE f == stack[c][1]
<1>0. PICK d0 \in Dev : d0 = f.dev
  BY TopShape DEF Test, Claim, Call, TopAt, InCall
<1> DEFINE s == Goto(c, "call")
           v == IF f.op = "setup" THEN 1 ELSE 0
<1>1. /\ stack[c] # <<>> /\ f.at = "claim" /\ f.dev = d0 /\ f.op \in Ops /\ Top(c) = f
      /\ StackOK(stack[c])
  BY <1>0, TopShape DEF Claim, TopAt, InCall
<1>2. /\ stack' = [stack EXCEPT ![c] = s] /\ exec' = [exec EXCEPT ![d0] = v]
      /\ UNCHANGED <<con, scan, up, called, raced, failed>>
  BY <1>1 DEF Claim, SetStack
<1>3. StackOK(s) /\ s[1].dev = d0 /\ s[1].op = f.op /\ s[1].at = "call" /\ s # <<>>
  BY <1>1, GotoShape
<1> HIDE DEF s
<1>4. exec' \in [Dev -> {0, 1}] /\ exec'[d0] = v /\ \A d \in Dev : d # d0 => exec'[d] = exec[d]
  BY <1>1, <1>2 DEF Cells
<1>5. Cells'
  <2>1. stack' \in [Cores -> Seq(Frames)] /\ \A e \in Cores : StackOK(stack'[e])
    BY <1>2, <1>3, StackKept
  <2> QED
    BY <1>2, <1>4, <2>1 DEF Cells
<1>6. \A d \in Dev : d # d0 => Mirror(d)'
  <2>1. \A d \in Dev : d # d0 => /\ exec'[d] = exec[d] /\ called'[d] = called[d]
                                 /\ raced[d] => raced'[d]
    BY <1>2, <1>4
  <2>2. s # <<>> => s[1].dev = d0 \/ s[1].at \notin {"claim", "call"}
    BY <1>3
  <2> QED
    BY <1>1, <1>2, <2>1, <2>2, OthersKept, ZenonT(60)
<1>7. Mirror(d0)'
  <2> SUFFICES ASSUME ~percpu[d0], ~raced[d0] PROVE Mirror(d0)'
    BY <1>2 DEF Mirror
  <2>1. At(c, d0, "claim")
    BY <1>1 DEF At
  <2>2. exec[d0] = 1 - v /\ called[d0] = exec[d0]
    BY <1>1, <2>1 DEF Mirror
  <2>3. \A e \in Cores : Claims(e, d0) => e = c
    BY <1>1, <2>1 DEF Mirror, Claims
  <2>4. stack'[c] = s /\ \A e \in Cores : e # c => stack'[e] = stack[e]
    BY <1>2 DEF Cells
  <2>5. \A e \in Cores : e # c => ~Claims(e, d0)'
    BY <2>3, <2>4 DEF Claims, At
  <2>6. At(c, d0, "call")' /\ ~At(c, d0, "claim")'
    BY <1>3, <2>4 DEF At
  <2>7. called'[d0] = 1 - exec'[d0] /\ exec'[d0] = IF stack'[c][1].op = "setup" THEN 1 ELSE 0
    BY <1>2, <1>3, <1>4, <2>2, <2>4
  <2> QED
    BY <2>5, <2>6, <2>7 DEF Mirror, Claims
<1> QED
  BY <1>5, <1>6, <1>7

(* The call of driver_setup or driver_exit. *)
LEMMA CallKeeps ==
  ASSUME ExecInv, NEW c \in Cores, Call(c)
  PROVE  ExecInv'
<1> USE DEF ExecInv
<1> DEFINE f == stack[c][1]
<1>0. PICK d0 \in Dev : d0 = f.dev
  BY TopShape DEF Test, Claim, Call, TopAt, InCall
<1> DEFINE s == IF f.op = "setup" /\ stepsIn[d0] # 0
                  THEN <<Frame("exit", stepsIn[d0])>> \o Goto(c, "body") ELSE Goto(c, "body")
<1>1. /\ stack[c] # <<>> /\ f.at = "call" /\ f.dev = d0 /\ f.op \in Ops /\ Top(c) = f
      /\ StackOK(stack[c])
  BY <1>0, TopShape DEF Call, TopAt, InCall
<1>2. /\ stack' = [stack EXCEPT ![c] = s] /\ called' = [called EXCEPT ![d0] = Counted(f)]
      /\ up' = (IF f.op = "setup" THEN up ELSE [up EXCEPT ![d0] = FALSE])
      /\ con' = (IF f.op # "setup" /\ d0 \in Consoles THEN 0 ELSE con)
      /\ UNCHANGED <<exec, scan, raced, failed>>
  BY <1>1 DEF Call, SetStack
<1>3. StackOK(s) /\ (s # <<>> => s[1].at \notin {"claim", "call"})
  <2>1. StackOK(Goto(c, "body")) /\ Goto(c, "body")[1].at = "body"
    BY <1>1, GotoShape
  <2>2. CASE f.op = "setup" /\ stepsIn[d0] # 0
    <3>1. "exit" \in Ops
      BY DEF Ops
    <3>2. s = Nested(c, "exit", "body")
      BY <1>0, <2>2 DEF Nested
    <3> HIDE DEF s
    <3>3. StackOK(s) /\ s[1].at = "test"
      <4>1. "body" \in {"body", "end"} /\ stepsIn[stack[c][1].dev] # 0
        BY <1>0, <2>2
      <4> QED
        BY <1>1, <3>1, <3>2, <4>1, NestShape, Zenon
    <3> QED
      BY <3>3
  <2> QED
    BY <2>1, <2>2
<1> HIDE DEF s
<1>4. /\ called' \in [Dev -> Int] /\ called'[d0] = Counted(f)
      /\ \A d \in Dev : d # d0 => called'[d] = called[d]
  <2>1. Counted(f) \in Int
    BY <1>1 DEF Counted, Cells
  <2> HIDE DEF f
  <2> QED
    BY <1>1, <1>2, <2>1 DEF Cells
<1>5. Cells'
  <2>1. stack' \in [Cores -> Seq(Frames)] /\ \A e \in Cores : StackOK(stack'[e])
    BY <1>2, <1>3, StackKept
  <2>2. up' \in [Dev -> BOOLEAN]
    BY <1>1, <1>2 DEF Cells
  <2>3. con' \in Consoles \cup {0}
    BY <1>2 DEF Cells
  <2> QED
    BY <1>2, <1>4, <2>1, <2>2, <2>3 DEF Cells
<1>6. \A d \in Dev : d # d0 => Mirror(d)'
  <2> QED
    BY <1>1, <1>2, <1>3, <1>4, OthersKept, ZenonT(60)
<1>7. Mirror(d0)'
  <2> SUFFICES ASSUME ~percpu[d0], ~raced[d0] PROVE Mirror(d0)'
    BY <1>2 DEF Mirror
  <2>1. At(c, d0, "call")
    BY <1>1 DEF At
  <2>2. exec[d0] = (IF f.op = "setup" THEN 1 ELSE 0) /\ called[d0] = 1 - exec[d0]
    BY <1>1, <2>1 DEF Mirror
  <2>3. \A e \in Cores : Claims(e, d0) => e = c
    BY <1>1, <2>1 DEF Mirror, Claims
  <2>4. stack'[c] = s /\ \A e \in Cores : e # c => stack'[e] = stack[e]
    BY <1>2 DEF Cells
  <2>5. \A e \in Cores : ~Claims(e, d0)'
    BY <1>3, <2>3, <2>4 DEF Claims, At
  <2>6. Counted(f) = called[d0] + (IF f.op = "setup" THEN 1 ELSE -1)
    BY <1>0 DEF Counted
  <2>7. called'[d0] = exec'[d0]
    BY <1>2, <1>4, <2>2, <2>6
  <2> QED
    BY <2>5, <2>7 DEF Mirror, Claims
<1> QED
  BY <1>5, <1>6, <1>7

(* The callbacks' ends and the returns. *)
LEMMA EndsKeep ==
  ASSUME ExecInv, NEW c \in Cores, Started(c) \/ NotStarted(c) \/ Stopped(c) \/ Return(c)
  PROVE  ExecInv'
<1> USE DEF ExecInv
<1> DEFINE f == stack[c][1]
           d0 == f.dev
<1>1. stack[c] # <<>> /\ d0 \in Dev /\ Top(c) = f /\ StackOK(stack[c])
  BY TopShape DEF Started, NotStarted, Stopped, Return, TopAt, InCall
<1>2. f.at \in {"body", "end"}
  BY <1>1 DEF Started, NotStarted, Stopped, Return, TopAt
<1>3. PICK s : /\ StackOK(s) /\ (s # <<>> => s[1].at \notin {"claim", "call"})
               /\ stack' = [stack EXCEPT ![c] = s]
  <2>1. StackOK(Tail(stack[c])) /\ (Tail(stack[c]) # <<>> => Tail(stack[c])[1].at \in {"body", "end"})
    BY <1>1, TailShape
  <2>2. StackOK(Ending(c)) /\ (Ending(c) # <<>> => Ending(c)[1].at \in {"test", "body", "end"})
    BY <1>1, EndingShape
  <2>3. stack' = [stack EXCEPT ![c] = Tail(stack[c])] \/ stack' = [stack EXCEPT ![c] = Ending(c)]
    BY DEF Started, NotStarted, Stopped, Return, SetStack
  <2> QED
    BY <2>1, <2>2, <2>3
<1>4. UNCHANGED <<exec, scan, called, raced>>
  BY DEF Started, NotStarted, Stopped, Return
<1>5. up' \in [Dev -> BOOLEAN]
  BY <1>1 DEF Started, NotStarted, Stopped, Return, Cells
<1>6. con' \in Consoles \cup {0}
  BY <1>1 DEF Started, NotStarted, Stopped, Return, Cells
<1>7. failed' \in BOOLEAN
  BY DEF Started, NotStarted, Stopped, Return, Cells
<1>8. Cells'
  <2>1. stack' \in [Cores -> Seq(Frames)] /\ \A e \in Cores : StackOK(stack'[e])
    BY <1>3, StackKept
  <2> QED
    BY <1>4, <1>5, <1>6, <1>7, <2>1 DEF Cells
<1>9. \A d \in Dev : Mirror(d)'
  BY <1>2, <1>3, <1>4, QuietStep
<1> QED
  BY <1>8, <1>9

(* At power on no driver was set up. *)
LEMMA ExecInit == Init => ExecInv
<1> SUFFICES ASSUME Init PROVE ExecInv
  OBVIOUS
<1>1. <<>> \in Seq(Frames) /\ Len(<<>>) = 0
  OBVIOUS
<1>2. StackOK(<<>>)
  BY <1>1 DEF StackOK
<1>3. stack \in [Cores -> Seq(Frames)] /\ \A c \in Cores : stack[c] = <<>> /\ StackOK(stack[c])
  BY <1>1, <1>2 DEF Init
<1>4. scan \in [Cores -> Scans]
  BY DEF Init, Scans
<1>5. /\ exec \in [Dev -> {0, 1}] /\ called \in [Dev -> Int] /\ con \in Consoles \cup {0}
      /\ \A d \in Dev : called[d] = exec[d]
  BY DEF Init
<1>6. up \in [Dev -> BOOLEAN] /\ raced \in [Dev -> BOOLEAN] /\ failed \in BOOLEAN
  BY DEF Init
<1>7. Cells
  BY <1>3, <1>4, <1>5, <1>6 DEF Cells
<1>8. \A d \in Dev : Mirror(d)
  BY <1>3, <1>5 DEF Mirror, Claims, At
<1> QED
  BY <1>7, <1>8 DEF ExecInv

(* Every step of every core keeps the invariant of exec. *)
LEMMA ExecStep == ExecInv /\ [Next]_vars => ExecInv'
<1> SUFFICES ASSUME ExecInv, [Next]_vars PROVE ExecInv'
  OBVIOUS
<1>1. CASE UNCHANGED vars
  BY <1>1 DEF vars, ExecInv, Cells, Mirror, Claims, At
<1>2. CASE Next
  <2>1. PICK c \in Cores : \/ \E op \in Ops : All(c, op) \/ \E d \in Dev : ByName(c, op, d)
                           \/ Working(c)
    BY <1>2 DEF Next
  <2> QED
    BY <2>1, AllKeeps, ByNameKeeps, ScanKeeps, TestKeeps, ClaimKeeps, CallKeeps, EndsKeep,
       Zenon DEF Working
<1> QED
  BY <1>1, <1>2

(* The invariant says what ExecExact promises. *)
LEMMA ExecInvExact == ExecInv => ExecExact
<1> SUFFICES ASSUME ExecInv PROVE ExecExact
  OBVIOUS
<1>1. \A c \in Cores : \A i \in 1 .. Len(stack[c]) : stack[c][i] \in Frames
  BY DEF ExecInv, Cells
<1>2. TypeOK
  BY <1>1 DEF ExecInv, Cells, TypeOK, StackOK, Scans
<1>3. ExecMirrors
  <2> SUFFICES ASSUME NEW d \in Dev, ~percpu[d], ~raced[d],
                      ~ \E c \in Cores : \E i \in 1 .. Len(stack[c]) :
                          /\ stack[c][i].dev = d /\ stack[c][i].at = "call"
                          /\ called[d] = 1 - exec[d]
               PROVE  called[d] = exec[d]
    BY Zenon DEF ExecMirrors
  <2>1. Mirror(d)
    BY DEF ExecInv
  <2>2. \A c \in Cores : ~At(c, d, "call")
    <3> SUFFICES ASSUME NEW c \in Cores, At(c, d, "call") PROVE FALSE
      OBVIOUS
    <3>1. called[d] = 1 - exec[d]
      BY <2>1 DEF Mirror
    <3>2. stack[c] # <<>> /\ stack[c][1].dev = d /\ stack[c][1].at = "call"
      BY DEF At
    <3>3. Len(stack[c]) = 1 \/ Len(stack[c]) = 2
      BY <3>2, HeadTail DEF ExecInv, Cells, StackOK
    <3>4. 1 \in 1 .. Len(stack[c])
      <4>1. \A n : n = 1 \/ n = 2 => 1 \in 1 .. n
        OBVIOUS
      <4> QED
        BY <3>3, <4>1, Zenon
    <3> QED
      BY <3>1, <3>2, <3>4, Zenon
  <2>3. CASE \E c \in Cores : At(c, d, "claim")
    BY <2>1, <2>3 DEF Mirror
  <2>4. CASE ~ \E c \in Cores : At(c, d, "claim")
    BY <2>1, <2>2, <2>4 DEF Mirror, Claims
  <2> QED
    BY <2>3, <2>4
<1> QED
  BY <1>2, <1>3 DEF ExecExact

(* driver.c, for every number of cores, table of devices and callback that  *)
(* fails: exec says what was done to a device, as long as no two calls for  *)
(* it met between the test of exec and the callback; and the calls nest two *)
(* deep at most.                                                            *)
THEOREM ExecCorrect == Spec => []ExecExact
<1>1. Spec => []ExecInv
  BY ExecInit, ExecStep, PTL DEF Spec
<1> QED
  BY <1>1, ExecInvExact, PTL

-----------------------------------------------------------------------------
(* One core, and a console that replaces the early console.                *)

(* What the table and the callers of the repository's projects are like:   *)
(* the console m replaces the early console e, which is started before it, *)
(* and nobody starts e while m is in use.                                  *)
OneCore(c, m, e) ==
  /\ Cores = {c} /\ Disciplined
  /\ m \in Dev /\ e \in Dev /\ m # e /\ Consoles = {m, e}
  /\ stepsIn[m] = e /\ \A d \in Dev : d # m => stepsIn[d] = 0
  /\ ~percpu[m] /\ ~percpu[e]
  /\ sorder[e] < sorder[m] /\ e \notin MayFail

Depth(c) == Len(stack[c])

(* Only m calls the core again: to stop e before it starts, to start e     *)
(* after it was stopped or could not start.                                *)
Nesting(c, m, e) ==
  /\ Depth(c) = 2 =>
       /\ stack[c][2].dev = m /\ stack[c][1].dev = e /\ stack[c][1].at # "end"
       /\ stack[c][2].at = "body" => stack[c][2].op = "setup" /\ stack[c][1].op = "exit"
       /\ stack[c][2].at = "end" => stack[c][1].op = "setup"
  /\ Depth(c) = 1 /\ stack[c][1].at = "end" => stack[c][1].dev = m

(* A console in its callback is not up, e is down when m starts, and m is  *)
(* not up when e is started.                                               *)
Bodies(c, m, e) ==
  /\ Depth(c) > 0 /\ stack[c][1].at = "body" /\ stack[c][1].dev \in {m, e} =>
       /\ ~up[stack[c][1].dev]
       /\ called[stack[c][1].dev] = IF stack[c][1].op = "setup" THEN 1 ELSE 0
  /\ Depth(c) = 2 => ~up[m] /\ (stack[c][2].at = "body" => called[m] = 1)
  /\ Depth(c) = 1 /\ stack[c][1].dev = m /\ stack[c][1].op = "setup" /\ stack[c][1].at = "body" =>
       called[e] = 0
  /\ Depth(c) > 0 /\ stack[c][1].dev = e /\ stack[c][1].op = "setup" => ~up[m]

Ups(m, e) ==
  /\ up[m] => called[m] = 1 /\ called[e] = 0
  /\ up[e] => called[e] = 1

Attached(m, e) ==
  /\ con # 0 => up[con]
  /\ ~failed => (up[m] => con = m) /\ (up[e] => con = e)

(* Unless a setup failed, a console that was started and is not up is in   *)
(* its setup.                                                              *)
ComesUp(c, m, e) ==
  ~failed => \A d \in {m, e} : called[d] = 1 /\ ~up[d] =>
    \/ /\ Depth(c) > 0 /\ stack[c][1].dev = d
       /\ stack[c][1].op = "setup" /\ stack[c][1].at = "body"
    \/ Depth(c) = 2 /\ d = m /\ stack[c][2].at = "body"

(* driver_setup_all has not come to m before it has passed e. *)
SetupScan(c, m, e) ==
  scan[c].op = "setup" /\ scan[c].order <= sorder[e] =>
    called[m] = 0 /\ Depth(c) # 2 /\ (Depth(c) = 1 => stack[c][1].dev # m)

(* A call that found a console attached still finds one, or will attach    *)
(* one before it returns.                                                  *)
Restores(c, m, e) ==
  /\ Depth(c) = 1 /\ stack[c][1].op = "setup" /\ stack[c][1].had # 0 =>
       con # 0 \/ (stack[c][1].dev = m /\ stack[c][1].at = "body")
  /\ Depth(c) = 1 /\ stack[c][1].op = "exit" /\ stack[c][1].dev = m /\ stack[c][1].had = m =>
       /\ stack[c][1].at \in {"test", "claim", "call"} => con = m
       /\ stack[c][1].at = "body" => called[e] = 0
       /\ stack[c][1].at = "end" => con # 0
  /\ /\ Depth(c) = 2 /\ stack[c][2].at = "end" /\ stack[c][1].at = "test"
     /\ stack[c][2].had = m \/ (stack[c][2].op = "setup" /\ stack[c][2].had # 0)
     => called[e] = 0

(* driver_exit_all has come to d. *)
Passed(c, d) == sorder[d] > scan[c].order \/ (sorder[d] = scan[c].order /\ d < scan[c].ptr)

(* A device that driver_exit_all has passed is stopped, or about to be. *)
ExitScan(c, m) ==
  scan[c].op = "exit" =>
    /\ Depth(c) = 1 => stack[c][1].op = "exit" /\ sorder[stack[c][1].dev] = scan[c].order
    /\ Depth(c) = 2 => stack[c][2].op = "exit" /\ sorder[m] = scan[c].order
    /\ \A d \in Dev : ~percpu[d] /\ Passed(c, d) =>
         \/ exec[d] = 0
         \/ Depth(c) = 1 /\ stack[c][1].dev = d /\ stack[c][1].at \in {"test", "claim"}

ConsoleState(c, m, e) ==
  /\ Nesting(c, m, e) /\ Bodies(c, m, e) /\ Ups(m, e) /\ Attached(m, e)
  /\ ComesUp(c, m, e) /\ SetupScan(c, m, e) /\ Restores(c, m, e) /\ ExitScan(c, m)

ConsoleInv(c, m, e) == ExecInv /\ (\A d \in Dev : ~raced[d]) /\ ConsoleState(c, m, e)

(* How the calls of a core change. *)
LEMMA DepthView ==
  ASSUME Cells, NEW c \in Cores
  PROVE  /\ Depth(c) = 0 \/ Depth(c) = 1 \/ Depth(c) = 2
         /\ stack[c] = <<>> <=> Depth(c) = 0
<1>1. StackOK(stack[c])
  BY DEF Cells
<1>2. stack[c] # <<>> => Depth(c) = 1 \/ Depth(c) = 2
  BY <1>1, HeadTail DEF StackOK, Depth
<1>3. stack[c] = <<>> => Depth(c) = 0
  BY DEF Depth
<1> QED
  BY <1>2, <1>3

(* A call returns to the one below it. *)
LEMMA PopView ==
  ASSUME Cells, NEW c \in Cores, stack[c] # <<>>, SetStack(c, Tail(stack[c]))
  PROVE  Depth(c)' = Depth(c) - 1 /\ (Depth(c) = 2 => stack'[c][1] = stack[c][2])
<1>1. StackOK(stack[c]) /\ stack'[c] = Tail(stack[c])
  BY DEF Cells, SetStack
<1>2. Len(Tail(stack[c])) = Len(stack[c]) - 1 /\ (Len(stack[c]) = 2 => Tail(stack[c])[1] = stack[c][2])
  BY <1>1, HeadTail DEF StackOK
<1> QED
  BY <1>1, <1>2 DEF Depth

(* A call goes on to another of its steps. *)
LEMMA GotoView ==
  ASSUME Cells, NEW c \in Cores, stack[c] # <<>>,
         NEW at \in {"test", "claim", "call", "body", "end"}, SetStack(c, Goto(c, at))
  PROVE  /\ Depth(c)' = Depth(c) /\ (Depth(c) = 2 => stack'[c][2] = stack[c][2])
         /\ stack'[c][1].dev = stack[c][1].dev /\ stack'[c][1].op = stack[c][1].op
         /\ stack'[c][1].at = at /\ stack'[c][1].had = stack[c][1].had
<1>1. stack'[c] = Goto(c, at) /\ StackOK(stack[c]) /\ stack[c][1] \in Frames
  BY TopShape DEF SetStack, Cells
<1>2. /\ Len(Goto(c, at)) = Len(stack[c]) /\ Goto(c, at)[1] = [stack[c][1] EXCEPT !.at = at]
      /\ Len(stack[c]) = 2 => Goto(c, at)[2] = stack[c][2]
  BY <1>1, GotoShape
<1>3. LET f == [stack[c][1] EXCEPT !.at = at]
      IN  f.dev = stack[c][1].dev /\ f.op = stack[c][1].op /\ f.at = at /\ f.had = stack[c][1].had
  BY <1>1 DEF Frames
<1> QED
  BY <1>1, <1>2, <1>3 DEF Depth

(* A console driver's nested call begins. *)
LEMMA NestView ==
  ASSUME Cells, NEW c \in Cores, stack[c] # <<>>, NEW at \in {"body", "end"}, NEW op \in Ops,
         stepsIn[stack[c][1].dev] # 0,
         SetStack(c, Nested(c, op, at))
  PROVE  /\ Depth(c) = 1 /\ Depth(c)' = 2
         /\ stack'[c][1].dev = stepsIn[stack[c][1].dev] /\ stack'[c][1].op = op
         /\ stack'[c][1].at = "test" /\ stack'[c][1].had = con
         /\ stack'[c][2].dev = stack[c][1].dev /\ stack'[c][2].op = stack[c][1].op
         /\ stack'[c][2].at = at /\ stack'[c][2].had = stack[c][1].had
<1> DEFINE s == Nested(c, op, at)
<1>1. stack'[c] = s /\ stack[c][1] \in Frames
  BY TopShape DEF SetStack, Cells
<1>2. /\ Len(stack[c]) = 1 /\ Len(s) = 2 /\ s[1] = Frame(op, stepsIn[stack[c][1].dev])
      /\ s[2].dev = stack[c][1].dev /\ s[2].op = stack[c][1].op /\ s[2].had = stack[c][1].had
      /\ s[2].at = at
  BY NestShape
<1> HIDE DEF s
<1> QED
  BY <1>1, <1>2 DEF Depth, Frame

(* A call of the driver core begins. *)
LEMMA PushView ==
  ASSUME Cells, NEW c \in Cores, NEW op \in Ops, NEW d \in Dev, SetStack(c, <<Frame(op, d)>>)
  PROVE  /\ Depth(c)' = 1 /\ stack'[c][1].dev = d /\ stack'[c][1].op = op
         /\ stack'[c][1].at = "test" /\ stack'[c][1].had = con
<1>1. stack'[c] = <<Frame(op, d)>>
  BY DEF SetStack, Cells
<1> QED
  BY <1>1 DEF Depth, Frame

(* Where exec and the callbacks agree on one core. *)
LEMMA Agree ==
  ASSUME NEW c, Cores = {c}, ExecInv, \A d \in Dev : ~raced[d], NEW d \in Dev, ~percpu[d]
  PROVE  /\ exec[d] \in {0, 1} /\ called[d] \in Int
         /\ Depth(c) = 0 \/ stack[c][1].dev # d \/ stack[c][1].at \notin {"claim", "call"} =>
              called[d] = exec[d]
         /\ Depth(c) > 0 /\ stack[c][1].dev = d /\ stack[c][1].at = "claim" =>
              exec[d] = (IF stack[c][1].op = "setup" THEN 0 ELSE 1) /\ called[d] = exec[d]
         /\ Depth(c) > 0 /\ stack[c][1].dev = d /\ stack[c][1].at = "call" =>
              exec[d] = (IF stack[c][1].op = "setup" THEN 1 ELSE 0) /\ called[d] = 1 - exec[d]
<1>1. exec[d] \in {0, 1} /\ called[d] \in Int
  BY DEF ExecInv, Cells
<1>2. c \in Cores /\ (stack[c] = <<>> <=> Depth(c) = 0)
      /\ (Depth(c) = 0 \/ Depth(c) = 1 \/ Depth(c) = 2)
  BY DepthView DEF ExecInv
<1>3. Mirror(d) /\ ~raced[d]
  BY DEF ExecInv
<1>4. Depth(c) > 0 => stack[c] # <<>>
  BY <1>2
<1>5. Depth(c) = 0 \/ stack[c][1].dev # d \/ stack[c][1].at \notin {"claim", "call"} =>
        \A b \in Cores : ~Claims(b, d)
  BY <1>2 DEF Claims, At
<1>6. Depth(c) > 0 /\ stack[c][1].dev = d /\ stack[c][1].at = "claim" => At(c, d, "claim")
  BY <1>4 DEF At
<1>7. Depth(c) > 0 /\ stack[c][1].dev = d /\ stack[c][1].at = "call" => At(c, d, "call")
  BY <1>4 DEF At
<1> QED
  BY <1>1, <1>2, <1>3, <1>5, <1>6, <1>7 DEF Mirror

(* The types the console's conjuncts need. *)
LEMMA ConsoleTypes ==
  ASSUME NEW c, NEW m, NEW e, OneCore(c, m, e), ExecInv
  PROVE  /\ c \in Cores /\ m \in Dev /\ e \in Dev
         /\ sorder[m] \in Int /\ sorder[e] \in Int /\ m # 0 /\ e # 0
         /\ Depth(c) = 0 \/ Depth(c) = 1 \/ Depth(c) = 2
         /\ stack[c] = <<>> <=> Depth(c) = 0
         /\ Depth(c) > 0 => /\ Top(c) = stack[c][1] /\ stack[c][1].dev \in Dev
                            /\ stack[c][1].op \in {"setup", "exit"}
         /\ Depth(c) = 2 => stack[c][2].at \in {"body", "end"}
<1>1. c \in Cores /\ m \in Dev /\ e \in Dev
  BY DEF OneCore
<1>2. sorder[m] \in Int /\ sorder[e] \in Int /\ m # 0 /\ e # 0
  BY <1>1, DriverAssumption DEF Dev
<1>3. /\ Depth(c) = 0 \/ Depth(c) = 1 \/ Depth(c) = 2
      /\ stack[c] = <<>> <=> Depth(c) = 0
  BY <1>1, DepthView DEF ExecInv
<1>4. Depth(c) > 0 => stack[c] # <<>>
  BY <1>3
<1>5. Depth(c) > 0 => /\ Top(c) = stack[c][1] /\ stack[c][1].dev \in Dev
                      /\ stack[c][1].op \in {"setup", "exit"}
  BY <1>1, <1>4, TopShape DEF ExecInv, Ops
<1>6. Depth(c) = 2 => stack[c][2].at \in {"body", "end"}
  BY <1>1 DEF ExecInv, Cells, StackOK, Depth
<1> QED
  BY <1>1, <1>2, <1>3, <1>5, <1>6

(* driver_setup and driver_exit by name. *)
LEMMA ByNameConsole ==
  ASSUME NEW c, NEW m, NEW e, OneCore(c, m, e), ConsoleInv(c, m, e),
         NEW op \in Ops, NEW d \in Dev, ByName(c, op, d)
  PROVE  ConsoleState(c, m, e)'
<1> USE DEF ConsoleInv, ConsoleState
<1>1. /\ c \in Cores /\ m \in Dev /\ e \in Dev /\ m # 0 /\ e # 0 /\ m # e /\ Depth(c) = 0
      /\ SetStack(c, <<Frame(op, d)>>) /\ scan[c] = NoScan
      /\ UNCHANGED <<exec, con, scan, up, called, raced, failed>>
  BY ConsoleTypes DEF ByName, Idle, InCall, OneCore
<1>2. /\ Depth(c)' = 1 /\ stack'[c][1].dev = d /\ stack'[c][1].op = op
      /\ stack'[c][1].at = "test" /\ stack'[c][1].had = con
  BY <1>1, PushView DEF ExecInv
<1>3. d = e /\ op = "setup" => called[m] = 0
  BY DEF ByName, Allowed, OneCore
<1>4. scan'[c].op = "none"
  BY <1>1 DEF NoScan
<1>5. Nesting(c, m, e)'
  BY <1>2 DEF Nesting
<1>6. Bodies(c, m, e)'
  BY <1>1, <1>2, <1>3 DEF Bodies, Ups
<1>7. Ups(m, e)' /\ Attached(m, e)'
  BY <1>1 DEF Ups, Attached
<1>8. ComesUp(c, m, e)'
  BY <1>1, <1>2 DEF ComesUp
<1>9. SetupScan(c, m, e)' /\ ExitScan(c, m)'
  BY <1>4 DEF SetupScan, ExitScan
<1>10. Restores(c, m, e)'
  BY <1>1, <1>2 DEF Restores
<1> QED
  BY <1>5, <1>6, <1>7, <1>8, <1>9, <1>10

(* driver_setup_all and driver_exit_all begin. *)
LEMMA AllConsole ==
  ASSUME NEW c, NEW m, NEW e, OneCore(c, m, e), ConsoleInv(c, m, e),
         NEW op \in Ops, All(c, op)
  PROVE  ConsoleState(c, m, e)'
<1> USE DEF ConsoleInv, ConsoleState
<1>1. /\ c \in Cores /\ m \in Dev /\ e \in Dev /\ Depth(c) = 0 /\ Depth(c)' = 0
      /\ UNCHANGED <<exec, con, stack, up, called, raced, failed>>
  BY ConsoleTypes DEF All, Idle, InCall, Depth
<1>2. scan'[c].op = op /\ scan'[c].ptr = 1 /\ (op = "exit" => scan'[c].order = MaxOrder)
  BY <1>1 DEF All, ExecInv, Cells
<1>3. op = "setup" => called[m] = 0
  BY DEF All, Allowed, OneCore
<1>4. Nesting(c, m, e)' /\ Bodies(c, m, e)' /\ Restores(c, m, e)'
  BY <1>1 DEF Nesting, Bodies, Restores
<1>5. Ups(m, e)' /\ Attached(m, e)'
  BY <1>1 DEF Ups, Attached
<1>6. ComesUp(c, m, e)'
  BY <1>1 DEF ComesUp
<1>7. SetupScan(c, m, e)'
  BY <1>1, <1>2, <1>3 DEF SetupScan
<1>8. ExitScan(c, m)'
  <2>1. op = "exit" => \A d \in Dev : ~Passed(c, d)'
    BY <1>2, DriverAssumption DEF Passed, Dev
  <2> QED
    BY <1>1, <1>2, <2>1 DEF ExitScan
<1> QED
  BY <1>4, <1>5, <1>6, <1>7, <1>8

(* The loops of driver_setup_all and driver_exit_all; when the second one   *)
(* ends every device is stopped.                                            *)
LEMMA ScanConsole ==
  ASSUME NEW c, NEW m, NEW e, OneCore(c, m, e), ConsoleInv(c, m, e), Scan(c)
  PROVE  /\ ConsoleState(c, m, e)'
         /\ scan[c].op = "exit" /\ scan'[c] = NoScan =>
              \A d \in Dev : ~percpu[d] => exec'[d] = 0
<1> USE DEF ConsoleInv, ConsoleState
<1> DEFINE s == scan[c]
           next == IF s.op = "setup" THEN s.order + 1 ELSE s.order - 1
<1>1. /\ c \in Cores /\ m \in Dev /\ e \in Dev /\ m # 0 /\ e # 0 /\ m # e /\ Depth(c) = 0
      /\ sorder[m] \in Int /\ sorder[e] \in Int /\ sorder[e] < sorder[m]
      /\ s # NoScan /\ UNCHANGED <<exec, con, up, called, raced, failed>>
  BY ConsoleTypes DEF Scan, InCall, OneCore
<1>2. s \in [op : Ops, order : 0 .. MaxOrder, ptr : 1 .. N + 1]
  BY <1>1 DEF ExecInv, Cells, Scans
<1>3. s.op \in {"setup", "exit"} /\ s.order \in Int /\ s.order >= 0 /\ s.ptr \in Int /\ s.ptr >= 1
  BY <1>2, DriverAssumption DEF Ops
<1>4. \A d \in Dev : sorder[d] \in Int /\ sorder[d] >= 0 /\ d \in Int /\ d >= 1 /\ d <= N
  BY DriverAssumption DEF Dev
<1>5. Ups(m, e)' /\ Attached(m, e)'
  BY <1>1 DEF Ups, Attached
<1>6. CASE /\ s.ptr <= N
           /\ scan' = [scan EXCEPT ![c].ptr = @ + 1]
           /\ IF sorder[s.ptr] = s.order
                THEN SetStack(c, <<Frame(s.op, s.ptr)>>) ELSE UNCHANGED stack
  <2>1. scan'[c] = [s EXCEPT !.ptr = @ + 1]
    BY <1>1, <1>6 DEF ExecInv, Cells
  <2>2. scan'[c].op = s.op /\ scan'[c].order = s.order /\ scan'[c].ptr = s.ptr + 1
    BY <1>2, <2>1
  <2>3. s.ptr \in Dev
    BY <1>3, <1>6, DriverAssumption DEF Dev
  <2>4. scan'[c] # NoScan
    BY <1>3, <2>2 DEF NoScan
  <2>5. CASE sorder[s.ptr] = s.order
    <3>1. /\ Depth(c)' = 1 /\ stack'[c][1].dev = s.ptr /\ stack'[c][1].op = s.op
          /\ stack'[c][1].at = "test" /\ stack'[c][1].had = con
      <4>1. SetStack(c, <<Frame(s.op, s.ptr)>>) /\ s.op \in Ops
        BY <1>2, <1>6, <2>5
      <4> HIDE DEF s
      <4> QED
        BY <1>1, <2>3, <4>1, PushView DEF ExecInv
    <3>2. s.ptr = e /\ s.op = "setup" => called[m] = 0
      BY <1>1, <1>3, <2>5 DEF SetupScan
    <3>3. Nesting(c, m, e)'
      BY <3>1 DEF Nesting
    <3>4. Bodies(c, m, e)'
      BY <1>1, <3>1, <3>2 DEF Bodies, Ups
    <3>5. ComesUp(c, m, e)'
      BY <1>1, <3>1 DEF ComesUp
    <3>6. SetupScan(c, m, e)'
      BY <1>1, <1>3, <2>2, <2>5, <3>1 DEF SetupScan
    <3>7. Restores(c, m, e)'
      BY <1>1, <3>1 DEF Restores
    <3>8. ExitScan(c, m)'
      <4> SUFFICES ASSUME s.op = "exit" PROVE ExitScan(c, m)'
        BY <2>2 DEF ExitScan
      <4>1. \A d \in Dev : Passed(c, d)' => Passed(c, d) \/ d = s.ptr
        BY <1>3, <1>4, <2>2 DEF Passed
      <4>2. \A d \in Dev : ~percpu[d] /\ Passed(c, d) => exec[d] = 0
        BY <1>1 DEF ExitScan
      <4> QED
        BY <1>1, <2>2, <2>5, <3>1, <4>1, <4>2 DEF ExitScan
    <3> QED
      BY <1>5, <2>4, <3>3, <3>4, <3>5, <3>6, <3>7, <3>8
  <2>6. CASE sorder[s.ptr] # s.order
    <3>1. Depth(c)' = 0 /\ stack' = stack
      BY <1>1, <1>6, <2>6 DEF Depth
    <3>2. Nesting(c, m, e)' /\ Bodies(c, m, e)' /\ Restores(c, m, e)'
      BY <3>1 DEF Nesting, Bodies, Restores
    <3>3. ComesUp(c, m, e)'
      BY <1>1, <3>1 DEF ComesUp
    <3>4. SetupScan(c, m, e)'
      BY <1>1, <2>2, <3>1 DEF SetupScan
    <3>5. ExitScan(c, m)'
      <4> SUFFICES ASSUME s.op = "exit" PROVE ExitScan(c, m)'
        BY <2>2 DEF ExitScan
      <4>1. \A d \in Dev : Passed(c, d)' => Passed(c, d)
        BY <1>3, <1>4, <2>2, <2>6 DEF Passed
      <4>2. \A d \in Dev : ~percpu[d] /\ Passed(c, d) => exec[d] = 0
        BY <1>1 DEF ExitScan
      <4> QED
        BY <1>1, <2>2, <3>1, <4>1, <4>2 DEF ExitScan
    <3> QED
      BY <1>5, <2>4, <3>2, <3>3, <3>4, <3>5
  <2> QED
    BY <2>5, <2>6
<1>7. CASE /\ s.ptr > N
           /\ scan' = [scan EXCEPT ![c] = IF next \in 0 .. MaxOrder
                                            THEN [s EXCEPT !.order = next, !.ptr = 1]
                                            ELSE NoScan]
           /\ UNCHANGED stack
  <2>1. Depth(c)' = 0
    BY <1>1, <1>7 DEF Depth
  <2>2. Nesting(c, m, e)' /\ Bodies(c, m, e)' /\ Restores(c, m, e)'
    BY <2>1 DEF Nesting, Bodies, Restores
  <2>3. ComesUp(c, m, e)'
    BY <1>1, <2>1 DEF ComesUp
  <2>4. s.op = "exit" => \A d \in Dev : ~percpu[d] /\ sorder[d] >= s.order => exec[d] = 0
    <3>1. \A d \in Dev : sorder[d] >= s.order => Passed(c, d)
      BY <1>3, <1>4, <1>7, DriverAssumption DEF Passed
    <3> QED
      BY <1>1, <3>1 DEF ExitScan
  <2>5. CASE next \in 0 .. MaxOrder
    <3>1. scan'[c] = [s EXCEPT !.order = next, !.ptr = 1]
      BY <1>1, <1>7, <2>5 DEF ExecInv, Cells
    <3>2. scan'[c].op = s.op /\ scan'[c].order = next /\ scan'[c].ptr = 1
      BY <1>2, <3>1
    <3>3. SetupScan(c, m, e)'
      BY <1>1, <1>3, <2>1, <3>2 DEF SetupScan
    <3>4. ExitScan(c, m)'
      <4> SUFFICES ASSUME s.op = "exit" PROVE ExitScan(c, m)'
        BY <3>2 DEF ExitScan
      <4>1. \A d \in Dev : Passed(c, d)' => sorder[d] >= s.order
        BY <1>3, <1>4, <3>2 DEF Passed
      <4> QED
        BY <1>1, <2>1, <2>4, <4>1 DEF ExitScan
    <3>5. scan'[c] # NoScan
      BY <1>3, <3>2 DEF NoScan
    <3> QED
      BY <1>5, <2>2, <2>3, <3>3, <3>4, <3>5
  <2>6. CASE next \notin 0 .. MaxOrder
    <3>1. scan'[c] = NoScan
      BY <1>1, <1>7, <2>6 DEF ExecInv, Cells
    <3>2. scan'[c].op = "none"
      BY <3>1 DEF NoScan
    <3>3. SetupScan(c, m, e)' /\ ExitScan(c, m)'
      BY <3>2 DEF SetupScan, ExitScan
    <3>4. s.op = "exit" => s.order = 0
      <4> SUFFICES ASSUME s.op = "exit", s.order # 0 PROVE FALSE
        OBVIOUS
      <4>1. next = s.order - 1
        OBVIOUS
      <4>2. s.order \in 0 .. MaxOrder
        BY <1>2
      <4> QED
        BY <2>6, <4>1, <4>2, DriverAssumption
    <3>5. s.op = "exit" => \A d \in Dev : ~percpu[d] => exec'[d] = 0
      BY <1>1, <1>4, <2>4, <3>4
    <3> QED
      BY <1>5, <2>2, <2>3, <3>3, <3>5
  <2> QED
    BY <2>5, <2>6
<1> QED
  BY <1>6, <1>7 DEF Scan

(* What a step that leaves scan alone must show of the loops. *)
LEMMA ScansKept ==
  ASSUME NEW c, NEW m, NEW e, OneCore(c, m, e), ConsoleInv(c, m, e), UNCHANGED scan,
         \A d \in Dev : exec'[d] = exec[d],
         called'[m] = called[m] \/ (Depth(c) = 1 /\ stack[c][1].dev = m),
         \/ Depth(c)' = Depth(c) /\ stack'[c][1].dev = stack[c][1].dev
            /\ stack'[c][1].op = stack[c][1].op
            /\ (Depth(c) = 2 => stack'[c][2].op = stack[c][2].op)
         \/ Depth(c) = 1 /\ Depth(c)' = 0
         \/ /\ Depth(c) = 2 /\ Depth(c)' = 1
            /\ stack'[c][1].dev = m /\ stack'[c][1].op = stack[c][2].op
         \/ /\ Depth(c) = 1 /\ Depth(c)' = 2
            /\ stack[c][1].dev = m /\ stack'[c][2].op = stack[c][1].op,
         \/ Depth(c) # 1 \/ stack[c][1].at \notin {"test", "claim"}
         \/ percpu[stack[c][1].dev] \/ exec[stack[c][1].dev] = 0 \/ stack[c][1].op = "setup"
         \/ Depth(c)' = 1 /\ stack'[c][1].at \in {"test", "claim"}
  PROVE  SetupScan(c, m, e)' /\ ExitScan(c, m)'
<1> USE DEF ConsoleInv, ConsoleState
<1>1. Depth(c) = 0 \/ Depth(c) = 1 \/ Depth(c) = 2
  BY ConsoleTypes
<1>2. SetupScan(c, m, e)'
  BY <1>1 DEF SetupScan
<1>3. \A d \in Dev : Passed(c, d)' <=> Passed(c, d)
  BY DEF Passed
<1>4. ExitScan(c, m)'
  <2> SUFFICES ASSUME scan[c].op = "exit" PROVE ExitScan(c, m)'
    BY DEF ExitScan
  <2>1. /\ Depth(c)' = 1 => stack'[c][1].op = "exit" /\ sorder[stack'[c][1].dev] = scan'[c].order
        /\ Depth(c)' = 2 => stack'[c][2].op = "exit" /\ sorder[m] = scan'[c].order
    BY <1>1 DEF ExitScan
  <2>2. ASSUME NEW d \in Dev, ~percpu[d], Passed(c, d)'
        PROVE  \/ exec'[d] = 0
               \/ Depth(c)' = 1 /\ stack'[c][1].dev = d /\ stack'[c][1].at \in {"test", "claim"}
    BY <1>1, <1>3, <2>2 DEF ExitScan
  <2> QED
    BY <2>1, <2>2 DEF ExitScan
<1> QED
  BY <1>2, <1>4

(* A core at the point a of a call. *)
LEMMA TopConsole ==
  ASSUME NEW c, NEW m, NEW e, OneCore(c, m, e), ExecInv, NEW a, TopAt(c, a)
  PROVE  /\ c \in Cores /\ m \in Dev /\ e \in Dev /\ m # 0 /\ e # 0 /\ m # e
         /\ Depth(c) = 1 \/ Depth(c) = 2
         /\ stack[c] # <<>> /\ Top(c) = stack[c][1] /\ stack[c][1].dev \in Dev
         /\ stack[c][1].op \in {"setup", "exit"} /\ stack[c][1].at = a
         /\ Depth(c) = 2 => stack[c][2].at \in {"body", "end"}
         /\ ~percpu[m] /\ ~percpu[e]
         /\ sorder[m] \in Int /\ sorder[e] \in Int /\ sorder[e] < sorder[m]
<1>1. /\ c \in Cores /\ m \in Dev /\ e \in Dev
      /\ sorder[m] \in Int /\ sorder[e] \in Int /\ m # 0 /\ e # 0
      /\ Depth(c) = 0 \/ Depth(c) = 1 \/ Depth(c) = 2
      /\ stack[c] = <<>> <=> Depth(c) = 0
      /\ Depth(c) > 0 => /\ Top(c) = stack[c][1] /\ stack[c][1].dev \in Dev
                         /\ stack[c][1].op \in {"setup", "exit"}
      /\ Depth(c) = 2 => stack[c][2].at \in {"body", "end"}
  BY ConsoleTypes
<1>2. stack[c] # <<>> /\ Top(c).at = a
  BY DEF TopAt, InCall
<1>3. Depth(c) = 1 \/ Depth(c) = 2
  BY <1>1, <1>2
<1>4. Top(c) = stack[c][1] /\ stack[c][1].dev \in Dev /\ stack[c][1].op \in {"setup", "exit"}
  BY <1>1, <1>3
<1>5. m # e /\ ~percpu[m] /\ ~percpu[e] /\ sorder[e] < sorder[m]
  BY DEF OneCore
<1> QED
  BY <1>1, <1>2, <1>3, <1>4, <1>5

(* The call that returns leaves a console attached, as NeverSilent says. *)
Loud(c, m) ==
  Depth(c) = 1 /\ Depth(c)' = 0 =>
    /\ stack[c][1].op = "setup" /\ stack[c][1].had # 0 => con' # 0
    /\ stack[c][1].op = "exit" /\ stack[c][1].dev = m /\ stack[c][1].had = m => con' # 0

(* The test of exec. *)
LEMMA TestConsole ==
  ASSUME NEW c, NEW m, NEW e, OneCore(c, m, e), ConsoleInv(c, m, e), Test(c)
  PROVE  ConsoleState(c, m, e)' /\ Loud(c, m)
<1> USE DEF ConsoleInv, ConsoleState
<1>1. /\ c \in Cores /\ m \in Dev /\ e \in Dev /\ m # 0 /\ e # 0 /\ m # e
      /\ Depth(c) = 1 \/ Depth(c) = 2
      /\ stack[c] # <<>> /\ Top(c) = stack[c][1] /\ stack[c][1].dev \in Dev
      /\ stack[c][1].op \in {"setup", "exit"} /\ stack[c][1].at = "test"
      /\ Depth(c) = 2 => stack[c][2].at \in {"body", "end"}
      /\ ~percpu[m] /\ ~percpu[e]
      /\ sorder[m] \in Int /\ sorder[e] \in Int /\ sorder[e] < sorder[m]
  <2>1. TopAt(c, "test")
    BY DEF Test
  <2> QED
    BY <2>1, TopConsole
<1>2. UNCHANGED <<exec, con, scan, up, called, failed>>
  BY DEF Test
<1>3. /\ called[m] = exec[m] /\ called[e] = exec[e]
      /\ exec[m] \in {0, 1} /\ exec[e] \in {0, 1} /\ exec[stack[c][1].dev] \in {0, 1}
  BY <1>1, Agree DEF OneCore, ExecInv, Cells
<1>4. Ups(m, e)' /\ Attached(m, e)'
  BY <1>2 DEF Ups, Attached
<1>5. CASE \E at \in {"claim", "call"} :
             SetStack(c, Goto(c, at)) /\ (at = "call" => percpu[stack[c][1].dev])
  <2>1. PICK at \in {"claim", "call"} :
               SetStack(c, Goto(c, at)) /\ (at = "call" => percpu[stack[c][1].dev])
    BY <1>5
  <2>2. /\ Depth(c)' = Depth(c) /\ (Depth(c) = 2 => stack'[c][2] = stack[c][2])
        /\ stack'[c][1].dev = stack[c][1].dev /\ stack'[c][1].op = stack[c][1].op
        /\ stack'[c][1].at = at /\ stack'[c][1].had = stack[c][1].had
    BY <1>1, <2>1, GotoView DEF ExecInv
  <2>3. Nesting(c, m, e)'
    BY <1>1, <2>2 DEF Nesting
  <2>4. Bodies(c, m, e)'
    BY <1>1, <1>2, <2>2 DEF Bodies
  <2>5. ComesUp(c, m, e)'
    BY <1>1, <1>2, <2>2 DEF ComesUp
  <2>6. Restores(c, m, e)'
    BY <1>1, <1>2, <2>2 DEF Restores
  <2>7. SetupScan(c, m, e)' /\ ExitScan(c, m)'
    <3>1. percpu[stack[c][1].dev] \/ stack'[c][1].at \in {"test", "claim"}
      BY <2>1, <2>2
    <3> QED
      BY <1>1, <1>2, <2>2, <3>1, ScansKept
  <2>8. Loud(c, m)
    BY <1>1, <2>2 DEF Loud
  <2> QED
    BY <1>4, <2>3, <2>4, <2>5, <2>6, <2>7, <2>8
<1>6. CASE /\ SetStack(c, Tail(stack[c]))
           /\ exec[stack[c][1].dev] = (IF stack[c][1].op = "setup" THEN 1 ELSE 0)
  <2>1. Depth(c)' = Depth(c) - 1 /\ (Depth(c) = 2 => stack'[c][1] = stack[c][2])
    BY <1>1, <1>6, PopView DEF ExecInv
  <2>2. Depth(c) = 2 => /\ stack[c][2].dev = m /\ stack[c][1].dev = e
                        /\ stack[c][2].at = "body" => stack[c][2].op = "setup" /\ stack[c][1].op = "exit"
                        /\ stack[c][2].at = "end" => stack[c][1].op = "setup"
    BY DEF Nesting
  <2>3. Depth(c) = 2 /\ stack[c][2].at = "body" => called[e] = 0
    BY <1>3, <1>6, <2>2
  <2>4. Depth(c) = 2 /\ stack[c][2].at = "end" => called[e] = 1
    BY <1>3, <1>6, <2>2
  <2>5. Nesting(c, m, e)'
    BY <1>1, <2>1, <2>2 DEF Nesting
  <2>6. Bodies(c, m, e)'
    BY <1>1, <1>2, <2>1, <2>2, <2>3 DEF Bodies
  <2>7. ComesUp(c, m, e)'
    BY <1>1, <1>2, <2>1, <2>2 DEF ComesUp
  <2>8. Restores(c, m, e)'
    BY <1>1, <1>2, <2>1, <2>2, <2>4 DEF Restores
  <2>9. SetupScan(c, m, e)' /\ ExitScan(c, m)'
    <3>1. exec[stack[c][1].dev] = 0 \/ stack[c][1].op = "setup"
      BY <1>6
    <3> QED
      BY <1>1, <1>2, <2>1, <2>2, <3>1, ScansKept
  <2>10. Loud(c, m)
    BY <1>1, <1>2 DEF Loud, Restores
  <2> QED
    BY <1>4, <2>5, <2>6, <2>7, <2>8, <2>9, <2>10
<1> QED
  BY <1>1, <1>5, <1>6 DEF Test

(* The claim of exec. *)
LEMMA ClaimConsole ==
  ASSUME NEW c, NEW m, NEW e, OneCore(c, m, e), ConsoleInv(c, m, e), Claim(c)
  PROVE  ConsoleState(c, m, e)' /\ Loud(c, m)
<1> USE DEF ConsoleInv, ConsoleState
<1>1. /\ c \in Cores /\ m \in Dev /\ e \in Dev /\ m # 0 /\ e # 0 /\ m # e
      /\ Depth(c) = 1 \/ Depth(c) = 2
      /\ stack[c] # <<>> /\ Top(c) = stack[c][1] /\ stack[c][1].dev \in Dev
      /\ stack[c][1].op \in {"setup", "exit"} /\ stack[c][1].at = "claim"
      /\ Depth(c) = 2 => stack[c][2].at \in {"body", "end"}
      /\ ~percpu[m] /\ ~percpu[e]
      /\ sorder[m] \in Int /\ sorder[e] \in Int /\ sorder[e] < sorder[m]
  <2>1. TopAt(c, "claim")
    BY DEF Claim
  <2> QED
    BY <2>1, TopConsole
<1>2. /\ SetStack(c, Goto(c, "call")) /\ UNCHANGED <<con, scan, up, called, raced, failed>>
      /\ exec' = [exec EXCEPT ![stack[c][1].dev] = IF stack[c][1].op = "setup" THEN 1 ELSE 0]
  BY <1>1 DEF Claim
<1>3. /\ Depth(c)' = Depth(c) /\ (Depth(c) = 2 => stack'[c][2] = stack[c][2])
      /\ stack'[c][1].dev = stack[c][1].dev /\ stack'[c][1].op = stack[c][1].op
      /\ stack'[c][1].at = "call" /\ stack'[c][1].had = stack[c][1].had
  BY <1>1, <1>2, GotoView DEF ExecInv
<1>4. Ups(m, e)' /\ Attached(m, e)'
  BY <1>2 DEF Ups, Attached
<1>5. Nesting(c, m, e)'
  BY <1>1, <1>3 DEF Nesting
<1>6. Bodies(c, m, e)'
  BY <1>1, <1>2, <1>3 DEF Bodies
<1>7. ComesUp(c, m, e)'
  BY <1>1, <1>2, <1>3 DEF ComesUp
<1>8. Restores(c, m, e)'
  BY <1>1, <1>2, <1>3 DEF Restores
<1>9. SetupScan(c, m, e)'
  BY <1>1, <1>2, <1>3 DEF SetupScan
<1>10. ExitScan(c, m)'
  <2> SUFFICES ASSUME scan[c].op = "exit" PROVE ExitScan(c, m)'
    BY <1>2 DEF ExitScan
  <2>1. /\ Depth(c)' = 1 => stack'[c][1].op = "exit" /\ sorder[stack'[c][1].dev] = scan'[c].order
        /\ Depth(c)' = 2 => stack'[c][2].op = "exit" /\ sorder[m] = scan'[c].order
    BY <1>2, <1>3 DEF ExitScan
  <2>2. Depth(c) = 2 => stack[c][1].dev = e /\ ~Passed(c, e)
    BY <1>1 DEF ExitScan, Nesting, Passed
  <2>3. ASSUME NEW d \in Dev, ~percpu[d], Passed(c, d) PROVE exec'[d] = 0
    <3>1. CASE d = stack[c][1].dev
      <4>1. Depth(c) = 1 /\ stack[c][1].op = "exit"
        BY <1>1, <2>2, <2>3, <3>1 DEF ExitScan
      <4> QED
        BY <1>1, <1>2, <3>1, <4>1 DEF ExecInv, Cells
    <3>2. CASE d # stack[c][1].dev
      <4>1. exec[d] = 0
        BY <2>3, <3>2 DEF ExitScan
      <4> QED
        BY <1>1, <1>2, <3>2, <4>1 DEF ExecInv, Cells
    <3> QED
      BY <3>1, <3>2
  <2>4. \A d \in Dev : Passed(c, d)' <=> Passed(c, d)
    BY <1>2 DEF Passed
  <2> QED
    BY <2>1, <2>3, <2>4 DEF ExitScan
<1>11. Loud(c, m)
  BY <1>1, <1>3 DEF Loud
<1> QED
  BY <1>4, <1>5, <1>6, <1>7, <1>8, <1>9, <1>10, <1>11

(* The call of driver_setup or driver_exit. *)
LEMMA CallConsole ==
  ASSUME NEW c, NEW m, NEW e, OneCore(c, m, e), ConsoleInv(c, m, e), Call(c)
  PROVE  ConsoleState(c, m, e)' /\ Loud(c, m)
<1> USE DEF ConsoleInv, ConsoleState
<1>1. /\ c \in Cores /\ m \in Dev /\ e \in Dev /\ m # 0 /\ e # 0 /\ m # e
      /\ Depth(c) = 1 \/ Depth(c) = 2
      /\ stack[c] # <<>> /\ Top(c) = stack[c][1] /\ stack[c][1].dev \in Dev
      /\ stack[c][1].op \in {"setup", "exit"} /\ stack[c][1].at = "call"
      /\ Depth(c) = 2 => stack[c][2].at \in {"body", "end"}
      /\ ~percpu[m] /\ ~percpu[e]
      /\ sorder[m] \in Int /\ sorder[e] \in Int /\ sorder[e] < sorder[m]
  <2>1. TopAt(c, "call")
    BY DEF Call
  <2> QED
    BY <2>1, TopConsole
<1>2. PICK d \in Dev : d = stack[c][1].dev
  BY <1>1
<1>3. /\ called' = [called EXCEPT ![d] = Counted(stack[c][1])]
      /\ up' = (IF stack[c][1].op = "setup" THEN up ELSE [up EXCEPT ![d] = FALSE])
      /\ con' = (IF stack[c][1].op # "setup" /\ d \in Consoles THEN 0 ELSE con)
      /\ UNCHANGED <<exec, scan, raced, failed>>
  BY <1>1, <1>2 DEF Call
<1>4. /\ \A x \in Dev : x # d => called'[x] = called[x]
      /\ called'[d] = Counted(stack[c][1])
  BY <1>3 DEF ExecInv, Cells
<1>5. /\ \A x \in Dev : x # d => up'[x] = up[x]
      /\ stack[c][1].op = "setup" => up'[d] = up[d]
      /\ stack[c][1].op = "exit" => ~up'[d]
  BY <1>3 DEF ExecInv, Cells
<1>6. Depth(c) = 2 => /\ d = e /\ stack[c][2].dev = m
                      /\ stack[c][2].at = "body" => stack[c][1].op = "exit"
                      /\ stack[c][2].at = "end" => stack[c][1].op = "setup"
  BY <1>2 DEF Nesting
<1>7. /\ stack[c][1].op = "setup" /\ d = m => SetStack(c, Nested(c, "exit", "body"))
      /\ ~(stack[c][1].op = "setup" /\ d = m) => SetStack(c, Goto(c, "body"))
  BY <1>1, <1>2 DEF Call, OneCore, Nested
<1>8. ASSUME ~(stack[c][1].op = "setup" /\ d = m)
      PROVE  /\ Depth(c)' = Depth(c) /\ (Depth(c) = 2 => stack'[c][2] = stack[c][2])
             /\ stack'[c][1].dev = d /\ stack'[c][1].op = stack[c][1].op
             /\ stack'[c][1].at = "body" /\ stack'[c][1].had = stack[c][1].had
  BY <1>1, <1>2, <1>7, <1>8, GotoView DEF ExecInv
<1>9. d \in {m, e} => /\ ~raced[d] /\ ~percpu[d]
                      /\ stack[c][1].op = "setup" => called[d] = 0 /\ called'[d] = 1
                      /\ stack[c][1].op = "exit" => called[d] = 1 /\ called'[d] = 0
  <2> SUFFICES ASSUME d \in {m, e}
               PROVE  /\ ~raced[d] /\ ~percpu[d]
                      /\ stack[c][1].op = "setup" => called[d] = 0 /\ called'[d] = 1
                      /\ stack[c][1].op = "exit" => called[d] = 1 /\ called'[d] = 0
    OBVIOUS
  <2>1. ~raced[d] /\ ~percpu[d]
    BY <1>1
  <2>2. exec[d] = (IF stack[c][1].op = "setup" THEN 1 ELSE 0) /\ called[d] = 1 - exec[d]
    <3>1. Cores = {c} /\ Depth(c) > 0
      BY <1>1 DEF OneCore
    <3> QED
      BY <1>1, <1>2, <2>1, <3>1, Agree
  <2>3. called'[d] = called[d] + (IF stack[c][1].op = "setup" THEN 1 ELSE -1)
    BY <1>2, <1>4, <2>1 DEF Counted
  <2> QED
    BY <1>1, <2>1, <2>2, <2>3
<1>10. d \in Consoles <=> d \in {m, e}
  BY DEF OneCore
<1>11. CASE d \notin {m, e}
  <2>1. /\ Depth(c) = 1 /\ Depth(c)' = 1 /\ con' = con /\ up'[m] = up[m] /\ up'[e] = up[e]
        /\ called'[m] = called[m] /\ called'[e] = called[e]
    BY <1>1, <1>3, <1>4, <1>5, <1>6, <1>8, <1>10, <1>11
  <2>2. con # 0 => con \in {m, e}
    BY DEF ExecInv, Cells, OneCore
  <2>3. Nesting(c, m, e)' /\ Bodies(c, m, e)'
    BY <1>8, <1>11, <2>1 DEF Nesting, Bodies
  <2>4. Ups(m, e)' /\ Attached(m, e)'
    BY <1>3, <2>1, <2>2 DEF Ups, Attached
  <2>5. ComesUp(c, m, e)'
    BY <1>2, <1>3, <1>11, <2>1 DEF ComesUp
  <2>6. Restores(c, m, e)'
    BY <1>2, <1>8, <1>11, <2>1 DEF Restores
  <2>7. SetupScan(c, m, e)' /\ ExitScan(c, m)'
    BY <1>1, <1>2, <1>3, <1>8, <1>11, <2>1, ScansKept
  <2>8. Loud(c, m)
    BY <2>1 DEF Loud
  <2> QED
    BY <2>3, <2>4, <2>5, <2>6, <2>7, <2>8
<1>12. CASE d = m /\ stack[c][1].op = "setup"
  <2>1. /\ Depth(c) = 1 /\ Depth(c)' = 2
        /\ stack'[c][1].dev = e /\ stack'[c][1].op = "exit" /\ stack'[c][1].at = "test"
        /\ stack'[c][2].dev = m /\ stack'[c][2].op = "setup" /\ stack'[c][2].at = "body"
        /\ stack'[c][2].had = stack[c][1].had
    <3>1. stepsIn[stack[c][1].dev] = e /\ "exit" \in Ops /\ "body" \in {"body", "end"}
      BY <1>2, <1>12 DEF OneCore, Ops
    <3> QED
      BY <1>1, <1>2, <1>7, <1>12, <3>1, NestView DEF ExecInv
  <2>2. /\ con' = con /\ up' = up /\ called[m] = 0 /\ called'[m] = 1 /\ called'[e] = called[e]
    BY <1>1, <1>3, <1>4, <1>9, <1>12
  <2>3. ~up[m]
    BY <2>2 DEF Ups
  <2>4. Nesting(c, m, e)' /\ Bodies(c, m, e)'
    BY <1>1, <2>1, <2>2, <2>3 DEF Nesting, Bodies
  <2>5. Ups(m, e)' /\ Attached(m, e)'
    BY <1>3, <2>2, <2>3 DEF Ups, Attached
  <2>6. ComesUp(c, m, e)'
    BY <1>1, <1>2, <1>3, <1>12, <2>1, <2>2 DEF ComesUp
  <2>7. Restores(c, m, e)'
    BY <2>1 DEF Restores
  <2>8. SetupScan(c, m, e)' /\ ExitScan(c, m)'
    BY <1>1, <1>2, <1>3, <1>12, <2>1, ScansKept
  <2>9. Loud(c, m)
    BY <2>1 DEF Loud
  <2> QED
    BY <2>4, <2>5, <2>6, <2>7, <2>8, <2>9
<1>13. CASE d = m /\ stack[c][1].op = "exit"
  <2>1. /\ Depth(c) = 1 /\ Depth(c)' = 1 /\ con' = 0 /\ ~up'[m] /\ up'[e] = up[e]
        /\ called[m] = 1 /\ called'[m] = 0 /\ called'[e] = called[e]
    BY <1>1, <1>3, <1>4, <1>5, <1>6, <1>8, <1>9, <1>10, <1>13
  <2>2. ~failed => up[m]
    BY <1>1, <2>1 DEF ComesUp
  <2>3. ~failed => ~up[e]
    BY <2>2 DEF Ups
  <2>4. Nesting(c, m, e)' /\ Bodies(c, m, e)'
    BY <1>1, <1>8, <1>13, <2>1 DEF Nesting, Bodies
  <2>5. Ups(m, e)'
    BY <2>1 DEF Ups
  <2>6. Attached(m, e)'
    BY <1>3, <2>1, <2>3 DEF Attached
  <2>7. ComesUp(c, m, e)'
    BY <1>1, <1>2, <1>3, <1>13, <2>1 DEF ComesUp
  <2>8. Restores(c, m, e)'
    <3>1. stack[c][1].had = m => up[m]
      BY <1>1, <1>2, <1>13, <2>1 DEF Restores, Attached
    <3>2. stack[c][1].had = m => called[e] = 0
      BY <3>1 DEF Ups
    <3> QED
      BY <1>8, <1>13, <2>1, <3>2 DEF Restores
  <2>9. SetupScan(c, m, e)' /\ ExitScan(c, m)'
    BY <1>1, <1>2, <1>3, <1>8, <1>13, <2>1, ScansKept
  <2>10. Loud(c, m)
    BY <2>1 DEF Loud
  <2> QED
    BY <2>4, <2>5, <2>6, <2>7, <2>8, <2>9, <2>10
<1>14. CASE d = e
  <2>1. /\ Depth(c)' = Depth(c) /\ (Depth(c) = 2 => stack'[c][2] = stack[c][2])
        /\ stack'[c][1].dev = e /\ stack'[c][1].op = stack[c][1].op
        /\ stack'[c][1].at = "body" /\ stack'[c][1].had = stack[c][1].had
    BY <1>1, <1>8, <1>14
  <2>2. /\ up'[m] = up[m] /\ called'[m] = called[m]
    BY <1>1, <1>4, <1>5, <1>14
  <2>3. Nesting(c, m, e)'
    BY <1>1, <2>1 DEF Nesting
  <2>4. SetupScan(c, m, e)' /\ ExitScan(c, m)'
    BY <1>1, <1>2, <1>3, <1>14, <2>1, <2>2, ScansKept
  <2>5. Loud(c, m)
    BY <1>1, <2>1 DEF Loud
  <2>6. CASE stack[c][1].op = "setup"
    <3>1. con' = con /\ up' = up /\ called[e] = 0 /\ called'[e] = 1
      BY <1>3, <1>9, <1>14, <2>6
    <3>2. ~up[m] /\ ~up[e]
      BY <1>1, <1>2, <1>14, <2>6, <3>1 DEF Bodies, Ups
    <3>3. Bodies(c, m, e)'
      BY <1>1, <2>1, <2>2, <2>6, <3>1, <3>2 DEF Bodies
    <3>4. Ups(m, e)' /\ Attached(m, e)'
      BY <1>3, <2>2, <3>1, <3>2 DEF Ups, Attached
    <3>5. ComesUp(c, m, e)'
      BY <1>1, <1>2, <1>3, <1>14, <2>1, <2>2, <2>6, <3>1 DEF ComesUp
    <3>6. Restores(c, m, e)'
      BY <1>1, <1>2, <1>14, <2>1, <2>6, <3>1 DEF Restores
    <3> QED
      BY <2>3, <2>4, <2>5, <3>3, <3>4, <3>5, <3>6
  <2>7. CASE stack[c][1].op = "exit"
    <3>1. con' = 0 /\ ~up'[e] /\ called[e] = 1 /\ called'[e] = 0
      BY <1>3, <1>5, <1>9, <1>10, <1>14, <2>7
    <3>2. ~up[m]
      BY <3>1 DEF Ups
    <3>3. Bodies(c, m, e)'
      BY <1>1, <2>1, <2>2, <2>7, <3>1, <3>2 DEF Bodies
    <3>4. Ups(m, e)'
      BY <2>2, <3>1, <3>2 DEF Ups
    <3>5. Attached(m, e)'
      BY <2>2, <3>1, <3>2 DEF Attached
    <3>6. ComesUp(c, m, e)'
      BY <1>1, <1>2, <1>3, <1>14, <2>1, <2>2, <3>1 DEF ComesUp
    <3>7. Restores(c, m, e)'
      BY <1>1, <1>6, <2>1, <2>7 DEF Restores
    <3> QED
      BY <2>3, <2>4, <2>5, <3>3, <3>4, <3>5, <3>6, <3>7
  <2> QED
    BY <1>1, <2>6, <2>7
<1> QED
  BY <1>1, <1>11, <1>12, <1>13, <1>14

(* A call is over: what its callback did is known, and what it leaves is    *)
(* the call that waited for it, or nothing.                                 *)
LEMMA PopConsole ==
  ASSUME NEW c, NEW m, NEW e, OneCore(c, m, e), ConsoleInv(c, m, e),
         TopAt(c, "body"), SetStack(c, Tail(stack[c]))
  PROVE  /\ Depth(c)' = Depth(c) - 1 /\ (Depth(c) = 2 => stack'[c][1] = stack[c][2])
         /\ Nesting(c, m, e)'
         /\ UNCHANGED <<exec, called, scan>> => SetupScan(c, m, e)' /\ ExitScan(c, m)'
<1> USE DEF ConsoleInv, ConsoleState
<1>1. /\ c \in Cores /\ m \in Dev /\ e \in Dev /\ m # 0 /\ e # 0 /\ m # e
      /\ Depth(c) = 1 \/ Depth(c) = 2
      /\ stack[c] # <<>> /\ Top(c) = stack[c][1] /\ stack[c][1].dev \in Dev
      /\ stack[c][1].op \in {"setup", "exit"} /\ stack[c][1].at = "body"
      /\ Depth(c) = 2 => stack[c][2].at \in {"body", "end"}
      /\ ~percpu[m] /\ ~percpu[e]
      /\ sorder[m] \in Int /\ sorder[e] \in Int /\ sorder[e] < sorder[m]
  BY TopConsole
<1>2. Depth(c)' = Depth(c) - 1 /\ (Depth(c) = 2 => stack'[c][1] = stack[c][2])
  BY <1>1, PopView DEF ExecInv
<1>3. Nesting(c, m, e)'
  BY <1>1, <1>2 DEF Nesting
<1>4. Depth(c) = 2 => stack[c][2].dev = m
  BY DEF Nesting
<1>5. UNCHANGED <<exec, called, scan>> => SetupScan(c, m, e)' /\ ExitScan(c, m)'
  BY <1>1, <1>2, <1>4, ScansKept
<1> QED
  BY <1>2, <1>3, <1>5

(* driver_setup has succeeded. *)
LEMMA StartedConsole ==
  ASSUME NEW c, NEW m, NEW e, OneCore(c, m, e), ConsoleInv(c, m, e), Started(c)
  PROVE  ConsoleState(c, m, e)' /\ Loud(c, m)
<1> USE DEF ConsoleInv, ConsoleState
<1>1. /\ c \in Cores /\ m \in Dev /\ e \in Dev /\ m # 0 /\ e # 0 /\ m # e
      /\ Depth(c) = 1 \/ Depth(c) = 2
      /\ stack[c] # <<>> /\ Top(c) = stack[c][1] /\ stack[c][1].dev \in Dev
      /\ stack[c][1].op \in {"setup", "exit"} /\ stack[c][1].at = "body"
      /\ Depth(c) = 2 => stack[c][2].at \in {"body", "end"}
      /\ ~percpu[m] /\ ~percpu[e]
      /\ sorder[m] \in Int /\ sorder[e] \in Int /\ sorder[e] < sorder[m]
  <2>1. TopAt(c, "body")
    BY DEF Started
  <2> QED
    BY <2>1, TopConsole
<1>2. PICK d \in Dev : d = stack[c][1].dev
  BY <1>1
<1>3. /\ up' = [up EXCEPT ![d] = TRUE] /\ con' = (IF d \in Consoles THEN d ELSE con)
      /\ stack[c][1].op = "setup" /\ UNCHANGED <<exec, scan, called, raced, failed>>
  BY <1>1, <1>2 DEF Started
<1>4. up'[d] /\ \A x \in Dev : x # d => up'[x] = up[x]
  BY <1>3 DEF ExecInv, Cells
<1>5. /\ Depth(c)' = Depth(c) - 1 /\ (Depth(c) = 2 => stack'[c][1] = stack[c][2])
      /\ Nesting(c, m, e)' /\ SetupScan(c, m, e)' /\ ExitScan(c, m)'
  BY <1>3, PopConsole DEF Started
<1>6. Depth(c) = 2 => d = e /\ stack[c][2].dev = m /\ stack[c][2].at = "end"
  BY <1>1, <1>2, <1>3 DEF Nesting
<1>7. d \in Consoles <=> d \in {m, e}
  BY DEF OneCore
<1>8. con # 0 => con \in {m, e}
  BY DEF ExecInv, Cells, OneCore
<1>9. CASE d \notin {m, e}
  <2>1. Depth(c)' = 0 /\ con' = con /\ up'[m] = up[m] /\ up'[e] = up[e]
    <3>1. Depth(c) = 1
      BY <1>1, <1>6, <1>9
    <3>2. Depth(c)' = 0
      BY <1>5, <3>1
    <3>3. con' = con
      BY <1>3, <1>7, <1>9
    <3>4. up'[m] = up[m] /\ up'[e] = up[e]
      BY <1>1, <1>4, <1>9
    <3> QED
      BY <3>2, <3>3, <3>4
  <2>2. Bodies(c, m, e)' /\ Restores(c, m, e)'
    BY <2>1 DEF Bodies, Restores
  <2>3. Ups(m, e)' /\ Attached(m, e)'
    BY <1>3, <1>8, <2>1 DEF Ups, Attached
  <2>4. ComesUp(c, m, e)'
    BY <1>1, <1>2, <1>3, <1>6, <1>9, <2>1 DEF ComesUp
  <2>5. Loud(c, m)
    BY <1>1, <1>2, <1>3, <1>9, <2>1 DEF Loud, Restores
  <2> QED
    BY <1>5, <2>2, <2>3, <2>4, <2>5
<1>10. CASE d = m
  <2>1. Depth(c) = 1 /\ Depth(c)' = 0 /\ con' = m /\ up'[m] /\ up'[e] = up[e]
    <3>1. Depth(c) = 1
      BY <1>1, <1>6, <1>10
    <3>2. Depth(c)' = 0
      BY <1>5, <3>1
    <3>3. con' = m
      BY <1>3, <1>7, <1>10
    <3>4. up'[m] /\ up'[e] = up[e]
      BY <1>1, <1>4, <1>10
    <3> QED
      BY <3>1, <3>2, <3>3, <3>4
  <2>2. called[m] = 1 /\ called[e] = 0
    BY <1>1, <1>2, <1>3, <1>10, <2>1 DEF Bodies
  <2>3. ~up[e]
    BY <2>2 DEF Ups
  <2>4. Bodies(c, m, e)' /\ Restores(c, m, e)'
    BY <2>1 DEF Bodies, Restores
  <2>5. Ups(m, e)'
    BY <1>3, <2>1, <2>2, <2>3 DEF Ups
  <2>6. Attached(m, e)'
    BY <2>1, <2>3 DEF Attached
  <2>7. ComesUp(c, m, e)'
    BY <1>3, <2>1, <2>2 DEF ComesUp
  <2>8. Loud(c, m)
    BY <1>1, <2>1 DEF Loud
  <2> QED
    BY <1>5, <2>4, <2>5, <2>6, <2>7, <2>8
<1>11. CASE d = e
  <2>1. con' = e /\ up'[e] /\ up'[m] = up[m]
    BY <1>1, <1>3, <1>4, <1>7, <1>11
  <2>2. called[e] = 1 /\ ~up[m]
    BY <1>1, <1>2, <1>3, <1>11 DEF Bodies
  <2>3. Bodies(c, m, e)' /\ Restores(c, m, e)'
    BY <1>1, <1>5, <1>6, <2>1, <2>2 DEF Bodies, Restores
  <2>4. Ups(m, e)'
    BY <1>3, <2>1, <2>2 DEF Ups
  <2>5. Attached(m, e)'
    BY <2>1, <2>2 DEF Attached
  <2>6. ComesUp(c, m, e)'
    BY <1>1, <1>2, <1>3, <1>5, <1>6, <1>11, <2>1 DEF ComesUp
  <2>7. Loud(c, m)
    BY <1>1, <2>1 DEF Loud
  <2> QED
    BY <1>5, <2>3, <2>4, <2>5, <2>6, <2>7
<1> QED
  BY <1>9, <1>10, <1>11

(* driver_setup has failed; it is not that of e. *)
LEMMA NotStartedConsole ==
  ASSUME NEW c, NEW m, NEW e, OneCore(c, m, e), ConsoleInv(c, m, e), NotStarted(c)
  PROVE  ConsoleState(c, m, e)' /\ Loud(c, m)
<1> USE DEF ConsoleInv, ConsoleState
<1>1. /\ c \in Cores /\ m \in Dev /\ e \in Dev /\ m # 0 /\ e # 0 /\ m # e
      /\ Depth(c) = 1 \/ Depth(c) = 2
      /\ stack[c] # <<>> /\ Top(c) = stack[c][1] /\ stack[c][1].dev \in Dev
      /\ stack[c][1].op \in {"setup", "exit"} /\ stack[c][1].at = "body"
      /\ Depth(c) = 2 => stack[c][2].at \in {"body", "end"}
      /\ ~percpu[m] /\ ~percpu[e]
      /\ sorder[m] \in Int /\ sorder[e] \in Int /\ sorder[e] < sorder[m]
  <2>1. TopAt(c, "body")
    BY DEF NotStarted
  <2> QED
    BY <2>1, TopConsole
<1>2. PICK d \in Dev : d = stack[c][1].dev
  BY <1>1
<1>3. /\ up' = [up EXCEPT ![d] = FALSE] /\ con' = (IF d \in Consoles THEN 0 ELSE con)
      /\ stack[c][1].op = "setup" /\ d # e /\ failed' /\ SetStack(c, Ending(c))
      /\ UNCHANGED <<exec, scan, called, raced>>
  BY <1>1, <1>2 DEF NotStarted, OneCore
<1>4. ~up'[d] /\ \A x \in Dev : x # d => up'[x] = up[x]
  BY <1>3 DEF ExecInv, Cells
<1>5. Depth(c) = 1
  BY <1>1, <1>2, <1>3 DEF Nesting
<1>6. d \in Consoles <=> d \in {m, e}
  BY DEF OneCore
<1>7. con # 0 => con \in {m, e}
  BY DEF ExecInv, Cells, OneCore
<1>8. ComesUp(c, m, e)'
  BY <1>3 DEF ComesUp
<1>9. CASE d # m
  <2>1. SetStack(c, Tail(stack[c]))
    BY <1>1, <1>2, <1>3, <1>9 DEF Ending, OneCore
  <2>2. /\ Depth(c)' = 0 /\ Nesting(c, m, e)' /\ SetupScan(c, m, e)' /\ ExitScan(c, m)'
    BY <1>3, <1>5, <2>1, PopConsole DEF NotStarted
  <2>3. con' = con /\ up'[m] = up[m] /\ up'[e] = up[e]
    BY <1>1, <1>3, <1>4, <1>6, <1>9
  <2>4. Bodies(c, m, e)' /\ Restores(c, m, e)'
    BY <2>2 DEF Bodies, Restores
  <2>5. Ups(m, e)' /\ Attached(m, e)'
    BY <1>3, <1>7, <2>3 DEF Ups, Attached
  <2>6. Loud(c, m)
    BY <1>1, <1>2, <1>3, <1>9, <2>3 DEF Loud, Restores
  <2> QED
    BY <1>8, <2>2, <2>4, <2>5, <2>6
<1>10. CASE d = m
  <2>1. /\ Depth(c)' = 2
        /\ stack'[c][1].dev = e /\ stack'[c][1].op = "setup" /\ stack'[c][1].at = "test"
        /\ stack'[c][2].dev = m /\ stack'[c][2].op = "setup" /\ stack'[c][2].at = "end"
        /\ stack'[c][2].had = stack[c][1].had
    <3>1. stepsIn[stack[c][1].dev] = e /\ "setup" \in Ops /\ "end" \in {"body", "end"}
      BY <1>2, <1>10 DEF OneCore, Ops
    <3>2. Ending(c) = Nested(c, "setup", "end")
      BY <1>1, <3>1 DEF Ending, Nested
    <3> QED
      BY <1>1, <1>2, <1>3, <1>10, <3>1, <3>2, NestView DEF ExecInv
  <2>2. con' = 0 /\ ~up'[m] /\ up'[e] = up[e]
    BY <1>1, <1>3, <1>4, <1>6, <1>10
  <2>3. called[e] = 0
    BY <1>1, <1>2, <1>3, <1>5, <1>10 DEF Bodies
  <2>4. Nesting(c, m, e)' /\ Bodies(c, m, e)'
    BY <1>1, <2>1, <2>2 DEF Nesting, Bodies
  <2>5. Ups(m, e)'
    BY <1>3, <2>2 DEF Ups
  <2>6. Attached(m, e)'
    BY <1>3, <2>2 DEF Attached
  <2>7. Restores(c, m, e)'
    BY <1>3, <2>1, <2>3 DEF Restores
  <2>8. SetupScan(c, m, e)' /\ ExitScan(c, m)'
    BY <1>1, <1>2, <1>3, <1>5, <1>10, <2>1, ScansKept
  <2>9. Loud(c, m)
    BY <2>1 DEF Loud
  <2> QED
    BY <1>8, <2>4, <2>5, <2>6, <2>7, <2>8, <2>9
<1> QED
  BY <1>9, <1>10

(* The end of driver_exit. *)
LEMMA StoppedConsole ==
  ASSUME NEW c, NEW m, NEW e, OneCore(c, m, e), ConsoleInv(c, m, e), Stopped(c)
  PROVE  ConsoleState(c, m, e)' /\ Loud(c, m)
<1> USE DEF ConsoleInv, ConsoleState
<1>1. /\ c \in Cores /\ m \in Dev /\ e \in Dev /\ m # 0 /\ e # 0 /\ m # e
      /\ Depth(c) = 1 \/ Depth(c) = 2
      /\ stack[c] # <<>> /\ Top(c) = stack[c][1] /\ stack[c][1].dev \in Dev
      /\ stack[c][1].op \in {"setup", "exit"} /\ stack[c][1].at = "body"
      /\ Depth(c) = 2 => stack[c][2].at \in {"body", "end"}
      /\ ~percpu[m] /\ ~percpu[e]
      /\ sorder[m] \in Int /\ sorder[e] \in Int /\ sorder[e] < sorder[m]
  <2>1. TopAt(c, "body")
    BY DEF Stopped
  <2> QED
    BY <2>1, TopConsole
<1>2. /\ stack[c][1].op = "exit" /\ SetStack(c, Ending(c))
      /\ UNCHANGED <<exec, con, scan, up, called, raced, failed>>
  BY <1>1 DEF Stopped
<1>3. Depth(c) = 2 => /\ stack[c][1].dev = e /\ stack[c][2].dev = m
                      /\ stack[c][2].at = "body" /\ stack[c][2].op = "setup"
  BY <1>1, <1>2 DEF Nesting
<1>4. Ups(m, e)' /\ Attached(m, e)'
  BY <1>2 DEF Ups, Attached
<1>5. CASE stack[c][1].dev # m
  <2>1. SetStack(c, Tail(stack[c]))
    BY <1>1, <1>2, <1>5 DEF Ending, OneCore
  <2>2. /\ Depth(c)' = Depth(c) - 1 /\ (Depth(c) = 2 => stack'[c][1] = stack[c][2])
        /\ Nesting(c, m, e)' /\ SetupScan(c, m, e)' /\ ExitScan(c, m)'
    BY <1>2, <2>1, PopConsole DEF Stopped
  <2>3. Depth(c) = 2 => called[e] = 0
    BY <1>1, <1>2, <1>3 DEF Bodies
  <2>4. Bodies(c, m, e)'
    BY <1>1, <1>2, <1>3, <2>2, <2>3 DEF Bodies
  <2>5. ComesUp(c, m, e)'
    BY <1>1, <1>2, <1>3, <2>2 DEF ComesUp
  <2>6. Restores(c, m, e)'
    BY <1>1, <1>3, <2>2 DEF Restores
  <2>7. Loud(c, m)
    BY <1>2, <1>5 DEF Loud
  <2> QED
    BY <1>4, <2>2, <2>4, <2>5, <2>6, <2>7
<1>6. CASE stack[c][1].dev = m
  <2>1. Depth(c) = 1
    BY <1>1, <1>3, <1>6
  <2>2. /\ Depth(c)' = 2
        /\ stack'[c][1].dev = e /\ stack'[c][1].op = "setup" /\ stack'[c][1].at = "test"
        /\ stack'[c][2].dev = m /\ stack'[c][2].op = "exit" /\ stack'[c][2].at = "end"
        /\ stack'[c][2].had = stack[c][1].had
    <3>1. stepsIn[stack[c][1].dev] = e /\ "setup" \in Ops /\ "end" \in {"body", "end"}
      BY <1>6 DEF OneCore, Ops
    <3>2. Ending(c) = Nested(c, "setup", "end")
      BY <1>1, <3>1 DEF Ending, Nested
    <3> QED
      BY <1>1, <1>2, <1>6, <3>1, <3>2, NestView DEF ExecInv
  <2>3. ~up[m]
    BY <1>1, <1>6 DEF Bodies
  <2>4. Nesting(c, m, e)' /\ Bodies(c, m, e)'
    BY <1>1, <1>2, <2>2, <2>3 DEF Nesting, Bodies
  <2>5. ComesUp(c, m, e)'
    BY <1>1, <1>2, <2>1, <2>2 DEF ComesUp
  <2>6. Restores(c, m, e)'
    BY <1>1, <1>2, <1>6, <2>1, <2>2 DEF Restores
  <2>7. SetupScan(c, m, e)' /\ ExitScan(c, m)'
    BY <1>1, <1>2, <1>6, <2>1, <2>2, ScansKept
  <2>8. Loud(c, m)
    BY <2>2 DEF Loud
  <2> QED
    BY <1>4, <2>4, <2>5, <2>6, <2>7, <2>8
<1> QED
  BY <1>5, <1>6

(* The return of a call that called the core again. *)
LEMMA ReturnConsole ==
  ASSUME NEW c, NEW m, NEW e, OneCore(c, m, e), ConsoleInv(c, m, e), Return(c)
  PROVE  ConsoleState(c, m, e)' /\ Loud(c, m)
<1> USE DEF ConsoleInv, ConsoleState
<1>1. /\ c \in Cores /\ m \in Dev /\ e \in Dev /\ m # 0 /\ e # 0 /\ m # e
      /\ Depth(c) = 1 \/ Depth(c) = 2
      /\ stack[c] # <<>> /\ Top(c) = stack[c][1] /\ stack[c][1].dev \in Dev
      /\ stack[c][1].op \in {"setup", "exit"} /\ stack[c][1].at = "end"
      /\ Depth(c) = 2 => stack[c][2].at \in {"body", "end"}
      /\ ~percpu[m] /\ ~percpu[e]
      /\ sorder[m] \in Int /\ sorder[e] \in Int /\ sorder[e] < sorder[m]
  <2>1. TopAt(c, "end")
    BY DEF Return
  <2> QED
    BY <2>1, TopConsole
<1>2. SetStack(c, Tail(stack[c])) /\ UNCHANGED <<exec, con, scan, up, called, raced, failed>>
  BY DEF Return
<1>3. Depth(c) = 1 /\ stack[c][1].dev = m
  BY <1>1 DEF Nesting
<1>4. Depth(c)' = 0
  BY <1>1, <1>2, <1>3, PopView DEF ExecInv
<1>5. Nesting(c, m, e)' /\ Bodies(c, m, e)' /\ Restores(c, m, e)'
  BY <1>4 DEF Nesting, Bodies, Restores
<1>6. Ups(m, e)' /\ Attached(m, e)'
  BY <1>2 DEF Ups, Attached
<1>7. ComesUp(c, m, e)'
  BY <1>1, <1>2, <1>3, <1>4 DEF ComesUp
<1>8. SetupScan(c, m, e)' /\ ExitScan(c, m)'
  BY <1>1, <1>2, <1>3, <1>4, ScansKept
<1>9. Loud(c, m)
  BY <1>1, <1>2, <1>3 DEF Loud, Restores
<1> QED
  BY <1>5, <1>6, <1>7, <1>8, <1>9

(* At power on there is no console. *)
LEMMA ConsoleInit ==
  ASSUME NEW c, NEW m, NEW e, OneCore(c, m, e), Init
  PROVE  ConsoleInv(c, m, e)
<1>1. ExecInv
  BY ExecInit
<1>2. c \in Cores /\ m \in Dev /\ e \in Dev
  BY DEF OneCore
<1>3. Depth(c) = 0 /\ called[m] = 0 /\ called[e] = 0 /\ con = 0 /\ scan[c].op = "none"
  BY <1>2 DEF Init, Depth, NoScan
<1>4. ~up[m] /\ ~up[e] /\ \A d \in Dev : ~raced[d]
  BY <1>2 DEF Init
<1>5. Nesting(c, m, e) /\ Bodies(c, m, e) /\ Restores(c, m, e)
  BY <1>3 DEF Nesting, Bodies, Restores
<1>6. Ups(m, e) /\ Attached(m, e)
  BY <1>3, <1>4 DEF Ups, Attached
<1>7. ComesUp(c, m, e) /\ SetupScan(c, m, e) /\ ExitScan(c, m)
  BY <1>3 DEF ComesUp, SetupScan, ExitScan
<1> QED
  BY <1>1, <1>4, <1>5, <1>6, <1>7 DEF ConsoleInv, ConsoleState

(* What a step of the core does to the consoles. *)
LEMMA CoreStep ==
  ASSUME NEW c, NEW m, NEW e, OneCore(c, m, e), ConsoleInv(c, m, e), Next
  PROVE  /\ ConsoleState(c, m, e)' /\ Loud(c, m)
         /\ scan[c].op = "exit" /\ scan'[c] = NoScan =>
              \A d \in Dev : ~percpu[d] => exec'[d] = 0
         /\ \A d \in Dev : ~raced'[d]
<1>1. c \in Cores /\ \A x \in Cores : x = c
  BY DEF OneCore
<1>2. \/ \E op \in Ops : All(c, op) \/ \E d \in Dev : ByName(c, op, d)
      \/ Working(c)
  BY <1>1, Zenon DEF Next
<1>3. scan[c] # NoScan => scan[c].op \in Ops
  BY <1>1 DEF ConsoleInv, ExecInv, Cells, Scans
<1>4. NoScan.op = "none"
  BY DEF NoScan
<1>5. raced \in [Dev -> BOOLEAN] /\ \A d \in Dev : ~raced[d]
  BY DEF ConsoleInv, ExecInv, Cells
<1>6. CASE \E op \in Ops : All(c, op)
  <2>1. PICK op \in Ops : All(c, op)
    BY <1>6
  <2>2. ConsoleState(c, m, e)'
    BY <2>1, AllConsole
  <2>3. UNCHANGED <<raced, stack>> /\ scan[c] = NoScan
    BY <2>1 DEF All, Idle
  <2>4. Loud(c, m)
    BY <2>3 DEF Loud, Depth
  <2> QED
    BY <1>4, <1>5, <2>2, <2>3, <2>4
<1>7. CASE \E op \in Ops : \E d \in Dev : ByName(c, op, d)
  <2>1. PICK op \in Ops, d \in Dev : ByName(c, op, d)
    BY <1>7
  <2>2. ConsoleState(c, m, e)'
    BY <2>1, ByNameConsole
  <2>3. UNCHANGED raced /\ scan[c] = NoScan /\ stack[c] = <<>>
    BY <2>1 DEF ByName, Idle, InCall
  <2>4. Loud(c, m)
    BY <2>3 DEF Loud, Depth
  <2> QED
    BY <1>4, <1>5, <2>2, <2>3, <2>4
<1>8. CASE Scan(c)
  <2>1. UNCHANGED raced /\ stack[c] = <<>>
    BY <1>8 DEF Scan, InCall
  <2>2. Loud(c, m)
    BY <2>1 DEF Loud, Depth
  <2>3. \A d \in Dev : ~raced'[d]
    BY <1>5, <2>1
  <2> QED
    BY <1>8, <2>2, <2>3, ScanConsole
<1>9. CASE Test(c)
  <2>1. UNCHANGED scan
    BY <1>9 DEF Test
  <2>2. Cores \ {c} = {}
    BY DEF OneCore
  <2>3. \A d : ~Claiming(c, d)
    BY <2>2, Zenon DEF Claiming
  <2>4. raced' = [raced EXCEPT ![Top(c).dev] = @ \/ Claiming(c, Top(c).dev)]
    BY <1>9 DEF Test
  <2>5. \A d \in Dev : ~raced'[d]
    BY <1>5, <2>3, <2>4
  <2> QED
    BY <1>3, <1>4, <1>9, <2>1, <2>5, TestConsole DEF Ops
<1>10. CASE \/ Claim(c) \/ Call(c) \/ Started(c) \/ NotStarted(c) \/ Stopped(c) \/ Return(c)
  <2>1. UNCHANGED <<scan, raced>>
    BY <1>10 DEF Claim, Call, Started, NotStarted, Stopped, Return
  <2>2. ConsoleState(c, m, e)' /\ Loud(c, m)
    BY <1>10, ClaimConsole, CallConsole, StartedConsole, NotStartedConsole, StoppedConsole,
       ReturnConsole
  <2>3. ~(scan[c].op = "exit" /\ scan'[c] = NoScan)
    BY <1>4, <2>1
  <2>4. \A d \in Dev : ~raced'[d]
    BY <1>5, <2>1
  <2> QED
    BY <2>2, <2>3, <2>4
<1> QED
  BY <1>2, <1>6, <1>7, <1>8, <1>9, <1>10 DEF Working

(* Every step of the core keeps the invariant of the consoles. *)
LEMMA ConsoleStep ==
  ASSUME NEW c, NEW m, NEW e, OneCore(c, m, e), ConsoleInv(c, m, e), [Next]_vars
  PROVE  ConsoleInv(c, m, e)'
<1>1. ExecInv'
  BY ExecStep DEF ConsoleInv
<1>2. CASE UNCHANGED vars
  <2>1. (\A d \in Dev : ~raced[d])' /\ ConsoleState(c, m, e)'
    BY <1>2 DEF vars, ConsoleInv, ConsoleState, Nesting, Bodies, Ups, Attached, ComesUp,
                SetupScan, Restores, ExitScan, Passed, Depth
  <2> QED
    BY <1>1, <2>1 DEF ConsoleInv
<1>3. CASE Next
  BY <1>1, <1>3, CoreStep DEF ConsoleInv
<1> QED
  BY <1>2, <1>3

(* The invariant says what ConsoleSound promises. *)
LEMMA ConsoleInvSound ==
  ASSUME NEW c, NEW m, NEW e, OneCore(c, m, e), ConsoleInv(c, m, e)
  PROVE  ConsoleSound
<1>1. Consoles = {m, e}
  BY DEF OneCore
<1>2. ~(up[m] /\ up[e])
  BY DEF ConsoleInv, ConsoleState, Ups
<1>3. OneConsole
  BY <1>1, <1>2 DEF OneConsole
<1>4. ConsoleAttached
  BY <1>1 DEF ConsoleAttached, ConsoleInv, ConsoleState, Attached
<1> QED
  BY <1>3, <1>4 DEF ConsoleSound

(* driver.c and the console drivers on one core, for every table of devices *)
(* and every device but e that fails to start: the early console and the    *)
(* console that replaces it are never both up, and between calls stdcon     *)
(* writes through a driver that is up.                                      *)
THEOREM ConsoleCorrect ==
  ASSUME NEW c, NEW m, NEW e, OneCore(c, m, e)
  PROVE  Spec => []ConsoleSound
<1>1. Init => ConsoleInv(c, m, e)
  BY ConsoleInit
<1>2. ConsoleInv(c, m, e) /\ [Next]_vars => ConsoleInv(c, m, e)'
  BY ConsoleStep
<1>3. ConsoleInv(c, m, e) => ConsoleSound
  BY ConsoleInvSound
<1> QED
  BY <1>1, <1>2, <1>3, PTL DEF Spec

(* The same, of what a call leaves behind: no driver_setup loses the        *)
(* console, stopping the console in use brings the early one back, and      *)
(* driver_exit_all leaves no device started.                                *)
THEOREM LifecycleCorrect ==
  ASSUME NEW k, NEW m, NEW e, OneCore(k, m, e)
  PROVE  Spec => LifecycleKept
<1>1. Init => ConsoleInv(k, m, e)
  BY ConsoleInit
<1>2. ConsoleInv(k, m, e) /\ [Next]_vars => ConsoleInv(k, m, e)'
  BY ConsoleStep
<1>3. ASSUME ConsoleInv(k, m, e), Next, NEW c \in Cores,
             Len(stack[c]) = 1, stack'[c] = <<>>
      PROVE  /\ Top(c).op = "setup" /\ Top(c).had # 0 => con' # 0
             /\ /\ Top(c).op = "exit" /\ Top(c).had = Top(c).dev
                /\ stepsIn[Top(c).dev] # 0
                => con' # 0
  <2>1. c = k
    BY DEF OneCore
  <2>2. Loud(k, m)
    BY <1>3, CoreStep
  <2>3. Depth(k) = 1 /\ Depth(k)' = 0
    BY <1>3, <2>1 DEF Depth
  <2>4. stack[k] # <<>> /\ stack[k] \in Seq(Frames)
    <3>1. Len(<<>>) # 1
      OBVIOUS
    <3>2. stack[k] # <<>>
      BY <1>3, <2>1, <3>1, Zenon
    <3>3. stack[k] \in Seq(Frames)
      BY <1>3, <2>1 DEF ConsoleInv, ExecInv, Cells
    <3> QED
      BY <3>2, <3>3
  <2>5. Top(k) = stack[k][1] /\ stack[k][1] \in Frames
    BY <1>3, <2>1, <2>4, HeadTail DEF Top
  <2>6. stack[k][1].dev \in Dev
    BY <2>5 DEF Frames
  <2>7. stepsIn[stack[k][1].dev] # 0 => stack[k][1].dev = m
    BY <2>6 DEF OneCore
  <2> QED
    BY <2>1, <2>2, <2>3, <2>5, <2>7 DEF Loud
<1>4. ASSUME ConsoleInv(k, m, e), Next, NEW c \in Cores,
             scan[c].op = "exit", scan'[c] = NoScan
      PROVE  \A d \in Dev : ~percpu[d] => exec'[d] = 0
  <2>1. c = k
    BY DEF OneCore
  <2> QED
    BY <1>4, <2>1, CoreStep
<1>5. ASSUME ConsoleInv(k, m, e), [Next]_vars
      PROVE
        [\A c \in Cores :
           Len(stack[c]) = 1 /\ stack'[c] = <<>> =>
             LET f == Top(c)
             IN  /\ f.op = "setup" /\ f.had # 0 => con' # 0
                 /\ f.op = "exit" /\ f.had = f.dev /\ stepsIn[f.dev] # 0 => con' # 0]_vars
  BY <1>3, <1>5
<1>6. ASSUME ConsoleInv(k, m, e), [Next]_vars
      PROVE
        [\A c \in Cores :
           scan[c].op = "exit" /\ scan'[c] = NoScan =>
             \A d \in Dev : ~percpu[d] => exec'[d] = 0]_vars
  BY <1>4, <1>6
<1>7. Spec => NeverSilent
  BY <1>1, <1>2, <1>5, PTL DEF Spec, NeverSilent
<1>8. Spec => ExitAllStopsAll
  BY <1>1, <1>2, <1>6, PTL DEF Spec, ExitAllStopsAll
<1> QED
  BY <1>7, <1>8 DEF LifecycleKept
=============================================================================
