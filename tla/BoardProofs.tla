----------------------------- MODULE BoardProofs -----------------------------
(***************************************************************************)
(* Theorems about the clock tree of the FE310 (Prci) and the pins of both  *)
(* chips (Pins).                                                           *)
(***************************************************************************)
EXTENDS Prci, Pins, FoldFacts

-----------------------------------------------------------------------------
(* The clock tree.                                                         *)

Writes ==
  {Do(op) : op \in {"xosc_on", "xosc_off", "rosc_on", "rosc_off", "ref_xosc", "ref_rosc",
                    "select", "deselect", "bypass", "inline", "wait"}}
  \cup {[op |-> "rosc_div", clk |-> clk] : clk \in OscClks \cup {OffClk}}
  \cup {[op |-> "pll", clk |-> clk] : clk \in PllClks}

(* The registers, the switches among them being bits. *)
RegOK ==
  /\ reg = [xosc |-> reg.xosc, rosc |-> reg.rosc, div |-> reg.div, refx |-> reg.refx,
            sel |-> reg.sel, bypass |-> reg.bypass, s |-> reg.s, n |-> reg.n, by1 |-> reg.by1]
  /\ reg.xosc \in BOOLEAN /\ reg.rosc \in BOOLEAN /\ reg.refx \in BOOLEAN
  /\ reg.sel \in BOOLEAN /\ reg.bypass \in BOOLEAN /\ reg.by1 \in BOOLEAN

(* The oscillator the core runs from is on. *)
Alive == IF FromXosc THEN reg.xosc ELSE reg.rosc

(* The registers of the PLL hold the configuration pll.c remembers, its    *)
(* divider unless another one was set before.                              *)
PllMatches ==
  pllc.found =>
    /\ reg.s = pllc.s /\ reg.by1 = ~pllc.diven
    /\ pllc.diven /\ ~ored => reg.n = pllc.n

(* What is known of the registers after the first i writes of a sequence. *)
InInternal(i) ==
  /\ i \in 1 .. 7 => reg.xosc
  /\ i >= 3 => reg.rosc
  /\ i >= 5 => ~reg.refx
  /\ i >= 6 => ~reg.sel
InExternal(i) ==
  /\ i \in 1 .. 5 => reg.rosc
  /\ i >= 2 => reg.xosc
  /\ i >= 3 => reg.refx
  /\ i >= 4 => reg.sel
  /\ i >= 5 => reg.bypass
InPll(i) ==
  /\ i \in 1 .. 8 => reg.rosc
  /\ i >= 2 => reg.xosc
  /\ i >= 4 => reg.refx
  /\ i >= 5 => pllc.found
  /\ i >= 7 => reg.sel
  /\ i >= 8 => ~reg.bypass
InOff(i) ==
  /\ i >= 1 => reg.rosc
  /\ i >= 3 => ~reg.sel

(* The writes of p that are left after the first i. *)
Left(p, i) == SubSeq(p, i + 1, Len(p))

(* Between two calls the registers are what clk_type says, unless it was   *)
(* kept over a sysclk_disable; before the first call clk_type is internal. *)
AtRest ==
  /\ ctype = "internal" => ~reg.sel
  /\ ctype = "external" /\ ~drv.kept => reg.sel /\ reg.refx /\ reg.bypass
  /\ ctype = "pll" /\ ~drv.kept => reg.sel /\ ~reg.bypass /\ pllc.found

UnderWay ==
  \/ todo = <<>> /\ AtRest
  \/ \E clk \in OscClks, i \in 0 .. 7 :
       todo = Left(SetInternal(clk), i) /\ ctype = "internal" /\ InInternal(i)
  \/ \E clk \in OscClks, i \in 0 .. 7 :
       todo = Left(SetInternal(clk) \o SetExternal, i) /\ ctype = "external" /\ InInternal(i)
  \/ \E i \in 0 .. 5 : todo = Left(SetExternal, i) /\ ctype = "external" /\ InExternal(i)
  \/ \E clk \in PllClks, i \in 0 .. 8 :
       todo = Left(SetPll(clk), i) /\ ctype = "pll" /\ InPll(i)
  \/ \E i \in 0 .. 3 :
       todo = Left(SetOff, i) /\ InOff(i) /\ (ctype = "internal" \/ drv.kept)

DrvOK == drv = [port |-> drv.port, exec |-> drv.exec, ist |-> drv.ist, kept |-> drv.kept]

PrciInv ==
  /\ RegOK /\ Alive /\ PllMatches /\ UnderWay /\ DrvOK
  /\ ctype \in {"internal", "external", "pll"} /\ ored \in BOOLEAN
  /\ pllc.found \in BOOLEAN

(* The sequences. *)
LEMMA Plans ==
  /\ \A clk \in OscClks : SetInternal(clk) \in Seq(Writes) /\ Len(SetInternal(clk)) = 8
  /\ SetExternal \in Seq(Writes) /\ Len(SetExternal) = 6
  /\ \A clk \in PllClks : SetPll(clk) \in Seq(Writes) /\ Len(SetPll(clk)) = 9
  /\ SetOff \in Seq(Writes) /\ Len(SetOff) = 4
<1>1. ASSUME NEW op \in {"xosc_on", "xosc_off", "rosc_on", "rosc_off", "ref_xosc", "ref_rosc",
                    "select", "deselect", "bypass", "inline", "wait"} PROVE Do(op) \in Writes
  BY DEF Writes
<1>2. \A clk \in OscClks \cup {OffClk} : [op |-> "rosc_div", clk |-> clk] \in Writes
  BY DEF Writes
<1>3. \A clk \in PllClks : [op |-> "pll", clk |-> clk] \in Writes
  BY DEF Writes
<1>4. ASSUME NEW clk \in OscClks PROVE SetInternal(clk) \in Seq(Writes) /\ Len(SetInternal(clk)) = 8
  <2> DEFINE p == SetInternal(clk)
  <2>1. Len(p) = 8 /\ p \in Seq({p[i] : i \in 1 .. 8})  BY DEF SetInternal
  <2>2. \A i \in 1 .. 8 : p[i] \in Writes  BY <1>1, <1>2 DEF SetInternal
  <2>3. p \in Seq(Writes)
    <3> HIDE DEF p
    <3> QED  BY <2>1, <2>2
  <2> QED  BY <2>1, <2>3
<1>5. SetExternal \in Seq(Writes) /\ Len(SetExternal) = 6
  BY <1>1 DEF SetExternal
<1>6. ASSUME NEW clk \in PllClks PROVE SetPll(clk) \in Seq(Writes) /\ Len(SetPll(clk)) = 9
  <2> DEFINE p == SetPll(clk)
  <2>1. Len(p) = 9 /\ p \in Seq({p[i] : i \in 1 .. 9})  BY DEF SetPll
  <2>2. \A i \in 1 .. 9 : p[i] \in Writes  BY <1>1, <1>3 DEF SetPll
  <2>3. p \in Seq(Writes)
    <3> HIDE DEF p
    <3> QED  BY <2>1, <2>2
  <2> QED  BY <2>1, <2>3
<1>7. SetOff \in Seq(Writes) /\ Len(SetOff) = 4
  BY <1>1, <1>2 DEF SetOff
<1> QED  BY <1>4, <1>5, <1>6, <1>7

(* The sequence of an external clock: sysclk_set_internal comes first. *)
LEMMA LongPlan ==
  ASSUME NEW clk \in OscClks
  PROVE  LET p == SetInternal(clk) \o SetExternal
         IN  /\ p \in Seq(Writes) /\ Len(p) = 14
             /\ \A j \in 1 .. 14 : p[j] = IF j <= 8 THEN SetInternal(clk)[j] ELSE SetExternal[j - 8]
<1> DEFINE a == SetInternal(clk)
           b == SetExternal
<1>1. a \in Seq(Writes) /\ Len(a) = 8 /\ b \in Seq(Writes) /\ Len(b) = 6  BY Plans
<1> HIDE DEF a, b
<1>2. /\ a \o b \in Seq(Writes)
      /\ Len(a \o b) = Len(a) + Len(b)
      /\ \A j \in 1 .. Len(a) + Len(b) : (a \o b)[j] = IF j <= Len(a) THEN a[j] ELSE b[j - Len(a)]
  BY <1>1, ConcatProperties
<1>3. Len(a) + Len(b) = 14  BY <1>1
<1> USE DEF a, b
<1> QED  BY <1>1, <1>2, <1>3

(* The second of two plans made after each other. *)
LEMMA SuffixOfConcat ==
  ASSUME NEW a \in Seq(Writes), NEW b \in Seq(Writes), NEW i, i = Len(a) + 1,
         NEW j, j = Len(a) + Len(b), Len(b) > 0
  PROVE  SubSeq(a \o b, i, j) = b
<1>1. /\ Len(a) \in Nat /\ Len(b) \in Nat
      /\ i \in Len(a) + 1 .. Len(a) + Len(b) /\ j \in Len(a) + 1 .. Len(a) + Len(b)
  OBVIOUS
<1>2. SubSeq(a \o b, i, j) = SubSeq(b, i - Len(a), j - Len(a))
  BY <1>1, SubSeqOfConcat2
<1>3. i - Len(a) = 1 /\ j - Len(a) = Len(b)  BY <1>1
<1>4. SubSeq(b, 1, Len(b)) = b  BY SubSeqFull
<1> QED  BY <1>2, <1>3, <1>4

LEMMA NoEmptyPlan ==
  /\ \A clk \in OscClks : SetInternal(clk) # <<>>
  /\ SetExternal # <<>> /\ SetOff # <<>>
  /\ \A clk \in PllClks : SetPll(clk) # <<>>
<1>1. \A q : Len(q) # 0 => q # <<>>  OBVIOUS
<1>2. ASSUME NEW clk \in OscClks PROVE Len(SetInternal(clk)) # 0
  <2>1. Len(SetInternal(clk)) = 8  BY Plans, Zenon
  <2> QED  BY <2>1
<1>3. ASSUME NEW clk \in PllClks PROVE Len(SetPll(clk)) # 0
  <2>1. Len(SetPll(clk)) = 9  BY Plans, Zenon
  <2> QED  BY <2>1
<1>4. Len(SetExternal) # 0 /\ Len(SetOff) # 0  BY Plans
<1> QED  BY <1>1, <1>2, <1>3, <1>4

(* The next write of a sequence, and what it leaves. *)
LEMMA LeftIs ==
  ASSUME NEW p \in Seq(Writes), p # <<>>
  PROVE  /\ Left(p, 0) = p
         /\ Left(p, Len(p)) = <<>>
         /\ \A i \in 0 .. Len(p) - 1 :
              /\ Left(p, i) # <<>> /\ Head(Left(p, i)) = p[i + 1]
              /\ Tail(Left(p, i)) = Left(p, i + 1)
<1>1. Len(p) \in Nat /\ Len(p) > 0  BY EmptySeq
<1>2. Left(p, 0) = p  BY SubSeqFull DEF Left
<1>3. Left(p, Len(p)) = <<>>  BY <1>1, SubSeqEmpty DEF Left
<1>4. ASSUME NEW i \in 0 .. Len(p) - 1
      PROVE  /\ Left(p, i) # <<>> /\ Head(Left(p, i)) = p[i + 1]
             /\ Tail(Left(p, i)) = Left(p, i + 1)
  <2>1. i + 1 \in 1 .. Len(p) /\ Len(p) \in i + 1 .. Len(p)  BY <1>1
  <2>2. Head(Left(p, i)) = p[i + 1] /\ Tail(Left(p, i)) = Left(p, i + 1)
    BY <2>1, HeadTailOfSubSeq DEF Left
  <2>3. Len(Left(p, i)) = Len(p) - i
    <3>1. \A j \in i + 1 .. Len(p) : p[j] \in Writes  BY <2>1, ElementOfSeq
    <3> QED  BY <2>1, <3>1, SubSeqProperties DEF Left
  <2> QED  BY <1>1, <2>1, <2>2, <2>3, EmptySeq
<1> QED  BY <1>2, <1>3, <1>4

(* What each write does to the switches. *)
LEMMA WrittenIs ==
  ASSUME RegOK, NEW w \in Writes, NEW g, g = Written(reg, w)
  PROVE  /\ g = [xosc |-> g.xosc, rosc |-> g.rosc, div |-> g.div, refx |-> g.refx,
                 sel |-> g.sel, bypass |-> g.bypass, s |-> g.s, n |-> g.n, by1 |-> g.by1]
         /\ g.xosc = IF w.op = "xosc_on" THEN TRUE ELSE IF w.op = "xosc_off" THEN FALSE ELSE reg.xosc
         /\ g.rosc = IF w.op = "rosc_on" THEN TRUE ELSE IF w.op = "rosc_off" THEN FALSE ELSE reg.rosc
         /\ g.refx = IF w.op = "ref_xosc" THEN TRUE ELSE IF w.op = "ref_rosc" THEN FALSE ELSE reg.refx
         /\ g.sel = IF w.op = "select" THEN TRUE ELSE IF w.op = "deselect" THEN FALSE ELSE reg.sel
         /\ g.bypass = IF w.op = "bypass" THEN TRUE ELSE IF w.op = "inline" THEN FALSE ELSE reg.bypass
         /\ w.op # "pll" => g.s = reg.s /\ g.n = reg.n /\ g.by1 = reg.by1
         /\ w.op = "pll" => LET c == Configs[w.clk]
                            IN  /\ g.s = c.s /\ g.by1 = ~c.diven
                                /\ g.n = IF c.diven THEN OrBits(reg.n, c.n) ELSE reg.n
<1> USE DEF RegOK, Written, HfoscOps
<1>1. CASE w.op \in HfoscOps
  <2>1. CASE w.op = "xosc_on"  BY <2>1 DEF HfoscWrite
  <2>2. CASE w.op = "xosc_off"  BY <2>2 DEF HfoscWrite
  <2>3. CASE w.op = "rosc_on"  BY <2>3 DEF HfoscWrite
  <2>4. CASE w.op = "rosc_off"  BY <2>4 DEF HfoscWrite
  <2>5. CASE w.op = "rosc_div"  BY <2>5 DEF HfoscWrite
  <2> QED  BY <1>1, <2>1, <2>2, <2>3, <2>4, <2>5
<1>2. CASE w.op = "pll"
  BY <1>2 DEF PllWriteConfig
<1>3. CASE w.op \in {"ref_xosc", "ref_rosc", "select", "deselect", "bypass", "inline", "wait"}
  BY <1>3 DEF PllSelect
<1>4. w.op \in HfoscOps \cup {"pll", "ref_xosc", "ref_rosc", "select", "deselect", "bypass", "inline", "wait"}
  BY DEF Writes, Do
<1> QED  BY <1>1, <1>2, <1>3, <1>4
LEMMA MHzNat == MHz \in Nat /\ MHz > 0 /\ 375 * KHz \in Nat
BY DEF MHz, KHz

(* The least of a set of numbers. *)
LEMMA MinIs ==
  ASSUME NEW T \in SUBSET Nat, T # {}
  PROVE  Min(T) \in T
BY LeastNumber DEF Min

(* Some setting is within the limits, whatever the crystal. *)
LEMMA SomeSetting == Settings # {}
<1> USE MHzNat
<1>1. BaseClk \in 6 * MHz .. 96 * MHz  BY PrciConstants
<1>2. PICK r \in 0 .. 7 : BaseClk \div (r + 1) \in 6 * MHz .. 12 * MHz
  <2>1. CASE BaseClk <= 12 * MHz
    <3>1. BaseClk \div (0 + 1) \in 6 * MHz .. 12 * MHz  BY <1>1, <2>1
    <3> QED  BY <3>1
  <2>2. CASE BaseClk > 12 * MHz /\ BaseClk <= 24 * MHz
    <3>1. BaseClk \div (1 + 1) \in 6 * MHz .. 12 * MHz  BY <1>1, <2>2
    <3> QED  BY <3>1
  <2>3. CASE BaseClk > 24 * MHz /\ BaseClk <= 48 * MHz
    <3>1. BaseClk \div (3 + 1) \in 6 * MHz .. 12 * MHz  BY <1>1, <2>3
    <3> QED  BY <3>1
  <2>4. CASE BaseClk > 48 * MHz
    <3>1. BaseClk \div (7 + 1) \in 6 * MHz .. 12 * MHz  BY <1>1, <2>4
    <3> QED  BY <3>1
  <2> QED  BY <1>1, <2>1, <2>2, <2>3, <2>4
<1> DEFINE s == [r |-> r, f |-> 31, q |-> 1]
           refr == BaseClk \div (s.r + 1)
<1>3. refr \in 6 * MHz .. 12 * MHz /\ s.f + 1 = 32 /\ Shift(s.q) = 2  BY <1>2 DEF Shift
<1>4. s \in [r : 0 .. 7, f : 0 .. 63, q : 1 .. 3]  OBVIOUS
<1>5. refr * 2 * (s.f + 1) \in 384 * MHz .. 768 * MHz
  <2> HIDE DEF refr
  <2>1. refr * 2 * (s.f + 1) = refr * 64  BY <1>3
  <2> QED  BY <1>3, <2>1
<1>6. (refr * 2 * (s.f + 1)) \div Shift(s.q) \in 48 * MHz .. 384 * MHz
  <2> DEFINE v == refr * 2 * (s.f + 1)
  <2> HIDE DEF v
  <2>1. v \in 384 * MHz .. 768 * MHz  BY <1>5 DEF v
  <2>2. v \div 2 \in 48 * MHz .. 384 * MHz  BY <2>1
  <2> QED  BY <1>3, <2>2 DEF v
<1> HIDE DEF s
<1>7. s \in Settings  BY <1>3, <1>4, <1>5, <1>6 DEF Settings
<1> QED  BY <1>7

(* What pll_config_for_nearest_freq finds. *)
LEMMA NearestIs ==
  ASSUME NEW clk \in PllClks
  PROVE  /\ Configs[clk].found = TRUE /\ Configs[clk].diven \in BOOLEAN
         /\ Configs[clk].n \in 0 .. 63
<1> DEFINE all == {<<s, n>> : s \in Settings, n \in 0 .. 63}
           best == Min({Diff(x[1], x[2], clk) : x \in all})
           near == {x \in all : Diff(x[1], x[2], clk) = best}
           rank == Min({Rank(x[1], x[2]) : x \in near})
           first == CHOOSE x \in near : Rank(x[1], x[2]) = rank
<1>1. all # {}
  <2>1. PICK s \in Settings : TRUE  BY SomeSetting
  <2>2. <<s, 0>> \in all  OBVIOUS
  <2> HIDE DEF all
  <2> QED  BY <2>2
<1>2. clk \in Nat
  <2>1. clk \in 375 * KHz .. 320 * MHz  BY PrciConstants
  <2> QED  BY <2>1, MHzNat
<1>3. \A x \in all : x[1] \in Settings /\ x[2] \in 0 .. 63  OBVIOUS
<1>4. \A s \in Settings : /\ s.r \in 0 .. 7 /\ s.f \in 0 .. 63 /\ s.q \in 1 .. 3
                          /\ PllOut(s) \in Nat
  <2> TAKE s \in Settings
  <2>1. s.r \in 0 .. 7 /\ s.f \in 0 .. 63 /\ s.q \in 1 .. 3  BY DEF Settings
  <2>2. PllOut(s) \in 48 * MHz .. 384 * MHz  BY DEF Settings, PllOut
  <2>3. PllOut(s) \in Nat  BY <2>2, MHzNat
  <2> QED  BY <2>1, <2>3
<1>5. \A s \in Settings, n \in 0 .. 63 : Diff(s, n, clk) \in Nat
  <2> TAKE s \in Settings, n \in 0 .. 63
  <2>1. PllOut(s) \in Nat  BY <1>4
  <2>2. 2 * (n + 1) \in Nat \ {0}  OBVIOUS
  <2>3. Divided(s, n) \in Nat  BY <2>1, <2>2 DEF Divided
  <2> DEFINE T == {Abs(clk - Divided(s, n)), Abs(clk - PllOut(s))}
  <2>4. T \in SUBSET Nat /\ T # {}  BY <1>2, <2>1, <2>3 DEF Abs
  <2> HIDE DEF T
  <2>5. Min(T) \in Nat  BY <2>4, MinIs
  <2> QED  BY <2>5 DEF T, Diff
<1>6. \A s \in Settings, n \in 0 .. 63 : Rank(s, n) \in Nat
  <2> TAKE s \in Settings, n \in 0 .. 63
  <2>1. s.r \in Nat /\ s.f \in Nat /\ s.q \in Nat /\ n \in Nat  BY <1>4
  <2>2. s.r * 64 + s.f \in Nat  BY <2>1
  <2>3. (s.r * 64 + s.f) * 4 + s.q \in Nat  BY <2>1, <2>2
  <2> QED  BY <2>1, <2>3 DEF Rank
<1> HIDE DEF all
<1>7. near # {}
  <2> DEFINE D == {Diff(x[1], x[2], clk) : x \in all}
  <2>1. D \in SUBSET Nat /\ D # {}  BY <1>1, <1>3, <1>5
  <2> HIDE DEF D
  <2>2. Min(D) \in D  BY <2>1, MinIs
  <2> USE DEF D
  <2> QED  BY <2>2
<1>8. first \in near
  <2> DEFINE R == {Rank(x[1], x[2]) : x \in near}
  <2> HIDE DEF near
  <2>0. near \subseteq all  BY DEF near
  <2>1. R \in SUBSET Nat /\ R # {}  BY <1>3, <1>6, <1>7, <2>0
  <2> HIDE DEF R
  <2>2. Min(R) \in R  BY <2>1, MinIs
  <2>3. \E x \in near : Rank(x[1], x[2]) = rank  BY <2>2 DEF R
  <2> HIDE DEF rank
  <2> QED  BY <2>3
<1>9. first[2] \in 0 .. 63
  <2> HIDE DEF first
  <2> QED  BY <1>3, <1>8
<1>10. Configs[clk] = [found |-> TRUE, s |-> first[1], n |-> first[2],
           diven |-> Abs(clk - Divided(first[1], first[2])) < Abs(clk - PllOut(first[1]))]
  BY DEF Configs, PllNearest, all
<1> HIDE DEF first
<1> QED  BY <1>9, <1>10

(* Bits added to a divider of 0 are the divider. *)
LEMMA OrZero == ASSUME NEW n \in 0 .. 63 PROVE OrBits(0, n) = n
<1> DEFINE P(z) == \A w \in {1, 2, 4, 8, 16, 32} : Bit(z, w) <=> Bit(0, w) \/ Bit(n, w)
<1>1. \A w \in {1, 2, 4, 8, 16, 32} : ~Bit(0, w)  BY DEF Bit
<1>2. P(n)  BY <1>1
<1>3. ASSUME NEW z \in 0 .. 63, P(z) PROVE z = n
  <2>1. \A w \in {1, 2, 4, 8, 16, 32} : Bit(z, w) <=> Bit(n, w)  BY <1>1, <1>3
  <2>2. /\ Bit(z, 1) <=> Bit(n, 1)
        /\ Bit(z, 2) <=> Bit(n, 2)
        /\ Bit(z, 4) <=> Bit(n, 4)
        /\ Bit(z, 8) <=> Bit(n, 8)
        /\ Bit(z, 16) <=> Bit(n, 16)
        /\ Bit(z, 32) <=> Bit(n, 32)
    BY <2>1
  <2> QED  BY <2>2, SMTT(30) DEF Bit
<1> QED  BY <1>2, <1>3 DEF OrBits
(* One write of a sequence p of which i were made. *)
LEMMA WriteIs ==
  ASSUME PrciInv, Write, NEW p \in Seq(Writes), NEW i \in 0 .. Len(p) - 1, todo = Left(p, i)
  PROVE  LET op == p[i + 1].op
         IN  /\ todo' = Left(p, i + 1) /\ ctype' = ctype /\ drv' = drv
             /\ RegOK' /\ PllMatches' /\ pllc'.found \in BOOLEAN /\ ored' \in BOOLEAN
             /\ reg'.xosc = IF op = "xosc_on" THEN TRUE ELSE IF op = "xosc_off" THEN FALSE ELSE reg.xosc
             /\ reg'.rosc = IF op = "rosc_on" THEN TRUE ELSE IF op = "rosc_off" THEN FALSE ELSE reg.rosc
             /\ reg'.refx = IF op = "ref_xosc" THEN TRUE ELSE IF op = "ref_rosc" THEN FALSE ELSE reg.refx
             /\ reg'.sel = IF op = "select" THEN TRUE ELSE IF op = "deselect" THEN FALSE ELSE reg.sel
             /\ reg'.bypass = IF op = "bypass" THEN TRUE ELSE IF op = "inline" THEN FALSE ELSE reg.bypass
             /\ pllc'.found = (op = "pll" \/ pllc.found)
<1> DEFINE w == p[i + 1]
<1>1. p # <<>> /\ i + 1 \in 1 .. Len(p) /\ w \in Writes
  BY ElementOfSeq, EmptySeq
<1>2. Head(todo) = w /\ Tail(todo) = Left(p, i + 1)  BY <1>1, LeftIs
<1> HIDE DEF w
<1>3. /\ reg' = Written(reg, w) /\ todo' = Left(p, i + 1) /\ ctype' = ctype /\ drv' = drv
      /\ pllc' = IF w.op = "pll" THEN Configs[w.clk] ELSE pllc
      /\ ored' = (ored \/ (w.op = "pll" /\ Configs[w.clk].diven /\ reg.n # 0))
  BY <1>2 DEF Write
<1>4. RegOK /\ PllMatches /\ ored \in BOOLEAN /\ pllc.found \in BOOLEAN  BY DEF PrciInv
<1>5. /\ reg' = [xosc |-> reg'.xosc, rosc |-> reg'.rosc, div |-> reg'.div, refx |-> reg'.refx,
                 sel |-> reg'.sel, bypass |-> reg'.bypass, s |-> reg'.s, n |-> reg'.n, by1 |-> reg'.by1]
      /\ reg'.xosc = IF w.op = "xosc_on" THEN TRUE ELSE IF w.op = "xosc_off" THEN FALSE ELSE reg.xosc
      /\ reg'.rosc = IF w.op = "rosc_on" THEN TRUE ELSE IF w.op = "rosc_off" THEN FALSE ELSE reg.rosc
      /\ reg'.refx = IF w.op = "ref_xosc" THEN TRUE ELSE IF w.op = "ref_rosc" THEN FALSE ELSE reg.refx
      /\ reg'.sel = IF w.op = "select" THEN TRUE ELSE IF w.op = "deselect" THEN FALSE ELSE reg.sel
      /\ reg'.bypass = IF w.op = "bypass" THEN TRUE ELSE IF w.op = "inline" THEN FALSE ELSE reg.bypass
      /\ w.op # "pll" => reg'.s = reg.s /\ reg'.n = reg.n /\ reg'.by1 = reg.by1
      /\ w.op = "pll" => /\ reg'.s = Configs[w.clk].s /\ reg'.by1 = ~Configs[w.clk].diven
                         /\ reg'.n = IF Configs[w.clk].diven THEN OrBits(reg.n, Configs[w.clk].n) ELSE reg.n
  BY <1>1, <1>3, <1>4, WrittenIs
<1>6. CASE w.op = "pll"
  <2>1. w.clk \in PllClks  BY <1>1, <1>6 DEF Writes, Do
  <2> DEFINE c == Configs[w.clk]
  <2>2. c.found = TRUE /\ c.diven \in BOOLEAN /\ c.n \in 0 .. 63  BY <2>1, NearestIs
  <2> HIDE DEF c
  <2>3. pllc' = c  BY <1>3, <1>6 DEF c
  <2>4. reg'.s = c.s /\ reg'.by1 = ~c.diven /\ reg'.n = IF c.diven THEN OrBits(reg.n, c.n) ELSE reg.n
    BY <1>5, <1>6 DEF c
  <2>5. ored' = (ored \/ (c.diven /\ reg.n # 0))  BY <1>3, <1>6 DEF c
  <2>6. PllMatches'
    <3>1. CASE reg.n = 0
      BY <2>2, <2>3, <2>4, <3>1, OrZero DEF PllMatches
    <3>2. CASE reg.n # 0
      BY <2>2, <2>3, <2>4, <2>5, <3>2 DEF PllMatches
    <3> QED  BY <3>1, <3>2
  <2>7. RegOK'  BY <1>4, <1>5, <2>2, <2>4 DEF RegOK
  <2>8. pllc'.found = TRUE /\ ored' \in BOOLEAN  BY <1>4, <2>2, <2>3, <2>5
  <2> QED  BY <1>3, <1>5, <1>6, <2>6, <2>7, <2>8 DEF w
<1>7. CASE w.op # "pll"
  <2>1. pllc' = pllc /\ ored' = ored  BY <1>3, <1>4, <1>7
  <2>2. RegOK'  BY <1>4, <1>5, <1>7 DEF RegOK
  <2>3. PllMatches'  BY <1>4, <1>5, <1>7, <2>1 DEF PllMatches
  <2> QED  BY <1>3, <1>4, <1>5, <1>7, <2>1, <2>2, <2>3 DEF w
<1> QED  BY <1>6, <1>7

(* The writes of sysclk_set_internal, with or without those that follow. *)
LEMMA InternalWrite ==
  ASSUME PrciInv, Write, NEW p \in Seq(Writes), NEW clk, NEW i \in 0 .. 7, Len(p) >= 8,
         \A j \in 1 .. 8 : p[j] = SetInternal(clk)[j],
         todo = Left(p, i), InInternal(i)
  PROVE  Alive' /\ InInternal(i + 1)'
<1>1. p[i + 1].op = SetInternal(clk)[i + 1].op  OBVIOUS
<1>2. Alive /\ RegOK  BY DEF PrciInv
<1> DEFINE op == p[i + 1].op
<1>3. /\ reg'.xosc = IF op = "xosc_on" THEN TRUE ELSE IF op = "xosc_off" THEN FALSE ELSE reg.xosc
      /\ reg'.rosc = IF op = "rosc_on" THEN TRUE ELSE IF op = "rosc_off" THEN FALSE ELSE reg.rosc
      /\ reg'.refx = IF op = "ref_xosc" THEN TRUE ELSE IF op = "ref_rosc" THEN FALSE ELSE reg.refx
      /\ reg'.sel = IF op = "select" THEN TRUE ELSE IF op = "deselect" THEN FALSE ELSE reg.sel
      /\ RegOK'
  <2>1. Len(p) \in Nat /\ i \in 0 .. Len(p) - 1  OBVIOUS
  <2> QED  BY <2>1, WriteIs
<1>4. /\ i = 0 => op = "xosc_on"
      /\ i = 1 => op = "bypass"
      /\ i = 2 => op = "rosc_on"
      /\ i = 3 => op = "rosc_div"
      /\ i = 4 => op = "ref_rosc"
      /\ i = 5 => op = "deselect"
      /\ i = 6 => op = "inline"
      /\ i = 7 => op = "xosc_off"
  BY <1>1 DEF SetInternal, Do
<1> HIDE DEF op
<1> QED  BY <1>2, <1>3, <1>4 DEF Alive, FromXosc, InInternal, RegOK

(* The writes of sysclk_set_external. *)
LEMMA ExternalWrite ==
  ASSUME PrciInv, Write, NEW i \in 0 .. 5, todo = Left(SetExternal, i), InExternal(i)
  PROVE  Alive' /\ InExternal(i + 1)'
<1> DEFINE op == SetExternal[i + 1].op
<1>2. Alive /\ RegOK  BY DEF PrciInv
<1>3. /\ reg'.xosc = IF op = "xosc_on" THEN TRUE ELSE IF op = "xosc_off" THEN FALSE ELSE reg.xosc
      /\ reg'.rosc = IF op = "rosc_on" THEN TRUE ELSE IF op = "rosc_off" THEN FALSE ELSE reg.rosc
      /\ reg'.refx = IF op = "ref_xosc" THEN TRUE ELSE IF op = "ref_rosc" THEN FALSE ELSE reg.refx
      /\ reg'.sel = IF op = "select" THEN TRUE ELSE IF op = "deselect" THEN FALSE ELSE reg.sel
      /\ reg'.bypass = IF op = "bypass" THEN TRUE ELSE IF op = "inline" THEN FALSE ELSE reg.bypass
      /\ RegOK'
  <2>1. SetExternal \in Seq(Writes) /\ Len(SetExternal) = 6  BY Plans
  <2>2. i \in 0 .. Len(SetExternal) - 1  BY <2>1
  <2> QED  BY <2>1, <2>2, WriteIs
<1>4. /\ i = 0 => op = "rosc_on"
      /\ i = 1 => op = "xosc_on"
      /\ i = 2 => op = "ref_xosc"
      /\ i = 3 => op = "select"
      /\ i = 4 => op = "bypass"
      /\ i = 5 => op = "rosc_off"
  BY DEF SetExternal, Do
<1> HIDE DEF op
<1> QED  BY <1>2, <1>3, <1>4 DEF Alive, FromXosc, InExternal, RegOK

(* The writes of sysclk_set_pll. *)
LEMMA PllWrite ==
  ASSUME PrciInv, Write, NEW clk \in PllClks, NEW i \in 0 .. 8, todo = Left(SetPll(clk), i), InPll(i)
  PROVE  Alive' /\ InPll(i + 1)'
<1> DEFINE op == SetPll(clk)[i + 1].op
<1>2. Alive /\ RegOK  BY DEF PrciInv
<1>3. /\ reg'.xosc = IF op = "xosc_on" THEN TRUE ELSE IF op = "xosc_off" THEN FALSE ELSE reg.xosc
      /\ reg'.rosc = IF op = "rosc_on" THEN TRUE ELSE IF op = "rosc_off" THEN FALSE ELSE reg.rosc
      /\ reg'.refx = IF op = "ref_xosc" THEN TRUE ELSE IF op = "ref_rosc" THEN FALSE ELSE reg.refx
      /\ reg'.sel = IF op = "select" THEN TRUE ELSE IF op = "deselect" THEN FALSE ELSE reg.sel
      /\ reg'.bypass = IF op = "bypass" THEN TRUE ELSE IF op = "inline" THEN FALSE ELSE reg.bypass
      /\ pllc'.found = (op = "pll" \/ pllc.found)
      /\ RegOK' /\ pllc'.found \in BOOLEAN
  <2>1. SetPll(clk) \in Seq(Writes) /\ Len(SetPll(clk)) = 9  BY Plans
  <2>2. i \in 0 .. Len(SetPll(clk)) - 1  BY <2>1
  <2> QED  BY <2>1, <2>2, WriteIs
<1>4. /\ i = 0 => op = "rosc_on"
      /\ i = 1 => op = "xosc_on"
      /\ i = 2 => op = "bypass"
      /\ i = 3 => op = "ref_xosc"
      /\ i = 4 => op = "pll"
      /\ i = 5 => op = "wait"
      /\ i = 6 => op = "select"
      /\ i = 7 => op = "inline"
      /\ i = 8 => op = "rosc_off"
  BY DEF SetPll, Do
<1> HIDE DEF op
<1> QED  BY <1>2, <1>3, <1>4 DEF Alive, FromXosc, InPll, RegOK

(* The writes of sysclk_disable. *)
LEMMA OffWrite ==
  ASSUME PrciInv, Write, NEW i \in 0 .. 3, todo = Left(SetOff, i), InOff(i)
  PROVE  Alive' /\ InOff(i + 1)'
<1> DEFINE op == SetOff[i + 1].op
<1>2. Alive /\ RegOK  BY DEF PrciInv
<1>3. /\ reg'.xosc = IF op = "xosc_on" THEN TRUE ELSE IF op = "xosc_off" THEN FALSE ELSE reg.xosc
      /\ reg'.rosc = IF op = "rosc_on" THEN TRUE ELSE IF op = "rosc_off" THEN FALSE ELSE reg.rosc
      /\ reg'.refx = IF op = "ref_xosc" THEN TRUE ELSE IF op = "ref_rosc" THEN FALSE ELSE reg.refx
      /\ reg'.sel = IF op = "select" THEN TRUE ELSE IF op = "deselect" THEN FALSE ELSE reg.sel
      /\ RegOK'
  <2>1. SetOff \in Seq(Writes) /\ Len(SetOff) = 4  BY Plans
  <2>2. i \in 0 .. Len(SetOff) - 1  BY <2>1
  <2> QED  BY <2>1, <2>2, WriteIs
<1>4. /\ i = 0 => op = "rosc_on"
      /\ i = 1 => op = "rosc_div"
      /\ i = 2 => op = "deselect"
      /\ i = 3 => op = "inline"
  BY DEF SetOff, Do
<1> HIDE DEF op
<1> QED  BY <1>2, <1>3, <1>4 DEF Alive, FromXosc, InOff, RegOK
(* A write keeps the invariant, whichever call it is of. *)
LEMMA WriteInv == ASSUME PrciInv, Write PROVE PrciInv'
<1>1. todo # <<>>  BY DEF Write
<1>2. ctype \in {"internal", "external", "pll"} /\ UnderWay  BY DEF PrciInv
<1> DEFINE Rest == /\ RegOK' /\ PllMatches' /\ pllc'.found \in BOOLEAN /\ ored' \in BOOLEAN
                   /\ ctype' = ctype /\ drv' = drv
<1>3. ASSUME Rest, Alive', UnderWay' PROVE PrciInv'
  BY <1>2, <1>3 DEF PrciInv, DrvOK
<1> HIDE DEF Rest
<1>4. ASSUME NEW clk \in OscClks, NEW i \in 0 .. 7, todo = Left(SetInternal(clk), i),
             ctype = "internal", InInternal(i)
      PROVE  PrciInv'
  <2> DEFINE p == SetInternal(clk)
  <2>1. p \in Seq(Writes) /\ Len(p) = 8  BY Plans
  <2> HIDE DEF p
  <2>2. i \in 0 .. Len(p) - 1 /\ todo = Left(p, i)  BY <1>4, <2>1 DEF p
  <2>3. Rest /\ todo' = Left(p, i + 1)  BY <2>1, <2>2, WriteIs DEF Rest
  <2>4. Alive' /\ InInternal(i + 1)'
    <3>1. \A j \in 1 .. 8 : p[j] = SetInternal(clk)[j]  BY DEF p
    <3> QED  BY <1>4, <2>1, <2>2, <3>1, InternalWrite
  <2>5. CASE i < 7
    <3>1. i + 1 \in 0 .. 7  BY <2>5
    <3>2. todo' = Left(SetInternal(clk), i + 1) /\ ctype' = "internal"
      BY <1>4, <2>3 DEF p, Rest
    <3>3. UnderWay'  BY <2>4, <3>1, <3>2 DEF UnderWay
    <3> QED  BY <1>3, <2>3, <2>4, <3>3
  <2>6. CASE i = 7
    <3>1. todo' = <<>>
      <4>1. p # <<>>  BY NoEmptyPlan DEF p
      <4>2. Left(p, Len(p)) = <<>>  BY <2>1, <4>1, LeftIs
      <4> QED  BY <2>1, <2>3, <2>6, <4>2
    <3>2. AtRest'  BY <1>4, <2>3, <2>4, <2>6 DEF InInternal, AtRest, Rest
    <3>3. UnderWay'  BY <3>1, <3>2 DEF UnderWay
    <3> QED  BY <1>3, <2>3, <2>4, <3>3
  <2> QED  BY <2>5, <2>6
<1>5. ASSUME NEW clk \in OscClks, NEW i \in 0 .. 7, todo = Left(SetInternal(clk) \o SetExternal, i),
             ctype = "external", InInternal(i)
      PROVE  PrciInv'
  <2> DEFINE p == SetInternal(clk) \o SetExternal
  <2>0. /\ SetInternal(clk) \in Seq(Writes) /\ Len(SetInternal(clk)) = 8
        /\ SetExternal \in Seq(Writes) /\ Len(SetExternal) = 6
    BY Plans
  <2>1. /\ p \in Seq(Writes) /\ Len(p) = 14
        /\ \A j \in 1 .. 14 : p[j] = IF j <= 8 THEN SetInternal(clk)[j] ELSE SetExternal[j - 8]
    BY LongPlan
  <2> HIDE DEF p
  <2>2. i \in 0 .. Len(p) - 1 /\ todo = Left(p, i)  BY <1>5, <2>1 DEF p
  <2>3. Rest /\ todo' = Left(p, i + 1)  BY <2>1, <2>2, WriteIs DEF Rest
  <2>4. Alive' /\ InInternal(i + 1)'
    <3>1. \A j \in 1 .. 8 : p[j] = SetInternal(clk)[j]  BY <2>1
    <3>2. Len(p) >= 8  BY <2>1
    <3> QED  BY <1>5, <2>1, <2>2, <3>1, <3>2, InternalWrite
  <2>5. CASE i < 7
    <3>1. i + 1 \in 0 .. 7  BY <2>5
    <3>2. todo' = Left(SetInternal(clk) \o SetExternal, i + 1) /\ ctype' = "external"
      BY <1>5, <2>3 DEF p, Rest
    <3>3. UnderWay'  BY <2>4, <3>1, <3>2 DEF UnderWay
    <3> QED  BY <1>3, <2>3, <2>4, <3>3
  <2>6. CASE i = 7
    <3>1. Left(p, 8) = SetExternal
      <4> DEFINE a == SetInternal(clk)
                 b == SetExternal
      <4>1. p = a \o b  BY DEF p
      <4> HIDE DEF a, b
      <4>2. /\ a \in Seq(Writes) /\ b \in Seq(Writes) /\ 9 = Len(a) + 1 /\ 14 = Len(a) + Len(b)
            /\ Len(b) > 0
        BY <2>0 DEF a, b
      <4>3. SubSeq(a \o b, 9, 14) = b  BY <4>2, SuffixOfConcat
      <4>4. SubSeq(p, 9, 14) = b  BY <4>1, <4>3
      <4> QED  BY <2>1, <4>4 DEF Left, b
    <3>2. Left(SetExternal, 0) = SetExternal
      <4>1. SetExternal # <<>>  BY NoEmptyPlan
      <4> QED  BY <2>0, <4>1, LeftIs
    <3>3. todo' = Left(SetExternal, 0) /\ ctype' = "external"
      BY <1>5, <2>3, <2>6, <3>1, <3>2 DEF Rest
    <3>4. InExternal(0)'  BY DEF InExternal
    <3>5. UnderWay'  BY <3>3, <3>4 DEF UnderWay
    <3> QED  BY <1>3, <2>3, <2>4, <3>5
  <2> QED  BY <2>5, <2>6
<1>6. ASSUME NEW i \in 0 .. 5, todo = Left(SetExternal, i), ctype = "external", InExternal(i)
      PROVE  PrciInv'
  <2>1. SetExternal \in Seq(Writes) /\ Len(SetExternal) = 6  BY Plans
  <2>2. i \in 0 .. Len(SetExternal) - 1  BY <2>1
  <2>3. Rest /\ todo' = Left(SetExternal, i + 1)  BY <1>6, <2>1, <2>2, WriteIs DEF Rest
  <2>4. Alive' /\ InExternal(i + 1)'  BY <1>6, ExternalWrite
  <2>5. CASE i < 5
    <3>1. i + 1 \in 0 .. 5 /\ ctype' = "external"  BY <1>6, <2>3, <2>5 DEF Rest
    <3>2. UnderWay'  BY <2>3, <2>4, <3>1 DEF UnderWay
    <3> QED  BY <1>3, <2>3, <2>4, <3>2
  <2>6. CASE i = 5
    <3>1. todo' = <<>>
      <4>1. SetExternal # <<>>  BY NoEmptyPlan
      <4>2. Left(SetExternal, Len(SetExternal)) = <<>>  BY <2>1, <4>1, LeftIs
      <4> QED  BY <2>1, <2>3, <2>6, <4>2
    <3>2. AtRest'  BY <1>6, <2>3, <2>4, <2>6 DEF InExternal, AtRest, Rest
    <3>3. UnderWay'  BY <3>1, <3>2 DEF UnderWay
    <3> QED  BY <1>3, <2>3, <2>4, <3>3
  <2> QED  BY <2>5, <2>6
<1>7. ASSUME NEW clk \in PllClks, NEW i \in 0 .. 8, todo = Left(SetPll(clk), i),
             ctype = "pll", InPll(i)
      PROVE  PrciInv'
  <2>1. SetPll(clk) \in Seq(Writes) /\ Len(SetPll(clk)) = 9  BY Plans
  <2>2. i \in 0 .. Len(SetPll(clk)) - 1  BY <2>1
  <2>3. Rest /\ todo' = Left(SetPll(clk), i + 1)  BY <1>7, <2>1, <2>2, WriteIs DEF Rest
  <2>4. Alive' /\ InPll(i + 1)'  BY <1>7, PllWrite
  <2>5. CASE i < 8
    <3>1. i + 1 \in 0 .. 8 /\ ctype' = "pll"  BY <1>7, <2>3, <2>5 DEF Rest
    <3>2. UnderWay'  BY <2>3, <2>4, <3>1 DEF UnderWay
    <3> QED  BY <1>3, <2>3, <2>4, <3>2
  <2>6. CASE i = 8
    <3>1. todo' = <<>>
      <4>1. SetPll(clk) # <<>>  BY NoEmptyPlan
      <4>2. Left(SetPll(clk), Len(SetPll(clk))) = <<>>  BY <2>1, <4>1, LeftIs
      <4> QED  BY <2>1, <2>3, <2>6, <4>2
    <3>2. AtRest'  BY <1>7, <2>3, <2>4, <2>6 DEF InPll, AtRest, Rest
    <3>3. UnderWay'  BY <3>1, <3>2 DEF UnderWay
    <3> QED  BY <1>3, <2>3, <2>4, <3>3
  <2> QED  BY <2>5, <2>6
<1>8. ASSUME NEW i \in 0 .. 3, todo = Left(SetOff, i), InOff(i), ctype = "internal" \/ drv.kept
      PROVE  PrciInv'
  <2>1. SetOff \in Seq(Writes) /\ Len(SetOff) = 4  BY Plans
  <2>2. i \in 0 .. Len(SetOff) - 1  BY <2>1
  <2>3. Rest /\ todo' = Left(SetOff, i + 1)  BY <1>8, <2>1, <2>2, WriteIs DEF Rest
  <2>4. Alive' /\ InOff(i + 1)'  BY <1>8, OffWrite
  <2>5. CASE i < 3
    <3>1. i + 1 \in 0 .. 3 /\ (ctype' = "internal" \/ drv'.kept)  BY <1>8, <2>3, <2>5 DEF Rest
    <3>2. UnderWay'  BY <2>3, <2>4, <3>1 DEF UnderWay
    <3> QED  BY <1>3, <2>3, <2>4, <3>2
  <2>6. CASE i = 3
    <3>1. todo' = <<>>
      <4>1. SetOff # <<>>  BY NoEmptyPlan
      <4>2. Left(SetOff, Len(SetOff)) = <<>>  BY <2>1, <4>1, LeftIs
      <4> QED  BY <2>1, <2>3, <2>6, <4>2
    <3>2. AtRest'  BY <1>8, <2>3, <2>4, <2>6 DEF InOff, AtRest, Rest
    <3>3. UnderWay'  BY <3>1, <3>2 DEF UnderWay
    <3> QED  BY <1>3, <2>3, <2>4, <3>3
  <2> QED  BY <2>5, <2>6
<1> QED  BY <1>1, <1>2, <1>4, <1>5, <1>6, <1>7, <1>8 DEF UnderWay

(* A call starts with the first write of its sequence. *)
LEMMA CallInv ==
  ASSUME PrciInv,
         \/ SysclkReset \/ SysclkDisable
         \/ \E clk \in OscClks : ConfigureInternal(clk) \/ ConfigureExternal(clk)
         \/ \E clk \in PllClks : ConfigurePll(clk)
  PROVE  PrciInv'
<1>1. UNCHANGED <<reg, pllc, ored>>
  BY DEF SysclkReset, SysclkDisable, ConfigureInternal, ConfigureExternal, ConfigurePll, Call
<1>2. ctype' \in {"internal", "external", "pll"}
  BY DEF SysclkReset, SysclkDisable, ConfigureInternal, ConfigureExternal, ConfigurePll, Call, PrciInv
<1>3. ASSUME NEW p \in Seq(Writes), Len(p) > 0 PROVE Left(p, 0) = p
  BY <1>3, LeftIs, EmptySeq
<1>4. InInternal(0)' /\ InExternal(0)' /\ InPll(0)' /\ InOff(0)'
  BY DEF InInternal, InExternal, InPll, InOff
<1>5. UnderWay'
  <2>1. ASSUME SysclkReset PROVE UnderWay'
    <3>0. SetExternal \in Seq(Writes) /\ Len(SetExternal) = 6  BY Plans, Zenon
    <3>1. SetExternal \in Seq(Writes) /\ Len(SetExternal) > 0  BY <3>0
    <3>2. todo' = Left(SetExternal, 0) /\ ctype' = "external"
      BY <1>3, <2>1, <3>1 DEF SysclkReset, Call
    <3> QED  BY <1>4, <3>2 DEF UnderWay
  <2>2. ASSUME SysclkDisable PROVE UnderWay'
    <3>0. SetOff \in Seq(Writes) /\ Len(SetOff) = 4  BY Plans, Zenon
    <3>1. SetOff \in Seq(Writes) /\ Len(SetOff) > 0  BY <3>0
    <3>2. todo' = Left(SetOff, 0) /\ ctype' = ctype  BY <1>3, <2>2, <3>1 DEF SysclkDisable, Call
    <3>3. ctype' = "internal" \/ drv'.kept
      BY <2>2, <3>2 DEF SysclkDisable, PrciInv, DrvOK
    <3> QED  BY <1>4, <3>2, <3>3 DEF UnderWay
  <2>3. ASSUME NEW clk \in OscClks, ConfigureInternal(clk) PROVE UnderWay'
    <3>0. SetInternal(clk) \in Seq(Writes) /\ Len(SetInternal(clk)) = 8  BY Plans, Zenon
    <3>1. SetInternal(clk) \in Seq(Writes) /\ Len(SetInternal(clk)) > 0  BY <3>0
    <3>2. todo' = Left(SetInternal(clk), 0) /\ ctype' = "internal"
      BY <1>3, <2>3, <3>1 DEF ConfigureInternal, Call
    <3> QED  BY <1>4, <3>2 DEF UnderWay
  <2>4. ASSUME NEW clk \in OscClks, ConfigureExternal(clk) PROVE UnderWay'
    <3>1. SetInternal(clk) \o SetExternal \in Seq(Writes) /\ Len(SetInternal(clk) \o SetExternal) > 0
      BY LongPlan
    <3>2. todo' = Left(SetInternal(clk) \o SetExternal, 0) /\ ctype' = "external"
      BY <1>3, <2>4, <3>1 DEF ConfigureExternal, Call
    <3> QED  BY <1>4, <3>2 DEF UnderWay
  <2>5. ASSUME NEW clk \in PllClks, ConfigurePll(clk) PROVE UnderWay'
    <3>0. SetPll(clk) \in Seq(Writes) /\ Len(SetPll(clk)) = 9  BY Plans, Zenon
    <3>1. SetPll(clk) \in Seq(Writes) /\ Len(SetPll(clk)) > 0  BY <3>0
    <3>2. todo' = Left(SetPll(clk), 0) /\ ctype' = "pll"
      BY <1>3, <2>5, <3>1 DEF ConfigurePll, Call
    <3> QED  BY <1>4, <3>2 DEF UnderWay
  <2> QED  BY <2>1, <2>2, <2>3, <2>4, <2>5
<1>6. DrvOK'
  BY DEF SysclkReset, SysclkDisable, ConfigureInternal, ConfigureExternal, ConfigurePll, PrciInv, DrvOK
<1> QED  BY <1>1, <1>2, <1>5, <1>6 DEF PrciInv, RegOK, Alive, FromXosc, PllMatches

(* sysclk_setup, its failures and what becomes of the freed port leave the *)
(* clock tree alone, and so does the PLL when it comes into lock.          *)
LEMMA PortInv ==
  ASSUME PrciInv,
         \/ PllLocks \/ DisableRefused \/ PortReused \/ StrayCall
         \/ \E how \in {"ok", "memory", "clock", "prci"}, port \in {"null", "valid", "freed", "wild"},
              ist \in BOOLEAN : SysclkSetup(how, port, ist)
  PROVE  PrciInv'
<1>1. UNCHANGED <<reg, pllc, ctype, todo, ored>>
  BY DEF PllLocks, DisableRefused, PortReused, StrayCall, SysclkSetup
<1>2. DrvOK' /\ drv'.kept = drv.kept
  BY DEF PllLocks, DisableRefused, PortReused, StrayCall, SysclkSetup, PrciInv, DrvOK
<1>3. RegOK' /\ Alive' /\ PllMatches'  BY <1>1 DEF PrciInv, RegOK, Alive, FromXosc, PllMatches
<1>4. UnderWay'
  BY <1>1, <1>2 DEF PrciInv, UnderWay, AtRest, InInternal, InExternal, InPll, InOff
<1> QED  BY <1>1, <1>2, <1>3, <1>4 DEF PrciInv

LEMMA PrciInitInv == PrciInit => PrciInv
<1> SUFFICES ASSUME PrciInit PROVE PrciInv  OBVIOUS
<1>1. RegOK /\ reg.rosc = TRUE /\ reg.sel = FALSE  BY DEF PrciInit, RegOK
<1>2. pllc.found = FALSE  BY DEF PrciInit, NoConfig
<1> QED  BY <1>1, <1>2 DEF PrciInit, PrciInv, Alive, FromXosc, PllMatches, UnderWay, AtRest, DrvOK

(* The invariant says what ClockSafe says. *)
LEMMA PrciInvSafe == PrciInv => ClockSafe
<1> SUFFICES ASSUME PrciInv PROVE ClockSafe  OBVIOUS
<1>1. ASSUME todo = <<>>, ctype = "pll" => lock, ~ored, ~drv.kept PROVE SysclkGetFreq = CoreClk
  <2>1. AtRest
    <3>1. ASSUME NEW p \in Seq(Writes), NEW n \in Nat, Len(p) = n + 1, NEW i \in 0 .. n
          PROVE  Left(p, i) # <<>>
      BY <3>1, LeftIs
    <3>2. \A clk \in OscClks : /\ SetInternal(clk) \o SetExternal \in Seq(Writes)
                               /\ Len(SetInternal(clk) \o SetExternal) = 13 + 1
      BY LongPlan
    <3>3. \A clk \in OscClks, i \in 0 .. 7 : /\ todo # Left(SetInternal(clk), i)
                                             /\ todo # Left(SetInternal(clk) \o SetExternal, i)
      <4> TAKE clk \in OscClks, i \in 0 .. 7
      <4>1. Len(SetInternal(clk)) = 7 + 1 /\ SetInternal(clk) \in Seq(Writes)  BY Plans
      <4>2. Left(SetInternal(clk), i) # <<>>  BY <3>1, <4>1
      <4>3. i \in 0 .. 13  OBVIOUS
      <4>4. Left(SetInternal(clk) \o SetExternal, i) # <<>>  BY <3>1, <3>2, <4>3
      <4> QED  BY <1>1, <4>2, <4>4
    <3>4. \A i \in 0 .. 5 : todo # Left(SetExternal, i)
      <4>1. Len(SetExternal) = 5 + 1 /\ SetExternal \in Seq(Writes)  BY Plans
      <4> QED  BY <1>1, <3>1, <4>1
    <3>5. \A clk \in PllClks, i \in 0 .. 8 : todo # Left(SetPll(clk), i)
      <4> TAKE clk \in PllClks, i \in 0 .. 8
      <4>1. Len(SetPll(clk)) = 8 + 1 /\ SetPll(clk) \in Seq(Writes)  BY Plans
      <4> QED  BY <1>1, <3>1, <4>1
    <3>6. \A i \in 0 .. 3 : todo # Left(SetOff, i)
      <4>1. Len(SetOff) = 3 + 1 /\ SetOff \in Seq(Writes)  BY Plans
      <4> QED  BY <1>1, <3>1, <4>1
    <3> QED  BY <3>3, <3>4, <3>5, <3>6 DEF PrciInv, UnderWay
  <2>2. RegOK /\ PllMatches /\ ctype \in {"internal", "external", "pll"}  BY DEF PrciInv
  <2>3. CASE ctype = "internal"
    BY <2>1, <2>3 DEF AtRest, SysclkGetFreq, CoreClk
  <2>4. CASE ctype = "external"
    BY <1>1, <2>1, <2>4 DEF AtRest, SysclkGetFreq, CoreClk
  <2>5. CASE ctype = "pll"
    <3>1. reg.sel /\ ~reg.bypass /\ pllc.found /\ lock  BY <1>1, <2>1, <2>5 DEF AtRest
    <3>2. reg.s = pllc.s /\ reg.by1 = ~pllc.diven /\ (pllc.diven => reg.n = pllc.n)
      BY <1>1, <2>2, <3>1 DEF PllMatches
    <3>3. SysclkGetFreq = PllGetClk  BY <2>5 DEF SysclkGetFreq
    <3>4. CoreClk = IF reg.by1 THEN PllOut(reg.s) ELSE Divided(reg.s, reg.n)
      BY <3>1 DEF CoreClk
    <3>5. CASE pllc.diven
      BY <3>2, <3>3, <3>4, <3>5 DEF PllGetClk
    <3>6. CASE ~pllc.diven
      BY <3>2, <3>3, <3>4, <3>6 DEF PllGetClk
    <3> QED  BY <3>5, <3>6
  <2> QED  BY <2>2, <2>3, <2>4, <2>5
<1> QED  BY <1>1 DEF PrciInv, Alive, ClockSafe

(* sysclk_set_internal, sysclk_set_external, sysclk_set_pll, sysclk_reset  *)
(* and sysclk_disable in any order, for every crystal, oscillator and set  *)
(* of frequencies asked: the core is never left without its oscillator     *)
(* between two register writes, and once the PLL has locked                *)
(* sysclk_get_freq reports the clock the registers give, until a second    *)
(* divided PLL clock is set or the driver is disabled and set up again     *)
(* under a clk_type of external or pll.                                    *)
THEOREM ClockTreeCorrect == PrciSpec => []ClockSafe
<1>1. PrciInv /\ [PrciNext]_prciVars => PrciInv'
  <2> SUFFICES ASSUME PrciInv, [PrciNext]_prciVars PROVE PrciInv'  OBVIOUS
  <2>1. CASE UNCHANGED prciVars
    BY <2>1 DEF prciVars, PrciInv, RegOK, Alive, FromXosc, PllMatches, UnderWay, AtRest,
                InInternal, InExternal, InPll, InOff, DrvOK
  <2>2. CASE PrciNext
    BY <2>2, WriteInv, CallInv, PortInv DEF PrciNext
  <2> QED  BY <2>1, <2>2
<1> QED  BY <1>1, PrciInitInv, PrciInvSafe, PTL DEF PrciSpec
-----------------------------------------------------------------------------
(* The pins.                                                               *)

(* A pin whose bit port_status has. *)
Tracked(p) == chip = "avr" \/ p < Bits

(* The state the calls of gpio.c work on. *)
Grid == [status : SUBSET AllPins, owners : [AllPins -> SUBSET Users], got : Seq(AllPins),
         failed : BOOLEAN]

(* In g a tracked pin has one owner at most, and its bit is set exactly    *)
(* while it has one.                                                       *)
OneOwner(g) ==
  \A p \in AllPins : Tracked(p) =>
    /\ p \in g.status <=> g.owners[p] # {}
    /\ \A v, w \in g.owners[p] : v = w

PinTypes ==
  /\ chip \in Chips
  /\ status \in SUBSET AllPins
  /\ handle \in [Users -> Seq(PinsOf[chip])]
  /\ dir \in [AllPins -> {"in", "out", "off"}]
  /\ lvl \in [AllPins -> {"high", "low"}]
  /\ obled \in BOOLEAN /\ lexec \in BOOLEAN
  /\ owners \in [AllPins -> SUBSET Users]
  /\ lamp \in {"none", "any", "high", "low"}

(* The owners of a tracked pin are those whose handles name it. *)
Owned == \A p \in AllPins, u \in Users : Tracked(p) => (u \in owners[p] <=> p \in ToSet(handle[u]))

(* What the handles of the users are of. *)
Handles ==
  /\ Len(handle["app"]) <= 1
  /\ handle["port"] # <<>> => chip = "avr" /\ ToSet(handle["port"]) = PinsOf["avr"]
  /\ iof = ToSet(handle["uart"])
  /\ lamp = "none" => handle["led"] = <<>>
  /\ lamp # "none" => lexec /\ obled
  /\ lamp # "none" => ToSet(handle["led"]) = ToSet(LedPins[chip])

(* The tracked pins of an LED that is set up are outputs at its level. *)
Lit ==
  lamp # "none" =>
    \A p \in ToSet(LedPins[chip]) : Tracked(p) =>
      dir[p] = "out" /\ (lamp # "any" => lvl[p] = lamp)

PinsSound == PinTypes /\ OneOwner(State) /\ Owned /\ Handles /\ Lit

PinsInv == spoilt \in BOOLEAN /\ (~spoilt => PinsSound)

(* gpio_pin_alloc and gpio_pin_free work on the grid. *)
LEMMA PinAllocIs ==
  ASSUME NEW g \in Grid, NEW u \in Users, NEW p \in AllPins
  PROVE  /\ PinAlloc(g, u, p) \in Grid
         /\ p \in g.status =>
              LET h == PinAlloc(g, u, p)
              IN  h.status = g.status /\ h.owners = g.owners /\ h.got = g.got /\ h.failed = TRUE
         /\ p \notin g.status =>
              LET h == PinAlloc(g, u, p)
              IN  /\ h.status = IF Tracked(p) THEN g.status \cup {p} ELSE g.status
                  /\ h.owners = [g.owners EXCEPT ![p] = @ \cup {u}]
                  /\ h.got = Append(g.got, p) /\ h.failed = g.failed
<1>1. Append(g.got, p) \in Seq(AllPins)  BY ToSetIs DEF Grid
<1> DEFINE f == [g EXCEPT !.got = Append(g.got, p), !.owners[p] = g.owners[p] \cup {u}]
<1>2. /\ f \in Grid /\ f.status = g.status /\ f.failed = g.failed /\ f.got = Append(g.got, p)
      /\ f.owners = [g.owners EXCEPT ![p] = @ \cup {u}]
  BY <1>1 DEF Grid
<1>3. Filled(g, u, p) = f  BY DEF Filled
<1> HIDE DEF f
<1>4. CASE p \in g.status
  <2>1. PinAlloc(g, u, p) = [g EXCEPT !.failed = TRUE]
    BY <1>4 DEF PinAlloc, AvrPinAlloc, SifivePinAlloc, Refused
  <2> DEFINE h == [g EXCEPT !.failed = TRUE]
  <2>2. /\ h \in Grid /\ h.status = g.status /\ h.owners = g.owners
        /\ h.got = g.got /\ h.failed = TRUE
    BY DEF Grid
  <2> HIDE DEF h
  <2>3. PinAlloc(g, u, p) = h  BY <2>1 DEF h
  <2> QED  BY <1>4, <2>2, <2>3
<1>5. CASE p \notin g.status
  <2>1. PinAlloc(g, u, p) = [f EXCEPT !.status = IF Tracked(p) THEN f.status \cup {p} ELSE f.status]
    BY <1>2, <1>3, <1>5 DEF PinAlloc, AvrPinAlloc, SifivePinAlloc, Tracked
  <2> DEFINE h == [f EXCEPT !.status = IF Tracked(p) THEN f.status \cup {p} ELSE f.status]
  <2>2. /\ h \in Grid /\ h.status = IF Tracked(p) THEN g.status \cup {p} ELSE g.status
        /\ h.owners = f.owners /\ h.got = f.got /\ h.failed = f.failed
    BY <1>2 DEF Grid
  <2> HIDE DEF h
  <2>3. PinAlloc(g, u, p) = h  BY <2>1 DEF h
  <2> QED  BY <1>2, <1>5, <2>2, <2>3
<1> QED  BY <1>4, <1>5

LEMMA PinFreeIs ==
  ASSUME NEW g \in Grid, NEW u \in Users, NEW p \in AllPins
  PROVE  LET h == PinFree(g, u, p)
         IN  /\ h \in Grid /\ h.status = g.status \ {p} /\ h.owners = [g.owners EXCEPT ![p] = @ \ {u}]
<1>1. PinFree(g, u, p) = [g EXCEPT !.status = @ \ {p}, !.owners[p] = @ \ {u}]
  BY DEF PinFree, AvrPinFree, SifivePinFree
<1> DEFINE o == [g.owners EXCEPT ![p] = @ \ {u}]
<1>2. o \in [AllPins -> SUBSET Users]  BY DEF Grid
<1>3. PinFree(g, u, p) = [g EXCEPT !.status = @ \ {p}, !.owners = o]  BY <1>1
<1> HIDE DEF o
<1>4. LET h == [g EXCEPT !.status = @ \ {p}, !.owners = o]
      IN  h \in Grid /\ h.status = g.status \ {p} /\ h.owners = o
  BY <1>2 DEF Grid
<1> QED  BY <1>3, <1>4 DEF o
(* What the allocations of a setup keep, one after the other, the whole    *)
(* setup keeps.                                                            *)
LEMMA AllocFold ==
  ASSUME NEW u \in Users, NEW pins \in Seq(AllPins),
         NEW inv, State \in Grid, State \in inv[0],
         \A i \in 1 .. Len(pins) : \A g \in Grid :
           g \in inv[i - 1] => PinAlloc(g, u, pins[i]) \in inv[i]
  PROVE  AllocAll(u, pins) \in Grid /\ AllocAll(u, pins) \in inv[Len(pins)]
<1> DEFINE n == Len(pins)
           step == [i \in 1 .. n |-> [g \in Grid |-> PinAlloc(g, u, pins[i])]]
           F(f) == [s \in SUBSET DOMAIN pins |->
                      IF s = {} THEN State ELSE PinAlloc(f[s \ {Max(s)}], u, pins[Max(s)])]
<1>1. n \in Nat /\ DOMAIN pins = 1 .. n /\ \A i \in 1 .. n : pins[i] \in AllPins  OBVIOUS
<1>2. step \in [1 .. n -> [Grid -> Grid]]  BY <1>1, PinAllocIs
<1> HIDE DEF n
<1>3. \A s \in SUBSET (1 .. n) : s # {} => Max(s) \in 1 .. n
  BY <1>1, LargestNumber
<1>4. ASSUME NEW f, NEW s \in SUBSET (1 .. n), s # {}, f[s \ {Max(s)}] \in Grid
      PROVE  step[Max(s)][f[s \ {Max(s)}]] = PinAlloc(f[s \ {Max(s)}], u, pins[Max(s)])
  BY <1>3, <1>4
<1>5. Keeps(inv, n, Grid, step)  BY DEF n, Keeps
<1> HIDE DEF step
<1>6. PICK f : f \in [SUBSET (1 .. n) -> Grid] /\ Follows(f, n, Grid, State, step)
  BY <1>1, <1>2, FoldDefined
<1>7. f = F(f)
  <2>1. ASSUME NEW s \in SUBSET (1 .. n), s # {}
        PROVE  f[s] = PinAlloc(f[s \ {Max(s)}], u, pins[Max(s)])
    <3>1. s \ {Max(s)} \in SUBSET (1 .. n)  OBVIOUS
    <3>2. f[s \ {Max(s)}] \in Grid  BY <1>6, <3>1
    <3>3. f[s] = step[Max(s)][f[s \ {Max(s)}]]  BY <1>6, <2>1, <3>2 DEF Follows
    <3> QED  BY <1>4, <2>1, <3>2, <3>3
  <2>2. {} \in SUBSET (1 .. n) /\ f[{}] = State  BY <1>6 DEF Follows
  <2> QED  BY <1>1, <1>6, <2>1, <2>2
<1>8. AllocAll(u, pins) = (CHOOSE h : h = F(h))[DOMAIN pins]
  BY DEF AllocAll, FoldLeft, MapThenFoldSet
<1>9. PICK h : h = F(h) /\ AllocAll(u, pins) = h[1 .. n]
  <2> HIDE DEF F
  <2> QED  BY <1>1, <1>7, <1>8
<1>10. h[{}] = State
  <2>1. {} \in SUBSET DOMAIN pins  OBVIOUS
  <2> QED  BY <1>9, <2>1
<1>11. ASSUME NEW s \in SUBSET (1 .. n), s # {}, h[s \ {Max(s)}] \in Grid
       PROVE  h[s] = step[Max(s)][h[s \ {Max(s)}]]
  <2>1. h[s] = PinAlloc(h[s \ {Max(s)}], u, pins[Max(s)])  BY <1>1, <1>9, <1>11
  <2> QED  BY <1>4, <1>11, <2>1
<1>12. Follows(h, n, Grid, State, step)  BY <1>10, <1>11 DEF Follows
<1>13. h[1 .. n] \in Grid /\ h[1 .. n] \in inv[n]
  BY <1>1, <1>2, <1>5, <1>12, FoldKeeps
<1> QED  BY <1>9, <1>13 DEF n

(* The same of the frees of a handle. *)
LEMMA FreeFold ==
  ASSUME NEW u \in Users, NEW pins \in Seq(AllPins), pins = handle[u],
         NEW inv, State \in Grid, State \in inv[0],
         \A i \in 1 .. Len(pins) : \A g \in Grid :
           g \in inv[i - 1] => PinFree(g, u, pins[i]) \in inv[i]
  PROVE  FreeAll(u) \in Grid /\ FreeAll(u) \in inv[Len(pins)]
<1> DEFINE n == Len(pins)
           step == [i \in 1 .. n |-> [g \in Grid |-> PinFree(g, u, pins[i])]]
           F(f) == [s \in SUBSET DOMAIN pins |->
                      IF s = {} THEN State ELSE PinFree(f[s \ {Max(s)}], u, pins[Max(s)])]
<1>1. n \in Nat /\ DOMAIN pins = 1 .. n /\ \A i \in 1 .. n : pins[i] \in AllPins  OBVIOUS
<1>2. step \in [1 .. n -> [Grid -> Grid]]  BY <1>1, PinFreeIs
<1> HIDE DEF n
<1>3. \A s \in SUBSET (1 .. n) : s # {} => Max(s) \in 1 .. n
  BY <1>1, LargestNumber
<1>4. ASSUME NEW f, NEW s \in SUBSET (1 .. n), s # {}, f[s \ {Max(s)}] \in Grid
      PROVE  step[Max(s)][f[s \ {Max(s)}]] = PinFree(f[s \ {Max(s)}], u, pins[Max(s)])
  BY <1>3, <1>4
<1>5. Keeps(inv, n, Grid, step)  BY DEF n, Keeps
<1> HIDE DEF step
<1>6. PICK f : f \in [SUBSET (1 .. n) -> Grid] /\ Follows(f, n, Grid, State, step)
  BY <1>1, <1>2, FoldDefined
<1>7. f = F(f)
  <2>1. ASSUME NEW s \in SUBSET (1 .. n), s # {}
        PROVE  f[s] = PinFree(f[s \ {Max(s)}], u, pins[Max(s)])
    <3>1. s \ {Max(s)} \in SUBSET (1 .. n)  OBVIOUS
    <3>2. f[s \ {Max(s)}] \in Grid  BY <1>6, <3>1
    <3>3. f[s] = step[Max(s)][f[s \ {Max(s)}]]  BY <1>6, <2>1, <3>2 DEF Follows
    <3> QED  BY <1>4, <2>1, <3>2, <3>3
  <2>2. {} \in SUBSET (1 .. n) /\ f[{}] = State  BY <1>6 DEF Follows
  <2> QED  BY <1>1, <1>6, <2>1, <2>2
<1>8. FreeAll(u) = (CHOOSE h : h = F(h))[DOMAIN pins]
  BY DEF FreeAll, FoldLeft, MapThenFoldSet
<1>9. PICK h : h = F(h) /\ FreeAll(u) = h[1 .. n]
  <2> HIDE DEF F
  <2> QED  BY <1>1, <1>7, <1>8
<1>10. h[{}] = State
  <2>1. {} \in SUBSET DOMAIN pins  OBVIOUS
  <2> QED  BY <1>9, <2>1
<1>11. ASSUME NEW s \in SUBSET (1 .. n), s # {}, h[s \ {Max(s)}] \in Grid
       PROVE  h[s] = step[Max(s)][h[s \ {Max(s)}]]
  <2>1. h[s] = PinFree(h[s \ {Max(s)}], u, pins[Max(s)])  BY <1>1, <1>9, <1>11
  <2> QED  BY <1>4, <1>11, <2>1
<1>12. Follows(h, n, Grid, State, step)  BY <1>10, <1>11 DEF Follows
<1>13. h[1 .. n] \in Grid /\ h[1 .. n] \in inv[n]
  BY <1>1, <1>2, <1>5, <1>12, FoldKeeps
<1> QED  BY <1>9, <1>13 DEF n

(* g is the state after user u tried to allocate the pins of S. *)
Allocating(g, u, S) ==
  /\ OneOwner(g)
  /\ \A p \in AllPins : Tracked(p) =>
       /\ \A v \in Users \ {u} : v \in g.owners[p] <=> v \in owners[p]
       /\ u \in g.owners[p] <=> p \in ToSet(g.got)
  /\ ToSet(g.got) \subseteq S
  /\ ~g.failed => ToSet(g.got) = S

(* One more pin tried. *)
LEMMA AllocOne ==
  ASSUME NEW u \in Users, NEW g \in Grid, NEW S, Allocating(g, u, S), NEW p \in AllPins
  PROVE  Allocating(PinAlloc(g, u, p), u, S \cup {p})
<1> DEFINE h == PinAlloc(g, u, p)
<1>1. g.got \in Seq(AllPins) /\ g.owners \in [AllPins -> SUBSET Users] /\ g.failed \in BOOLEAN
  BY DEF Grid
<1>2. CASE p \in g.status
  <2>2. h.status = g.status /\ h.owners = g.owners /\ h.got = g.got /\ h.failed = TRUE
    BY <1>2, PinAllocIs
  <2> HIDE DEF h
  <2>3. Allocating(h, u, S \cup {p})  BY <2>2 DEF Allocating, OneOwner
  <2> QED  BY <2>3 DEF h
<1>3. CASE p \notin g.status
  <2>1. /\ h.status = IF Tracked(p) THEN g.status \cup {p} ELSE g.status
        /\ h.owners = [g.owners EXCEPT ![p] = @ \cup {u}]
        /\ h.got = Append(g.got, p) /\ h.failed = g.failed
    BY <1>3, PinAllocIs
  <2>2. ToSet(h.got) = ToSet(g.got) \cup {p}  BY <1>1, <2>1, ToSetIs
  <2> HIDE DEF h
  <2>3. \A q \in AllPins : h.owners[q] = IF q = p THEN g.owners[q] \cup {u} ELSE g.owners[q]
    BY <1>1, <2>1
  <2>4. Tracked(p) => g.owners[p] = {}  BY <1>3 DEF Allocating, OneOwner
  <2>5. ASSUME NEW q \in AllPins, Tracked(q)
        PROVE  /\ q \in h.status <=> h.owners[q] # {}
               /\ \A v, w \in h.owners[q] : v = w
               /\ \A v \in Users \ {u} : v \in h.owners[q] <=> v \in owners[q]
               /\ u \in h.owners[q] <=> q \in ToSet(h.got)
    <3>1. /\ q \in g.status <=> g.owners[q] # {}
          /\ \A v, w \in g.owners[q] : v = w
          /\ \A v \in Users \ {u} : v \in g.owners[q] <=> v \in owners[q]
          /\ u \in g.owners[q] <=> q \in ToSet(g.got)
      BY <2>5 DEF Allocating, OneOwner
    <3>2. CASE q = p
      <4>1. h.owners[q] = {u} /\ q \in h.status /\ q \in ToSet(h.got)
        BY <2>1, <2>2, <2>3, <2>4, <2>5, <3>2
      <4> QED  BY <2>4, <2>5, <3>1, <3>2, <4>1
    <3>3. CASE q # p
      <4>1. h.owners[q] = g.owners[q] /\ (q \in h.status <=> q \in g.status)
            /\ (q \in ToSet(h.got) <=> q \in ToSet(g.got))
        BY <2>1, <2>2, <2>3, <3>3
      <4> QED  BY <3>1, <4>1
    <3> QED  BY <3>2, <3>3
  <2>6. ToSet(h.got) \subseteq S \cup {p} /\ (~h.failed => ToSet(h.got) = S \cup {p})
    BY <2>1, <2>2 DEF Allocating
  <2>7. Allocating(h, u, S \cup {p})  BY <2>5, <2>6 DEF Allocating, OneOwner
  <2> QED  BY <2>7 DEF h
<1> QED  BY <1>2, <1>3

LEMMA PinsInAll == ASSUME chip \in Chips PROVE PinsOf[chip] \subseteq AllPins
BY DEF AllPins

(* All the pins of a setup tried, by a user that had none. *)
LEMMA AllocResult ==
  ASSUME PinTypes, OneOwner(State), Owned, NEW u \in Users, handle[u] = <<>>,
         NEW pins \in Seq(PinsOf[chip])
  PROVE  LET g == AllocAll(u, pins)
         IN  g \in Grid /\ Allocating(g, u, ToSet(pins)) /\ g.got \in Seq(PinsOf[chip])
<1> DEFINE inv == [i \in 0 .. Len(pins) |-> {g \in Grid : Allocating(g, u, {pins[j] : j \in 1 .. i})}]
<1>1. PinsOf[chip] \subseteq AllPins  BY PinsInAll DEF PinTypes
<1>2. pins \in Seq(AllPins)  BY <1>1, SeqMonotonic
<1>3. Len(pins) \in Nat /\ \A i \in 1 .. Len(pins) : pins[i] \in AllPins  BY <1>2
<1>4. State \in Grid  BY EmptySeq DEF State, Grid, PinTypes
<1>5. State.got = <<>> /\ State.owners = owners /\ State.failed = FALSE  BY DEF State
<1>6. State \in inv[0]
  <2>1. ToSet(State.got) = {} /\ ToSet(handle[u]) = {}
    <3>1. ToSet(<<>>) = {}  BY DEF ToSet
    <3> QED  BY <1>5, <3>1
  <2>2. \A p \in AllPins : Tracked(p) => u \notin owners[p]  BY <2>1 DEF Owned
  <2>3. Allocating(State, u, {})  BY <1>5, <2>1, <2>2 DEF Allocating
  <2>4. {pins[j] : j \in 1 .. 0} = {}  OBVIOUS
  <2>5. 0 \in 0 .. Len(pins)  BY <1>3
  <2>6. inv[0] = {g \in Grid : Allocating(g, u, {pins[j] : j \in 1 .. 0})}  BY <2>5
  <2> HIDE DEF inv
  <2> QED  BY <1>4, <2>3, <2>4, <2>6
<1>7. ASSUME NEW i \in 1 .. Len(pins), NEW g \in Grid, g \in inv[i - 1]
      PROVE  PinAlloc(g, u, pins[i]) \in inv[i]
  <2>1. Allocating(g, u, {pins[j] : j \in 1 .. i - 1})  BY <1>3, <1>7
  <2>2. {pins[j] : j \in 1 .. i} = {pins[j] : j \in 1 .. i - 1} \cup {pins[i]}
    <3>1. \A j \in 1 .. i : j \in 1 .. i - 1 \/ j = i  OBVIOUS
    <3>2. i \in 1 .. i /\ \A j \in 1 .. i - 1 : j \in 1 .. i  OBVIOUS
    <3> QED  BY <3>1, <3>2
  <2>3. Allocating(PinAlloc(g, u, pins[i]), u, {pins[j] : j \in 1 .. i})
    BY <1>3, <2>1, <2>2, AllocOne
  <2>4. PinAlloc(g, u, pins[i]) \in Grid  BY <1>3, PinAllocIs
  <2> QED  BY <1>3, <2>3, <2>4
<1> DEFINE g == AllocAll(u, pins)
<1>8. g \in Grid /\ g \in inv[Len(pins)]
  <2> HIDE DEF inv
  <2> QED  BY <1>2, <1>4, <1>6, <1>7, AllocFold
<1>9. Allocating(g, u, ToSet(pins))
  <2>1. ToSet(pins) = {pins[j] : j \in 1 .. Len(pins)}  BY <1>2, ToSetIs
  <2> QED  BY <1>3, <1>8, <2>1
<1> HIDE DEF g
<1>10. g.got \in Seq(PinsOf[chip])
  <2>1. g.got \in Seq(AllPins)  BY <1>8 DEF Grid
  <2>2. ToSet(g.got) \subseteq PinsOf[chip]  BY <1>9, ToSetIs DEF Allocating
  <2>3. ToSet(g.got) = {g.got[j] : j \in 1 .. Len(g.got)}  BY <2>1, ToSetIs
  <2> QED  BY <2>1, <2>2, <2>3
<1> QED  BY <1>8, <1>9, <1>10 DEF g

(* g is the state after the pins of S, which are u's, were freed. *)
Freeing(g, u, S) ==
  /\ OneOwner(g)
  /\ \A p \in AllPins : Tracked(p) =>
       /\ \A v \in Users \ {u} : v \in g.owners[p] <=> v \in owners[p]
       /\ u \in g.owners[p] <=> u \in owners[p] /\ p \notin S

LEMMA FreeOne ==
  ASSUME PinTypes, OneOwner(State), NEW u \in Users, NEW g \in Grid, NEW S, Freeing(g, u, S),
         NEW p \in AllPins, Tracked(p) => u \in owners[p]
  PROVE  Freeing(PinFree(g, u, p), u, S \cup {p})
<1> DEFINE h == PinFree(g, u, p)
<1>1. h.status = g.status \ {p} /\ h.owners = [g.owners EXCEPT ![p] = @ \ {u}]  BY PinFreeIs
<1> HIDE DEF h
<1>2. g.owners \in [AllPins -> SUBSET Users]  BY DEF Grid
<1>3. \A q \in AllPins : h.owners[q] = IF q = p THEN g.owners[q] \ {u} ELSE g.owners[q]
  BY <1>1, <1>2
<1>4. ASSUME NEW q \in AllPins, Tracked(q)
      PROVE  /\ q \in h.status <=> h.owners[q] # {}
             /\ \A v, w \in h.owners[q] : v = w
             /\ \A v \in Users \ {u} : v \in h.owners[q] <=> v \in owners[q]
             /\ u \in h.owners[q] <=> u \in owners[q] /\ q \notin S \cup {p}
  <2>1. /\ q \in g.status <=> g.owners[q] # {}
        /\ \A v, w \in g.owners[q] : v = w
        /\ \A v \in Users \ {u} : v \in g.owners[q] <=> v \in owners[q]
        /\ u \in g.owners[q] <=> u \in owners[q] /\ q \notin S
    BY <1>4 DEF Freeing, OneOwner
  <2>2. CASE q = p
    <3>1. \A v \in owners[p] : v = u  BY <1>4, <2>2 DEF OneOwner, State
    <3>2. \A v \in g.owners[p] : v = u  BY <1>2, <2>1, <2>2, <3>1
    <3>3. h.owners[p] = {} /\ p \notin h.status  BY <1>1, <1>3, <3>2
    <3> QED  BY <2>1, <2>2, <3>1, <3>3
  <2>3. CASE q # p
    <3>1. h.owners[q] = g.owners[q] /\ (q \in h.status <=> q \in g.status)
      BY <1>1, <1>3, <2>3
    <3> QED  BY <2>1, <2>3, <3>1
  <2> QED  BY <2>2, <2>3
<1>5. Freeing(h, u, S \cup {p})  BY <1>4 DEF Freeing, OneOwner
<1> QED  BY <1>5 DEF h

(* The pins of all handles of a user freed. *)
LEMMA FreeResult ==
  ASSUME PinTypes, OneOwner(State), Owned, NEW u \in Users
  PROVE  FreeAll(u) \in Grid /\ Freeing(FreeAll(u), u, ToSet(handle[u]))
<1> DEFINE pins == handle[u]
<1> DEFINE inv == [i \in 0 .. Len(pins) |-> {g \in Grid : Freeing(g, u, {pins[j] : j \in 1 .. i})}]
<1>1. PinsOf[chip] \subseteq AllPins /\ pins \in Seq(PinsOf[chip])  BY PinsInAll DEF PinTypes
<1>0. pins = handle[u]  OBVIOUS
<1> HIDE DEF pins
<1>2. pins \in Seq(AllPins)  BY <1>1, SeqMonotonic
<1>3. Len(pins) \in Nat /\ \A i \in 1 .. Len(pins) : pins[i] \in AllPins /\ pins[i] \in ToSet(pins)
  BY <1>2, ToSetIs
<1>4. State \in Grid  BY EmptySeq DEF State, Grid, PinTypes
<1>5. State.owners = owners  BY DEF State
<1>6. State \in inv[0]
  <2>1. Freeing(State, u, {})  BY <1>5 DEF Freeing
  <2>2. {pins[j] : j \in 1 .. 0} = {}  OBVIOUS
  <2>3. 0 \in 0 .. Len(pins)  BY <1>3
  <2>4. inv[0] = {g \in Grid : Freeing(g, u, {pins[j] : j \in 1 .. 0})}  BY <2>3
  <2> HIDE DEF inv
  <2> QED  BY <1>4, <2>1, <2>2, <2>4
<1>7. ASSUME NEW i \in 1 .. Len(pins), NEW g \in Grid, g \in inv[i - 1]
      PROVE  PinFree(g, u, pins[i]) \in inv[i]
  <2>1. Freeing(g, u, {pins[j] : j \in 1 .. i - 1})  BY <1>3, <1>7
  <2>2. {pins[j] : j \in 1 .. i} = {pins[j] : j \in 1 .. i - 1} \cup {pins[i]}
    <3>1. \A j \in 1 .. i : j \in 1 .. i - 1 \/ j = i  OBVIOUS
    <3>2. i \in 1 .. i /\ \A j \in 1 .. i - 1 : j \in 1 .. i  OBVIOUS
    <3> QED  BY <3>1, <3>2
  <2>3. Tracked(pins[i]) => u \in owners[pins[i]]  BY <1>0, <1>3 DEF Owned
  <2>4. Freeing(PinFree(g, u, pins[i]), u, {pins[j] : j \in 1 .. i})
    BY <1>3, <2>1, <2>2, <2>3, FreeOne
  <2>5. PinFree(g, u, pins[i]) \in Grid  BY <1>3, PinFreeIs
  <2> QED  BY <1>3, <2>4, <2>5
<1>8. FreeAll(u) \in Grid /\ FreeAll(u) \in inv[Len(pins)]
  <2> HIDE DEF inv
  <2> QED  BY <1>0, <1>2, <1>4, <1>6, <1>7, FreeFold
<1>9. ToSet(pins) = {pins[j] : j \in 1 .. Len(pins)}  BY <1>2, ToSetIs
<1> QED  BY <1>0, <1>3, <1>8, <1>9

(* What a setup takes: the pins it was given are its handles. *)
LEMMA TakeAlloc ==
  ASSUME PinTypes, Owned, NEW u \in Users, NEW g \in Grid, NEW S, Allocating(g, u, S),
         g.got \in Seq(PinsOf[chip]), Take(g), handle' = [handle EXCEPT ![u] = g.got], chip' = chip
  PROVE  /\ status' \in SUBSET AllPins /\ owners' \in [AllPins -> SUBSET Users]
         /\ handle' \in [Users -> Seq(PinsOf[chip])]
         /\ handle'[u] = g.got /\ \A v \in Users \ {u} : handle'[v] = handle[v]
         /\ OneOwner(State)' /\ Owned'
<1>1. status' = g.status /\ owners' = g.owners  BY DEF Take
<1>2. /\ handle' \in [Users -> Seq(PinsOf[chip])]
      /\ handle'[u] = g.got /\ \A v \in Users \ {u} : handle'[v] = handle[v]
  BY DEF PinTypes
<1>3. OneOwner(State)'  BY <1>1 DEF OneOwner, Allocating, State, Tracked
<1>4. Owned'  BY <1>1, <1>2 DEF Owned, Allocating, Tracked
<1> QED  BY <1>1, <1>2, <1>3, <1>4 DEF Grid

(* What a shutdown gives back. *)
LEMMA TakeFree ==
  ASSUME PinTypes, Owned, NEW u \in Users, NEW g \in Grid, Freeing(g, u, ToSet(handle[u])),
         Take(g), handle' = [handle EXCEPT ![u] = <<>>], chip' = chip
  PROVE  /\ status' \in SUBSET AllPins /\ owners' \in [AllPins -> SUBSET Users]
         /\ handle' \in [Users -> Seq(PinsOf[chip])]
         /\ handle'[u] = <<>> /\ \A v \in Users \ {u} : handle'[v] = handle[v]
         /\ OneOwner(State)' /\ Owned'
<1>1. status' = g.status /\ owners' = g.owners  BY DEF Take
<1>2. /\ handle' \in [Users -> Seq(PinsOf[chip])]
      /\ handle'[u] = <<>> /\ \A v \in Users \ {u} : handle'[v] = handle[v]
  BY EmptySeq DEF PinTypes
<1>3. OneOwner(State)'  BY <1>1 DEF OneOwner, Freeing, State, Tracked
<1>4. ToSet(handle'[u]) = {}  BY <1>2 DEF ToSet
<1>5. Owned'  BY <1>1, <1>2, <1>4 DEF Owned, Freeing, Tracked
<1> QED  BY <1>1, <1>2, <1>3, <1>5 DEF Grid

(* No other user has a tracked pin of an LED that is set up. *)
LEMMA LedAlone ==
  ASSUME OneOwner(State), Owned, Handles, PinTypes, lamp # "none",
         NEW p \in ToSet(LedPins[chip]), Tracked(p), NEW u \in Users \ {"led"}
  PROVE  p \in AllPins /\ p \notin ToSet(handle[u])
<1>1. ToSet(handle["led"]) = ToSet(LedPins[chip])  BY DEF Handles
<1>2. p \in AllPins
  <2>1. handle["led"] \in Seq(PinsOf[chip])  BY DEF PinTypes, Users
  <2> QED  BY <1>1, <2>1, ToSetIs, PinsInAll DEF PinTypes
<1>3. "led" \in owners[p]  BY <1>1, <1>2 DEF Owned, Users
<1>4. u \notin owners[p]  BY <1>2, <1>3 DEF OneOwner, State
<1> QED  BY <1>2, <1>4 DEF Owned

LEMMA LedSetupSound ==
  ASSUME PinsSound, NEW how \in {"ok", "memory", "sp"}, LedSetup(how), ~spoilt'
  PROVE  PinsSound'
<1>0. lamp = "none" /\ lexec' = TRUE /\ obled' \in BOOLEAN  BY DEF LedSetup, PinsSound, Handles
<1>1. CASE how # "ok"
  <2>1. UNCHANGED <<chip, status, owners, handle, dir, lvl, iof, lamp>>
    BY <1>1 DEF LedSetup
  <2> QED  BY <1>0, <2>1 DEF PinsSound, PinTypes, OneOwner, State, Owned, Handles, Lit, Tracked
<1>2. CASE how = "ok"
  <2> DEFINE g == AllocAll("led", LedPins[chip])
  <2>1. /\ lamp = "none" /\ obled' = TRUE /\ lexec' = TRUE /\ Take(g) /\ handle' = [handle EXCEPT !["led"] = g.got]
        /\ dir' = [p \in AllPins |-> IF p \in ToSet(g.got) THEN "out" ELSE dir[p]]
        /\ lamp' = IF g.failed THEN "none" ELSE "any"
        /\ spoilt' = (spoilt \/ g.failed)
        /\ chip' = chip /\ lvl' = lvl /\ iof' = iof
    BY <1>0, <1>2 DEF LedSetup
  <2>2. PinTypes /\ OneOwner(State) /\ Owned /\ Handles /\ handle["led"] = <<>>
    BY <2>1 DEF PinsSound, Handles
  <2>3. "led" \in Users /\ LedPins[chip] \in Seq(PinsOf[chip])
    BY <2>2, PinsConstants DEF Users, PinTypes
  <2>4. g \in Grid /\ Allocating(g, "led", ToSet(LedPins[chip])) /\ g.got \in Seq(PinsOf[chip])
    BY <2>2, <2>3, AllocResult
  <2> HIDE DEF g
  <2>5. /\ status' \in SUBSET AllPins /\ owners' \in [AllPins -> SUBSET Users]
        /\ handle' \in [Users -> Seq(PinsOf[chip])]
        /\ handle'["led"] = g.got /\ \A v \in Users \ {"led"} : handle'[v] = handle[v]
        /\ OneOwner(State)' /\ Owned'
    BY <2>1, <2>2, <2>3, <2>4, TakeAlloc
  <2>6. ~g.failed /\ lamp' = "any" /\ ToSet(g.got) = ToSet(LedPins[chip])
    BY <2>1, <2>4 DEF Allocating
  <2>7. PinTypes'
    BY <2>1, <2>2, <2>5, <2>6 DEF PinTypes
  <2>8. Handles'
    BY <2>1, <2>2, <2>5, <2>6 DEF Handles, Users
  <2>9. Lit'
    <3>1. ToSet(LedPins[chip]) \subseteq AllPins  BY <2>2, <2>3, ToSetIs, PinsInAll DEF PinTypes
    <3> QED  BY <2>1, <2>6, <3>1 DEF Lit, Tracked
  <2> QED  BY <2>5, <2>7, <2>8, <2>9 DEF PinsSound
<1> QED  BY <1>1, <1>2

LEMMA LedCallSound ==
  ASSUME PinsSound, NEW to \in {"high", "low", "flip"}, LedCall(to), ~spoilt'
  PROVE  PinsSound'
<1>1. UNCHANGED <<chip, status, handle, dir, iof, obled, lexec, owners>>  BY DEF LedCall
<1>2. PinTypes /\ Handles  BY DEF PinsSound
<1>3. OneOwner(State)' /\ Owned'
  BY <1>1 DEF PinsSound, OneOwner, State, Owned, Tracked
<1>4. CASE ~obled
  <2>1. UNCHANGED <<lvl, lamp>>  BY <1>4 DEF LedCall
  <2> QED  BY <1>1, <1>3, <2>1 DEF PinsSound, PinTypes, Handles, Lit, Tracked
<1>5. CASE obled
  <2>1. /\ lvl' = [p \in AllPins |-> IF p \in ToSet(handle["led"]) THEN Level(p, to) ELSE lvl[p]]
        /\ lamp' = IF lamp = "none" THEN "none"
                   ELSE IF to # "flip" THEN to
                   ELSE IF lamp = "any" THEN "any" ELSE IF lamp = "high" THEN "low" ELSE "high"
        /\ lamp # "none"
    BY <1>5 DEF LedCall
  <2>2. \A p \in AllPins : Level(p, to) \in {"high", "low"}  BY DEF Level
  <2>3. PinTypes'  BY <1>1, <1>2, <2>1, <2>2 DEF PinTypes
  <2>4. Handles'  BY <1>1, <1>2, <2>1 DEF Handles, PinTypes
  <2>5. Lit'
    <3>1. ASSUME NEW p \in ToSet(LedPins[chip]), Tracked(p)
          PROVE  dir[p] = "out" /\ (lamp' # "any" => lvl'[p] = lamp')
      <4>1. dir[p] = "out" /\ (lamp # "any" => lvl[p] = lamp)
        BY <2>1, <3>1 DEF PinsSound, Lit
      <4>2. p \in ToSet(handle["led"])  BY <1>2, <2>1 DEF Handles
      <4>3. p \in AllPins
        <5>1. LedPins[chip] \in Seq(PinsOf[chip])  BY <1>2, PinsConstants DEF PinTypes
        <5> QED  BY <1>2, <5>1, ToSetIs, PinsInAll DEF PinTypes
      <4>4. lvl'[p] = Level(p, to)  BY <2>1, <4>2, <4>3
      <4> QED  BY <1>2, <2>1, <4>1, <4>4 DEF Level, PinTypes
    <3> QED  BY <1>1, <3>1 DEF Lit, Tracked
  <2> QED  BY <1>3, <2>3, <2>4, <2>5 DEF PinsSound
<1> QED  BY <1>2, <1>4, <1>5 DEF PinTypes

LEMMA LedExitSound ==
  ASSUME PinsSound, LedExit, ~spoilt'
  PROVE  PinsSound'
<1>0. CASE ~obled
  <2>1. UNCHANGED <<chip, status, owners, handle, dir, lvl, iof, lamp>> /\ lamp = "none"
    BY <1>0 DEF LedExit, PinsSound, Handles
  <2>2. obled' = FALSE /\ lexec' = FALSE  BY DEF LedExit
  <2> QED  BY <2>1, <2>2 DEF PinsSound, PinTypes, OneOwner, State, Owned, Handles, Lit, Tracked
<1>c. CASE obled
  <2> DEFINE g == FreeAll("led")
  <2>1. /\ Take(g) /\ handle' = [handle EXCEPT !["led"] = <<>>]
        /\ obled' = FALSE /\ lexec' = FALSE /\ lamp' = "none"
        /\ UNCHANGED <<chip, dir, lvl, iof>>
    BY <1>c DEF LedExit
  <2>2. PinTypes /\ OneOwner(State) /\ Owned /\ Handles /\ "led" \in Users  BY DEF PinsSound, Users
  <2>3. g \in Grid /\ Freeing(g, "led", ToSet(handle["led"]))  BY <2>2, FreeResult
  <2> HIDE DEF g
  <2>4. /\ status' \in SUBSET AllPins /\ owners' \in [AllPins -> SUBSET Users]
        /\ handle' \in [Users -> Seq(PinsOf[chip])]
        /\ handle'["led"] = <<>> /\ \A v \in Users \ {"led"} : handle'[v] = handle[v]
        /\ OneOwner(State)' /\ Owned'
    BY <2>1, <2>2, <2>3, TakeFree
  <2>5. PinTypes'  BY <2>1, <2>2, <2>4 DEF PinTypes
  <2>6. Handles'  BY <2>1, <2>2, <2>4 DEF Handles, Users
  <2>7. Lit'  BY <2>1 DEF Lit
  <2> QED  BY <2>4, <2>5, <2>6, <2>7 DEF PinsSound
<1> QED  BY <1>0, <1>c DEF PinsSound, PinTypes

LEMMA UartSetupSound ==
  ASSUME PinsSound, UartSetupPins, ~spoilt'
  PROVE  PinsSound'
<1> DEFINE g == AllocAll("uart", UartPins)
<1>1. /\ chip = "sifive" /\ handle["uart"] = <<>> /\ Take(g)
      /\ handle' = [handle EXCEPT !["uart"] = g.got] /\ iof' = iof \cup ToSet(g.got)
      /\ UNCHANGED <<chip, dir, lvl, obled, lexec, lamp>>
  BY DEF UartSetupPins, EnableAltIo
<1>2. PinTypes /\ OneOwner(State) /\ Owned /\ Handles /\ "uart" \in Users  BY DEF PinsSound, Users
<1>3. UartPins \in Seq(PinsOf[chip])  BY <1>1, <1>2, PinsConstants DEF PinTypes
<1>4. g \in Grid /\ Allocating(g, "uart", ToSet(UartPins)) /\ g.got \in Seq(PinsOf[chip])
  BY <1>1, <1>2, <1>3, AllocResult
<1> HIDE DEF g
<1>5. /\ status' \in SUBSET AllPins /\ owners' \in [AllPins -> SUBSET Users]
      /\ handle' \in [Users -> Seq(PinsOf[chip])]
      /\ handle'["uart"] = g.got /\ \A v \in Users \ {"uart"} : handle'[v] = handle[v]
      /\ OneOwner(State)' /\ Owned'
  BY <1>1, <1>2, <1>4, TakeAlloc
<1>6. PinTypes'  BY <1>1, <1>2, <1>5 DEF PinTypes
<1>7. Handles'
  <2>1. iof = {}
    <3>1. ToSet(<<>>) = {}  BY DEF ToSet
    <3> QED  BY <1>1, <1>2, <3>1 DEF Handles
  <2> QED  BY <1>1, <1>2, <1>5, <2>1 DEF Handles, Users
<1>8. Lit'  BY <1>1 DEF PinsSound, Lit, Tracked
<1> QED  BY <1>5, <1>6, <1>7, <1>8 DEF PinsSound

LEMMA UartShutdownSound ==
  ASSUME PinsSound, UartShutdownPins
  PROVE  PinsSound'
<1> DEFINE g == FreeAll("uart")
<1>1. /\ Take(g) /\ handle' = [handle EXCEPT !["uart"] = <<>>] /\ iof' = iof \ ToSet(handle["uart"])
      /\ UNCHANGED <<chip, dir, lvl, obled, lexec, lamp>>
  BY DEF UartShutdownPins, DisableAltIo
<1>2. PinTypes /\ OneOwner(State) /\ Owned /\ Handles /\ "uart" \in Users  BY DEF PinsSound, Users
<1>3. g \in Grid /\ Freeing(g, "uart", ToSet(handle["uart"]))  BY <1>2, FreeResult
<1> HIDE DEF g
<1>4. /\ status' \in SUBSET AllPins /\ owners' \in [AllPins -> SUBSET Users]
      /\ handle' \in [Users -> Seq(PinsOf[chip])]
      /\ handle'["uart"] = <<>> /\ \A v \in Users \ {"uart"} : handle'[v] = handle[v]
      /\ OneOwner(State)' /\ Owned'
  BY <1>1, <1>2, <1>3, TakeFree
<1>5. PinTypes'  BY <1>1, <1>2, <1>4 DEF PinTypes
<1>6. Handles'
  <2>1. iof' = {} /\ ToSet(<<>>) = {}  BY <1>1, <1>2 DEF ToSet, Handles
  <2> QED  BY <1>1, <1>2, <1>4, <2>1 DEF Handles, Users
<1>7. Lit'  BY <1>1 DEF PinsSound, Lit, Tracked
<1> QED  BY <1>4, <1>5, <1>6, <1>7 DEF PinsSound

LEMMA SpiSetupSound ==
  ASSUME PinsSound, NEW out, SpiPinSetup(out), ~spoilt'
  PROVE  PinsSound'
<1> DEFINE g == AllocAll("spi", SpiPins)
<1>1. /\ chip = "avr" /\ handle["spi"] = <<>> /\ Take(g)
      /\ handle' = [handle EXCEPT !["spi"] = g.got]
      /\ dir' = [p \in AllPins |-> IF p \notin ToSet(g.got) THEN dir[p]
                                   ELSE IF p \in out THEN "out" ELSE "in"]
      /\ UNCHANGED <<chip, lvl, iof, obled, lexec, lamp>>
  BY DEF SpiPinSetup
<1>2. PinTypes /\ OneOwner(State) /\ Owned /\ Handles /\ "spi" \in Users  BY DEF PinsSound, Users
<1>3. SpiPins \in Seq(PinsOf[chip])  BY <1>1, <1>2, PinsConstants DEF PinTypes
<1>4. g \in Grid /\ Allocating(g, "spi", ToSet(SpiPins)) /\ g.got \in Seq(PinsOf[chip])
  BY <1>1, <1>2, <1>3, AllocResult
<1> HIDE DEF g
<1>5. /\ status' \in SUBSET AllPins /\ owners' \in [AllPins -> SUBSET Users]
      /\ handle' \in [Users -> Seq(PinsOf[chip])]
      /\ handle'["spi"] = g.got /\ \A v \in Users \ {"spi"} : handle'[v] = handle[v]
      /\ OneOwner(State)' /\ Owned'
  BY <1>1, <1>2, <1>4, TakeAlloc
<1>6. PinTypes'  BY <1>1, <1>2, <1>5 DEF PinTypes
<1>7. Handles'  BY <1>1, <1>2, <1>5 DEF Handles, Users
<1>8. Lit'
  <2>1. ASSUME lamp # "none", NEW p \in ToSet(LedPins[chip]), Tracked(p)
        PROVE  dir'[p] = dir[p]
    <3>1. p \in AllPins /\ p \in ToSet(handle["led"])
      BY <1>2, <2>1, LedAlone DEF Handles
    <3>2. "led" \in g.owners[p]  BY <1>4, <2>1, <3>1, <1>2 DEF Allocating, Owned, Users
    <3>3. p \notin ToSet(g.got)  BY <1>4, <2>1, <3>1, <3>2 DEF Allocating, OneOwner
    <3> QED  BY <1>1, <3>1, <3>3
  <2> QED  BY <1>1, <2>1 DEF PinsSound, Lit, Tracked
<1> QED  BY <1>5, <1>6, <1>7, <1>8 DEF PinsSound

LEMMA AppAllocSound ==
  ASSUME PinsSound, NEW p \in AllPins, AppAlloc(p)
  PROVE  PinsSound'
<1> DEFINE g == PinAlloc(State, "app", p)
<1>1. /\ handle["app"] = <<>> /\ p \in PinsOf[chip] /\ Take(g)
      /\ handle' = [handle EXCEPT !["app"] = g.got]
      /\ UNCHANGED <<chip, dir, lvl, iof, obled, lexec, lamp>>
  BY DEF AppAlloc
<1>2. PinTypes /\ OneOwner(State) /\ Owned /\ Handles /\ "app" \in Users  BY DEF PinsSound, Users
<1>3. State \in Grid /\ State.got = <<>> /\ State.owners = owners /\ State.failed = FALSE
  BY <1>2, EmptySeq DEF State, Grid, PinTypes
<1>4. Allocating(State, "app", {})
  <2>1. ToSet(State.got) = {} /\ ToSet(handle["app"]) = {}
    <3>1. ToSet(<<>>) = {}  BY DEF ToSet
    <3> QED  BY <1>1, <1>3, <3>1
  <2>2. \A q \in AllPins : Tracked(q) => "app" \notin owners[q]  BY <1>2, <2>1 DEF Owned
  <2> QED  BY <1>2, <1>3, <2>1, <2>2 DEF Allocating
<1>5. g \in Grid /\ Allocating(g, "app", {} \cup {p})  BY <1>2, <1>3, <1>4, AllocOne, PinAllocIs
<1>6. g.got = <<>> \/ g.got = <<p>>
  <2>1. g.got = State.got \/ g.got = Append(State.got, p)
    <3>1. CASE p \in State.status
      <4>1. g.got = State.got
        <5> DEFINE r == State
        <5>1. r \in Grid /\ p \in r.status  BY <1>3, <3>1
        <5> HIDE DEF r
        <5>2. PinAlloc(r, "app", p).got = r.got  BY <1>2, <5>1, PinAllocIs
        <5> QED  BY <5>2 DEF r
      <4> QED  BY <4>1
    <3>2. CASE p \notin State.status  BY <1>2, <1>3, <3>2, PinAllocIs
    <3> QED  BY <3>1, <3>2
  <2>2. Append(<<>>, p) = <<p>>  OBVIOUS
  <2> QED  BY <1>3, <2>1, <2>2
<1>7. g.got \in Seq(PinsOf[chip]) /\ Len(g.got) <= 1
  <2>1. ASSUME NEW S, NEW x \in S
        PROVE  <<x>> \in Seq(S) /\ Len(<<x>>) = 1 /\ <<>> \in Seq(S) /\ Len(<<>>) = 0
    OBVIOUS
  <2> HIDE DEF g
  <2>2. CASE g.got = <<>>  BY <1>1, <2>1, <2>2
  <2>3. CASE g.got = <<p>>
    <3>1. <<p>> \in Seq(PinsOf[chip]) /\ Len(<<p>>) = 1  BY <1>1, <2>1
    <3> QED  BY <2>3, <3>1
  <2> QED  BY <1>6, <2>2, <2>3
<1> HIDE DEF g
<1>8. /\ status' \in SUBSET AllPins /\ owners' \in [AllPins -> SUBSET Users]
      /\ handle' \in [Users -> Seq(PinsOf[chip])]
      /\ handle'["app"] = g.got /\ \A v \in Users \ {"app"} : handle'[v] = handle[v]
      /\ OneOwner(State)' /\ Owned'
  BY <1>1, <1>2, <1>5, <1>7, TakeAlloc
<1>9. PinTypes'  BY <1>1, <1>2, <1>8 DEF PinTypes
<1>10. Handles'  BY <1>1, <1>2, <1>7, <1>8 DEF Handles, Users
<1>11. Lit'  BY <1>1 DEF PinsSound, Lit, Tracked
<1> QED  BY <1>8, <1>9, <1>10, <1>11 DEF PinsSound

(* The application's only handle. *)
LEMMA AppPin ==
  ASSUME PinTypes, Handles, handle["app"] # <<>>
  PROVE  handle["app"][1] \in AllPins /\ ToSet(handle["app"]) = {handle["app"][1]}
<1> DEFINE q == handle["app"]
<1>1. q \in Seq(PinsOf[chip])  BY DEF PinTypes, Users
<1>2. q # <<>> /\ Len(q) <= 1  BY DEF Handles
<1> HIDE DEF q
<1>3. Len(q) = 1
  <2>1. Len(q) \in Nat \ {0}  BY <1>1, <1>2, EmptySeq
  <2>2. Len(q) <= 1  BY <1>2
  <2>3. \A n \in Nat \ {0} : n <= 1 => n = 1  OBVIOUS
  <2> QED  BY <2>1, <2>2, <2>3, Zenon
<1>4. ToSet(q) = {q[i] : i \in 1 .. Len(q)} /\ ToSet(q) \subseteq PinsOf[chip]  BY <1>1, ToSetIs
<1>5. ToSet(q) = {q[1]}  BY <1>3, <1>4
<1> QED  BY <1>4, <1>5, PinsInAll DEF q, PinTypes

LEMMA AppFreeSound ==
  ASSUME PinsSound, AppFree
  PROVE  PinsSound'
<1> DEFINE p == handle["app"][1]
           g == PinFree(State, "app", p)
<1>1. /\ handle["app"] # <<>> /\ Take(g) /\ handle' = [handle EXCEPT !["app"] = <<>>]
      /\ UNCHANGED <<chip, dir, lvl, iof, obled, lexec, lamp>>
  BY DEF AppFree
<1>2. PinTypes /\ OneOwner(State) /\ Owned /\ Handles /\ "app" \in Users  BY DEF PinsSound, Users
<1>3. p \in AllPins /\ ToSet(handle["app"]) = {p}  BY <1>1, <1>2, AppPin
<1>4. State \in Grid /\ State.owners = owners  BY <1>2, EmptySeq DEF State, Grid, PinTypes
<1> HIDE DEF p
<1>5. Freeing(State, "app", {})  BY <1>2, <1>4 DEF Freeing
<1>6. Tracked(p) => "app" \in owners[p]  BY <1>2, <1>3 DEF Owned
<1>7. g \in Grid /\ Freeing(g, "app", {} \cup {p})
  BY <1>2, <1>3, <1>4, <1>5, <1>6, FreeOne, PinFreeIs
<1>8. Freeing(g, "app", ToSet(handle["app"]))
  <2>1. {} \cup {p} = ToSet(handle["app"])  BY <1>3
  <2> QED  BY <1>7, <2>1
<1> HIDE DEF g
<1>9. /\ status' \in SUBSET AllPins /\ owners' \in [AllPins -> SUBSET Users]
      /\ handle' \in [Users -> Seq(PinsOf[chip])]
      /\ handle'["app"] = <<>> /\ \A v \in Users \ {"app"} : handle'[v] = handle[v]
      /\ OneOwner(State)' /\ Owned'
  BY <1>1, <1>2, <1>7, <1>8, TakeFree
<1>10. PinTypes'  BY <1>1, <1>2, <1>9 DEF PinTypes
<1>11. Handles'
  <2>1. Len(<<>>) <= 1  OBVIOUS
  <2> QED  BY <1>1, <1>2, <1>9, <2>1 DEF Handles, Users
<1>12. Lit'  BY <1>1 DEF PinsSound, Lit, Tracked
<1> QED  BY <1>9, <1>10, <1>11, <1>12 DEF PinsSound

(* A step that changes the directions and levels of pins that are not an   *)
(* LED's, and nothing else.                                                *)
LEMMA PinWrites ==
  ASSUME PinsSound, NEW u \in Users \ {"led"},
         UNCHANGED <<chip, status, handle, iof, obled, lexec, owners, lamp>>,
         dir' \in [AllPins -> {"in", "out", "off"}], lvl' \in [AllPins -> {"high", "low"}],
         \A p \in AllPins : p \notin ToSet(handle[u]) => dir'[p] = dir[p] /\ lvl'[p] = lvl[p]
  PROVE  PinsSound'
<1>1. PinTypes /\ OneOwner(State) /\ Owned /\ Handles /\ Lit  BY DEF PinsSound
<1>2. PinTypes' /\ Handles'  BY <1>1 DEF PinTypes, Handles
<1>3. OneOwner(State)' /\ Owned'  BY <1>1 DEF OneOwner, State, Owned, Tracked
<1>4. Lit'
  <2>1. ASSUME lamp # "none", NEW p \in ToSet(LedPins[chip]), Tracked(p)
        PROVE  dir'[p] = dir[p] /\ lvl'[p] = lvl[p]
    BY <1>1, <2>1, LedAlone
  <2> QED  BY <1>1, <2>1 DEF Lit, Tracked
<1> QED  BY <1>2, <1>3, <1>4 DEF PinsSound

LEMMA AppModeSound ==
  ASSUME PinsSound, NEW mode \in {"in", "out", "pull_up"}, AppMode(mode)
  PROVE  PinsSound'
<1> DEFINE q == handle["app"][1]
<1>1. PinTypes /\ Handles /\ handle["app"] # <<>>  BY DEF PinsSound, AppMode
<1>2. q \in AllPins /\ ToSet(handle["app"]) = {q}  BY <1>1, AppPin
<1>3. UNCHANGED <<chip, status, handle, iof, obled, lexec, owners, lamp>>  BY DEF AppMode
<1>4. AvrPinMode(q, mode) \/ SifivePinMode(q, mode)  BY DEF AppMode
<1> HIDE DEF q
<1>5. /\ dir' \in [AllPins -> {"in", "out", "off"}] /\ lvl' \in [AllPins -> {"high", "low"}]
      /\ \A p \in AllPins \ {q} : dir'[p] = dir[p] /\ lvl'[p] = lvl[p]
  BY <1>1, <1>2, <1>4 DEF AvrPinMode, SifivePinMode, PinTypes
<1> QED  BY <1>2, <1>3, <1>5, PinWrites DEF Users

LEMMA AppSetSound ==
  ASSUME PinsSound, NEW to \in {"high", "low", "flip"}, AppSet(to)
  PROVE  PinsSound'
<1> DEFINE q == handle["app"][1]
<1>1. PinTypes /\ Handles /\ handle["app"] # <<>>  BY DEF PinsSound, AppSet
<1>2. q \in AllPins /\ ToSet(handle["app"]) = {q}  BY <1>1, AppPin
<1>3. UNCHANGED <<chip, status, handle, iof, obled, lexec, owners, lamp, dir>>
      /\ lvl' = [lvl EXCEPT ![q] = Level(q, to)]
  BY DEF AppSet
<1>4. Level(q, to) \in {"high", "low"}  BY DEF Level
<1> HIDE DEF q
<1>5. /\ dir' \in [AllPins -> {"in", "out", "off"}] /\ lvl' \in [AllPins -> {"high", "low"}]
      /\ \A p \in AllPins \ {q} : dir'[p] = dir[p] /\ lvl'[p] = lvl[p]
  BY <1>1, <1>2, <1>3, <1>4 DEF PinTypes
<1> QED  BY <1>2, <1>3, <1>5, PinWrites DEF Users

LEMMA PortWriteSound ==
  ASSUME PinsSound,
         \/ \E mode \in {"in", "out", "pull_up"} : PortMode(mode)
         \/ \E to \in {"high", "low"} : PortWrite(to)
  PROVE  PinsSound'
<1>1. UNCHANGED <<chip, status, handle, iof, obled, lexec, owners, lamp>>  BY DEF PortMode, PortWrite
<1>2. /\ dir' \in [AllPins -> {"in", "out", "off"}] /\ lvl' \in [AllPins -> {"high", "low"}]
      /\ \A p \in AllPins : p \notin ToSet(handle["port"]) => dir'[p] = dir[p] /\ lvl'[p] = lvl[p]
  BY DEF PortMode, PortWrite, PinsSound, PinTypes
<1> QED  BY <1>1, <1>2, PinWrites DEF Users

LEMMA PortAllocSound ==
  ASSUME PinsSound, PortAlloc
  PROVE  PinsSound'
<1> DEFINE q == SetToSeq(PinsOf["avr"])
<1>1. chip = "avr" /\ handle["port"] = <<>> /\ UNCHANGED <<chip, dir, lvl, iof, obled, lexec, lamp>>
  BY DEF PortAlloc
<1>2. PinTypes /\ OneOwner(State) /\ Owned /\ Handles /\ Lit /\ "port" \in Users
  BY DEF PinsSound, Users
<1>3. Lit'  BY <1>1, <1>2 DEF Lit, Tracked
<1>4. CASE status # {}
  <2>1. UNCHANGED <<status, owners, handle>>  BY <1>4 DEF PortAlloc
  <2> QED  BY <1>1, <1>2, <1>3, <2>1 DEF PinsSound, PinTypes, OneOwner, State, Owned, Tracked, Handles
<1>5. CASE status = {}
  <2>1. /\ status' = PinsOf["avr"]
        /\ owners' = [p \in AllPins |-> IF p \in PinsOf["avr"] THEN owners[p] \cup {"port"} ELSE owners[p]]
        /\ handle' = [handle EXCEPT !["port"] = q]
    BY <1>5 DEF PortAlloc
  <2>2. q \in Seq(PinsOf["avr"]) /\ ToSet(q) = PinsOf["avr"]
    BY <1>1, <1>2, PinsConstants, SetToSeqIs DEF PinTypes
  <2> HIDE DEF q
  <2>3. \A p \in AllPins : owners[p] = {}  BY <1>1, <1>2, <1>5 DEF OneOwner, State, Tracked
  <2>4. owners' = [p \in AllPins |-> IF p \in PinsOf["avr"] THEN {"port"} ELSE {}]
    BY <2>1, <2>3
  <2>5. /\ handle' \in [Users -> Seq(PinsOf["avr"])]
        /\ handle'["port"] = q /\ \A v \in Users \ {"port"} : handle'[v] = handle[v]
    BY <1>1, <1>2, <2>1, <2>2 DEF PinTypes
  <2>6. PinsOf["avr"] \subseteq AllPins  BY <1>1, <1>2, PinsInAll DEF PinTypes
  <2>7. PinTypes'  BY <1>1, <1>2, <2>1, <2>4, <2>5, <2>6 DEF PinTypes
  <2>8. OneOwner(State)'  BY <2>1, <2>4 DEF OneOwner, State
  <2>9. Owned'
    <3>1. \A v \in Users \ {"port"}, p \in AllPins : p \notin ToSet(handle[v])
      BY <1>1, <1>2, <2>3 DEF Owned, Tracked
    <3>2. \A p \in AllPins : /\ "port" \in owners'[p] <=> p \in PinsOf["avr"]
                             /\ \A v \in Users \ {"port"} : v \notin owners'[p]
      BY <2>4
    <3> QED  BY <2>2, <2>5, <3>1, <3>2 DEF Owned
  <2>10. Handles'  BY <1>1, <1>2, <2>2, <2>5 DEF Handles, Users
  <2> QED  BY <1>3, <2>7, <2>8, <2>9, <2>10 DEF PinsSound
<1> QED  BY <1>4, <1>5

LEMMA PortFreeSound ==
  ASSUME PinsSound, PortFree
  PROVE  PinsSound'
<1>1. /\ handle["port"] # <<>> /\ status' = {}
      /\ owners' = [p \in AllPins |-> owners[p] \ {"port"}]
      /\ handle' = [handle EXCEPT !["port"] = <<>>]
      /\ UNCHANGED <<chip, dir, lvl, iof, obled, lexec, lamp>>
  BY DEF PortFree
<1>2. PinTypes /\ OneOwner(State) /\ Owned /\ Handles /\ Lit /\ "port" \in Users
  BY DEF PinsSound, Users
<1>3. chip = "avr" /\ ToSet(handle["port"]) = PinsOf["avr"]  BY <1>1, <1>2 DEF Handles
<1>4. ASSUME NEW p \in AllPins PROVE owners[p] \subseteq {"port"}
  <2>1. Tracked(p)  BY <1>3 DEF Tracked
  <2>2. CASE p \in PinsOf["avr"]
    <3>1. "port" \in owners[p]  BY <1>2, <1>3, <2>1, <2>2 DEF Owned
    <3> QED  BY <1>2, <2>1, <3>1 DEF OneOwner, State
  <2>3. CASE p \notin PinsOf["avr"]
    <3>1. \A u \in Users : ToSet(handle[u]) \subseteq PinsOf["avr"]
      BY <1>2, <1>3, ToSetIs DEF PinTypes
    <3>2. \A u \in Users : u \notin owners[p]  BY <1>2, <2>1, <2>3, <3>1 DEF Owned
    <3> QED  BY <1>2, <3>2 DEF PinTypes
  <2> QED  BY <2>2, <2>3
<1>5. \A p \in AllPins : owners'[p] = {}  BY <1>1, <1>4
<1>6. /\ handle' \in [Users -> Seq(PinsOf[chip])]
      /\ handle'["port"] = <<>> /\ \A v \in Users \ {"port"} : handle'[v] = handle[v]
  BY <1>1, <1>2, EmptySeq DEF PinTypes
<1>7. PinTypes'  BY <1>1, <1>2, <1>5, <1>6 DEF PinTypes
<1>8. OneOwner(State)'  BY <1>1, <1>5 DEF OneOwner, State
<1>9. Owned'
  <2>1. ToSet(<<>>) = {}  BY DEF ToSet
  <2>2. \A v \in Users \ {"port"}, p \in AllPins : p \notin ToSet(handle[v])
    <3>1. \A v \in Users \ {"port"}, p \in AllPins : v \notin owners[p]  BY <1>4
    <3> QED  BY <1>2, <1>3, <3>1 DEF Owned, Tracked
  <2> QED  BY <1>5, <1>6, <2>1, <2>2 DEF Owned
<1>10. Handles'  BY <1>1, <1>2, <1>6 DEF Handles, Users
<1>11. Lit'  BY <1>1, <1>2 DEF Lit, Tracked
<1> QED  BY <1>7, <1>8, <1>9, <1>10, <1>11 DEF PinsSound

LEMMA PinsInitInv == PinsInit => PinsInv
<1> SUFFICES ASSUME PinsInit PROVE PinsSound /\ spoilt = FALSE  BY DEF PinsInv
<1>1. /\ chip \in Chips /\ status = {} /\ handle = [u \in Users |-> <<>>]
      /\ dir = [p \in AllPins |-> "in"] /\ lvl = [p \in AllPins |-> "low"] /\ iof = {}
      /\ obled = FALSE /\ lexec = FALSE /\ owners = [p \in AllPins |-> {}] /\ lamp = "none" /\ spoilt = FALSE
  BY DEF PinsInit
<1>2. ToSet(<<>>) = {} /\ Len(<<>>) <= 1  BY DEF ToSet
<1>3. PinTypes  BY <1>1, EmptySeq DEF PinTypes
<1>4. OneOwner(State)  BY <1>1 DEF OneOwner, State
<1>5. Owned  BY <1>1, <1>2 DEF Owned
<1>6. Handles  BY <1>1, <1>2 DEF Handles, Users
<1>7. Lit  BY <1>1 DEF Lit
<1> QED  BY <1>1, <1>3, <1>4, <1>5, <1>6, <1>7 DEF PinsSound

(* No handle that was never filled is forgotten. *)
LEMMA SpoiltStays ==
  ASSUME spoilt \in BOOLEAN, PinsNext
  PROVE  spoilt' \in BOOLEAN /\ (~spoilt' => ~spoilt)
<1>1. ASSUME NEW how, LedSetup(how) PROVE spoilt' \in BOOLEAN /\ (~spoilt' => ~spoilt)
  BY <1>1 DEF LedSetup
<1>2. ASSUME NEW to, LedCall(to) PROVE spoilt' \in BOOLEAN /\ (~spoilt' => ~spoilt)
  BY <1>2 DEF LedCall
<1>3. ASSUME UartSetupPins PROVE spoilt' \in BOOLEAN /\ (~spoilt' => ~spoilt)
  BY <1>3 DEF UartSetupPins
<1>4. ASSUME NEW out, SpiPinSetup(out) PROVE spoilt' \in BOOLEAN /\ (~spoilt' => ~spoilt)
  BY <1>4 DEF SpiPinSetup
<1>5. ASSUME LedExit PROVE spoilt' \in BOOLEAN /\ (~spoilt' => ~spoilt)
  BY <1>5 DEF LedExit
<1> QED
  BY <1>1, <1>2, <1>3, <1>4, <1>5
  DEF PinsNext, UartShutdownPins, AppFree, PortAlloc, PortFree, AppAlloc, AppMode,
      AppSet, PortMode, PortWrite, SpiMasterSetup, SpiSlaveSetup

(* The invariant says what PinsSafe says. *)
LEMMA PinsInvSafe == PinsInv => PinsSafe
<1> SUFFICES ASSUME PinsInv, ~spoilt PROVE PinsSafe  BY DEF PinsSafe
<1>1. PinTypes /\ OneOwner(State) /\ Handles /\ Lit  BY DEF PinsInv, PinsSound
<1>2. ASSUME NEW p \in AllPins, p < Bits
      PROVE  Cardinality(owners[p]) <= 1 /\ (p \in status <=> owners[p] # {})
  <2>1. Tracked(p)  BY <1>2 DEF Tracked
  <2>2. (p \in status <=> owners[p] # {}) /\ \A v, w \in owners[p] : v = w
    BY <1>1, <2>1 DEF OneOwner, State
  <2>3. CASE owners[p] = {}  BY <2>2, <2>3, FS_EmptySet
  <2>4. CASE owners[p] # {}
    <3>1. PICK v \in owners[p] : TRUE  BY <2>4
    <3>2. owners[p] = {v}  BY <2>2, <3>1
    <3>3. Cardinality({v}) = 1  BY FS_Singleton
    <3> QED  BY <2>2, <3>2, <3>3
  <2> QED  BY <2>3, <2>4
<1>3. ASSUME lamp \in {"high", "low"}, NEW p \in ToSet(LedPins[chip]), p < Bits
      PROVE  dir[p] = "out" /\ lvl[p] = lamp
  BY <1>1, <1>3 DEF Lit, Tracked
<1> QED  BY <1>1, <1>2, <1>3 DEF PinsSafe, Handles

(* gpio_pin_alloc, gpio_pin_free, gpio_port_alloc and gpio_port_free under *)
(* any sequence of calls of the LED, the UART, the SPI and an application, *)
(* for every set of pins and every assignment of them: a pin within the    *)
(* width of port_status has one owner at most and its bit is set exactly   *)
(* while it has one, an LED that is set up shows what was last asked of it *)
(* and the pins of the UART stay the UART's, until an empty handle is used.*)
THEOREM PinsCorrect == PinsSpec => []PinsSafe
<1>1. PinsInv /\ [PinsNext]_pinVars => PinsInv'
  <2> SUFFICES ASSUME PinsInv, [PinsNext]_pinVars PROVE PinsInv'  OBVIOUS
  <2>1. CASE UNCHANGED pinVars
    BY <2>1 DEF pinVars, PinsInv, PinsSound, PinTypes, OneOwner, State, Owned, Handles, Lit, Tracked
  <2>2. CASE PinsNext
    <3>1. spoilt' \in BOOLEAN /\ (~spoilt' => ~spoilt)  BY <2>2, SpoiltStays DEF PinsInv
    <3>2. ASSUME ~spoilt' PROVE PinsSound'
      <4>1. PinsSound  BY <3>1, <3>2 DEF PinsInv
      <4> QED
        BY <2>2, <3>2, <4>1, LedSetupSound, LedCallSound, LedExitSound, UartSetupSound,
           UartShutdownSound, SpiSetupSound, AppAllocSound, AppFreeSound, AppModeSound,
           AppSetSound, PortAllocSound, PortWriteSound, PortFreeSound
        DEF PinsNext, SpiMasterSetup, SpiSlaveSetup
    <3> QED  BY <3>1, <3>2 DEF PinsInv
  <2> QED  BY <2>1, <2>2
<1> QED  BY <1>1, PinsInitInv, PinsInvSafe, PTL DEF PinsSpec
=============================================================================
