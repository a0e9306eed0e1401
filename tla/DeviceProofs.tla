---------------------------- MODULE DeviceProofs ----------------------------
(***************************************************************************)
(* Theorems about the scheduler clock (SchedClk), the callbacks of the     *)
(* system clock (SysClk) and the units behind the HALs (Hal).              *)
(*                                                                         *)
(* SchedInv is the inductive invariant of the clock.  What it promises is  *)
(* not inductive by itself: that a reading lies in its window needs to     *)
(* know, between its accesses, which counts its halves can be of           *)
(* (Readings); that stamps do not go back needs the count the last one was *)
(* made from (Stamps); that a delay is not cut short needs what its limit  *)
(* was counted from (Limits); and that the timer never reaches the panic   *)
(* handler needs what the call under way may rely on (CallsOK, Device).    *)
(*                                                                         *)
(* ClkInv is the inductive invariant of the callbacks: while no node came  *)
(* with garbage and no setup failed, the list is a chain of at most two    *)
(* nodes, those of the drivers that run.                                   *)
(*                                                                         *)
(* HalInv is the inductive invariant of the units.  It speaks of the       *)
(* writes a call still has to make (Coming): a handler is linked before    *)
(* its interrupt is enabled (HandlersLinked), a unit's clock goes off with *)
(* the last write (Clocked), ADMUX holds what the writes left make right   *)
(* (Sampling), and a slot of the PMU that is not yet what it should be is  *)
(* still to be written, behind its key (Programmed).                       *)
(***************************************************************************)
EXTENDS SchedClk, SysClk, Hal, FiniteSetTheorems, WellFoundedInduction, TLAPS

Reading == {"low", "high", "again", "lower", "upper"}
Asking == Reading \cup {"test", "lock", "read", "unlock", "wfi"}
Linking == {"lock", "period", "period2", "callback", "callback2", "unlock"}

Threads ==
  [pc : Asking \cup Linking \cup {"idle"},
   op : {"none", "stamp", "first", "loop", "link", "setup"},
   d : Nat, p : Nat \ {0}, cb : Callbacks \cup {"NULL"},
   lim : Nat, since : Nat, torn : BOOLEAN]
Halved == [hi : Nat, lo : Nat, from : Nat, to : Nat]
Stamped == [val : Nat, torn : BOOLEAN, value : Nat]

SchedTypes ==
  /\ platform \in {"sifive", "ibex", "mega_avr"}
  /\ count \in Nat /\ ticks \in Nat /\ value \in Nat
  /\ irqEn \in BOOLEAN /\ exec \in BOOLEAN /\ attached \in BOOLEAN /\ tlock \in BOOLEAN
  /\ handler \in {"isr", "panic"}
  /\ tmr_cb \in Callbacks \cup {"NULL", "torn"}
  /\ th \in Threads /\ rd \in Halved /\ last \in Stamped
  /\ fault \in {"none", "panic", "wild", "null"}

(* Where the thread is in which call, and what it may rely on there. *)
CallsOK ==
  /\ th.op = "none" <=> th.pc = "idle"
  /\ th.op = "link" => th.pc \in Linking /\ th.cb \in Callbacks /\ attached
  /\ th.op = "setup" => th.pc \in {"period", "period2"} /\ ~RiscV /\ exec
  /\ th.op \in {"stamp", "first", "loop"} =>
       th.pc \in Asking /\ (th.pc \notin {"test", "wfi"} => attached)
  /\ th.pc \in {"low", "high", "again"} => RiscV
  /\ th.pc \in {"lower", "upper"} => ~RiscV

(* The interrupt, its handler and the callback. *)
Device ==
  /\ attached => exec /\ handler = "isr"
  /\ irqEn => handler = "isr"
  /\ tmr_cb = "torn" => ~RiscV /\ th.pc = "callback2"
  /\ FaultsKnown
  /\ KeepsTicking

(* What the halves read so far can be of. *)
Readings ==
  /\ th.pc \in Reading => rd.from <= count
  /\ th.pc = "low" => rd.hi <= Hi(count)
  /\ th.pc = "high" => \E t \in rd.from..count : rd.lo = Lo(t) /\ rd.hi <= Hi(t)
  /\ th.pc = "lower" => rd.hi = Hi(rd.from)
  /\ th.pc = "upper" => rd.lo = Lo(rd.from)
  /\ (th.pc = "unlock" /\ th.op # "link") =>
        /\ rd.from <= rd.to /\ rd.to <= count
        /\ ~Torn(rd) => rd.hi * W + rd.lo \in rd.from..rd.to
        /\ last.val = ReadTime(rd.hi * W + rd.lo)
        /\ last.torn = Torn(rd)
        /\ last.torn => th.torn

(* The time of the count c when the period was v. *)
TimeOf(c, v) ==
  IF RiscV THEN ((c * UsPerSec) % U64) \div ClkHz ELSE ((c * 4) % U64) \div (2 * (v + 1))

(* The count the last stamp was made from. *)
Stamps ==
  ~last.torn => \E x \in 0..count : /\ last.val = TimeOf(x, last.value)
                                    /\ th.pc \in Reading => x <= rd.from

(* What the limit of a delay was counted from. *)
Limits ==
  th.op \in {"first", "loop"} =>
    /\ th.since <= count
    /\ th.pc \in Reading \cup {"unlock"} => th.since <= rd.from
    /\ (th.op = "loop" /\ attached /\ ~th.torn /\ Uncut(count)) => th.lim >= ReadTime(th.since) + th.d

SchedInv == SchedTypes /\ CallsOK /\ Device /\ Readings /\ Stamps /\ Limits
-----------------------------------------------------------------------------
(* Arithmetic                                                              *)

(* Integer division as plat_read_time uses it.                              *)
LEMMA DivFacts ==
  ASSUME NEW a \in Nat, NEW k \in Nat \ {0}
  PROVE  /\ a \div k \in Nat /\ a % k \in Nat /\ a % k < k
         /\ a = k * (a \div k) + (a % k)
OBVIOUS

(* Integer division is monotone: the later count is the later time.         *)
LEMMA DivMonotone ==
  ASSUME NEW a \in Nat, NEW b \in Nat, NEW k \in Nat \ {0}, a <= b
  PROVE  a \div k <= b \div k
<1>1. PICK q \in Nat : q = a \div k  BY DivFacts
<1>2. PICK r \in Nat : r = b \div k  BY DivFacts
<1>3. PICK o \in Nat : o < k /\ a = k * q + o  BY <1>1, DivFacts
<1>4. PICK n \in Nat : n < k /\ b = k * r + n  BY <1>2, DivFacts
<1>5. ASSUME q > r PROVE FALSE
  <2>1. PICK e \in Nat : q = r + 1 + e
    <3>1. q - r - 1 \in Nat /\ q = r + 1 + (q - r - 1)  BY <1>5
    <3> QED  BY <3>1
  <2>2. k * q = k * r + k + k * e  BY <2>1
  <2>3. k * e \in Nat  OBVIOUS
  <2>4. PICK u \in Nat : u = k * r  OBVIOUS
  <2> QED  BY <1>3, <1>4, <2>2, <2>3, <2>4
<1> QED  BY <1>1, <1>2, <1>5

(* The halves of a count: put together they are the count, and the high     *)
(* half never falls while it counts.                                        *)
LEMMA Halves ==
  ASSUME NEW c \in Nat
  PROVE  Hi(c) \in Nat /\ Lo(c) \in Nat /\ Hi(c) * W + Lo(c) = c
<1>1. W \in Nat \ {0}  BY SchedClkAssumption
<1>2. PICK q \in Nat : q = c \div W  BY <1>1, DivFacts
<1>3. c = W * q + (c % W) /\ c % W \in Nat  BY <1>1, <1>2, DivFacts
<1>4. W * q = q * W  BY <1>1
<1> QED  BY <1>2, <1>3, <1>4 DEF Hi, Lo

(* The high half never falls while the counter counts. *)
LEMMA HiMonotone ==
  ASSUME NEW a \in Nat, NEW b \in Nat, a <= b
  PROVE  Hi(a) <= Hi(b)
BY SchedClkAssumption, DivMonotone DEF Hi

(* A smaller count has a smaller product, so that it is cut no earlier.     *)
LEMMA UncutBefore ==
  ASSUME NEW a \in Nat, NEW b \in Nat, a <= b, Uncut(b)
  PROVE  Uncut(a)
<1>1. PICK k \in Nat : k = IF RiscV THEN UsPerSec ELSE 4  BY SchedClkAssumption
<1>2. PICK e \in Nat : b = a + e
  <2>1. b - a \in Nat /\ b = a + (b - a)  OBVIOUS
  <2> QED  BY <2>1
<1>3. b * k = a * k + e * k  BY <1>2
<1>4. a * k \in Nat /\ e * k \in Nat  OBVIOUS
<1>5. b * k < U64 /\ U64 \in Nat  BY <1>1, SchedClkAssumption DEF Uncut, Product
<1>6. a * k < U64  BY <1>3, <1>4, <1>5
<1> QED  BY <1>1, <1>6 DEF Uncut, Product

(* plat_read_time gives a number, cut or not.                               *)
LEMMA TimeNat ==
  ASSUME NEW c \in Nat, NEW v \in Nat PROVE TimeOf(c, v) \in Nat
<1>1. c * UsPerSec \in Nat /\ c * 4 \in Nat /\ U64 \in Nat \ {0} /\ ClkHz \in Nat \ {0}
  BY SchedClkAssumption
<1>2. 2 * (v + 1) \in Nat \ {0}  OBVIOUS
<1>3. (c * UsPerSec) % U64 \in Nat /\ (c * 4) % U64 \in Nat  BY <1>1, DivFacts
<1> QED  BY <1>1, <1>2, <1>3, DivFacts DEF TimeOf

(* plat_read_time: a later count is no earlier time while the product fits. *)
LEMMA TimeMonotoneInCount ==
  ASSUME NEW a \in Nat, NEW b \in Nat, NEW v \in Nat, a <= b, Uncut(b)
  PROVE  TimeOf(a, v) <= TimeOf(b, v)
<1>1. PICK k \in Nat : k = IF RiscV THEN UsPerSec ELSE 4  BY SchedClkAssumption
<1>2. PICK p \in Nat, q \in Nat : p = a * k /\ q = b * k  OBVIOUS
<1>3. p <= q
  <2>1. PICK e \in Nat : b = a + e
    <3>1. b - a \in Nat /\ b = a + (b - a)  OBVIOUS
    <3> QED  BY <3>1
  <2>2. q = p + e * k /\ e * k \in Nat  BY <2>1, <1>2
  <2> QED  BY <2>2
<1>4. U64 \in Nat \ {0} /\ q < U64 /\ ClkHz \in Nat \ {0}
  BY <1>1, <1>2, SchedClkAssumption DEF Uncut, Product
<1>5. p % U64 = p /\ q % U64 = q  BY <1>3, <1>4
<1>6. PICK d \in Nat \ {0} : d = IF RiscV THEN ClkHz ELSE 2 * (v + 1)  BY <1>4
<1>7. p \div d <= q \div d  BY <1>3, DivMonotone
<1>8. TimeOf(a, v) = p \div d /\ TimeOf(b, v) = q \div d
  <2>1. CASE RiscV  BY <2>1, <1>1, <1>2, <1>5, <1>6 DEF TimeOf
  <2>2. CASE ~RiscV  BY <2>2, <1>1, <1>2, <1>5, <1>6 DEF TimeOf
  <2> QED  BY <2>1, <2>2
<1> QED  BY <1>7, <1>8

(* The time of now is the time of a count under the period of now.          *)
LEMMA ReadTimeIs == ASSUME NEW c \in Nat PROVE ReadTime(c) = TimeOf(c, value)
BY DEF ReadTime, ReadTimeRiscV, ReadTimeAvr, TimeOf
-----------------------------------------------------------------------------
(* The invariant                                                           *)

(* The invariant holds when the core starts.                                *)
LEMMA SchedStarts == Init => SchedInv
<1> SUFFICES ASSUME Init PROVE SchedInv  OBVIOUS
<1>1. SchedTypes
  <2>1. platform \in {"sifive", "ibex", "mega_avr"}  BY SchedClkAssumption DEF Init
  <2>2. Idle \in Threads  BY DEF Idle, Threads
  <2>3. Unread \in Halved  BY DEF Unread, Halved
  <2>4. [val |-> 0, torn |-> FALSE, value |-> 0] \in Stamped  BY DEF Stamped
  <2> QED  BY <2>1, <2>2, <2>3, <2>4 DEF Init, SchedTypes
<1>2. CallsOK  BY DEF Init, CallsOK, Idle
<1>3. Device  BY DEF Init, Device, FaultsKnown, KeepsTicking
<1>4. Readings  BY DEF Init, Readings, Idle, Reading
<1>5. Stamps
  <2>1. TimeOf(0, 0) = 0
    <3>1. 0 * UsPerSec = 0 /\ 0 * 4 = 0 /\ 2 * (0 + 1) = 2  BY SchedClkAssumption
    <3>2. 0 % U64 = 0 /\ 0 \div ClkHz = 0 /\ 0 \div 2 = 0  BY SchedClkAssumption
    <3> QED  BY <3>1, <3>2 DEF TimeOf
  <2>2. last.val = TimeOf(0, last.value) /\ count = 0 /\ th.pc \notin Reading
    BY <2>1 DEF Init, Idle, Reading
  <2>3. 0 \in 0..count  BY <2>2
  <2> QED  BY <2>2, <2>3 DEF Stamps
<1>6. Limits  BY DEF Init, Limits, Idle
<1> QED  BY <1>1, <1>2, <1>3, <1>4, <1>5, <1>6 DEF SchedInv

(* The counts of a period are a number, on mega_avr too where one is        *)
(* subtracted.                                                              *)
LEMMA TicksNat == ASSUME NEW p \in Nat \ {0} PROVE Ticks(p) \in Nat
BY DEF Ticks, TicksPerMs

(* An interrupt never turns the counter back.                               *)
LEMMA AfterGrows ==
  ASSUME SchedTypes PROVE After(count) \in Nat /\ count <= After(count)
BY DEF After, SchedTypes

(* A call that has its answer ends, or goes on to arch_wfi as a delay.      *)
LEMMA AnsweredType ==
  ASSUME SchedTypes, NEW v \in Nat PROVE Answered(th, v) \in Threads
<1>0. th \in Threads /\ Idle \in Threads  BY DEF SchedTypes, Idle, Threads
<1>1. th.d + v \in Nat  BY <1>0 DEF Threads
<1> QED  BY <1>0, <1>1 DEF Answered, Threads, Asking

(* The end of a reading: the stamp, and why it lies in its window.          *)
LEMMA ReadEnds ==
  ASSUME SchedInv, (ReadHigh /\ Hi(count) = rd.hi) \/ ReadRest
  PROVE  /\ th.pc \in Reading /\ th.pc # "again" /\ th.pc # "low"
         /\ th' = [th EXCEPT !.pc = "unlock", !.torn = th.torn \/ last'.torn]
         /\ rd' \in Halved
         /\ rd'.from = rd.from /\ rd'.to = count
         /\ last' = [val |-> ReadTime(rd'.hi * W + rd'.lo), torn |-> Torn(rd'), value |-> value]
         /\ ~Torn(rd') => rd'.hi * W + rd'.lo \in rd.from..count
         /\ UNCHANGED <<platform, count, value, timer, driver, tlock, isr, fault>>
<1> USE DEF Halved
<1>0. SchedTypes /\ Readings /\ CallsOK  BY DEF SchedInv
<1>t. count \in Nat /\ rd \in Halved
  BY <1>0 DEF SchedTypes
<1>h. Hi(count) \in Nat /\ Lo(count) \in Nat /\ Hi(count) * W + Lo(count) = count
  BY <1>t, Halves
<1>f. Hi(rd.from) \in Nat /\ Lo(rd.from) \in Nat /\ Hi(rd.from) * W + Lo(rd.from) = rd.from
  BY <1>t, Halves
<1>1. CASE ReadHigh /\ Hi(count) = rd.hi
  <2>1. th.pc = "high" /\ Done(rd)
        /\ UNCHANGED <<platform, count, timer, driver, tlock, isr, fault>>
    BY <1>1 DEF ReadHigh, Thread
  <2>2. PICK t \in rd.from..count : rd.lo = Lo(t) /\ rd.hi <= Hi(t)
    BY <1>0, <2>1 DEF Readings
  <2>3. t \in Nat /\ t <= count  BY <1>t, <2>2
  <2>4. Hi(t) \in Nat /\ Hi(t) <= Hi(count) /\ Hi(t) * W + Lo(t) = t
    BY <1>t, <2>3, Halves, HiMonotone
  <2>5. Hi(t) = rd.hi  BY <1>1, <1>t, <1>h, <2>2, <2>4
  <2>6. rd.hi * W + rd.lo = t  BY <2>2, <2>4, <2>5
  <2>7. rd' = [rd EXCEPT !.to = count]  BY <2>1 DEF Done
  <2>8. rd'.hi = rd.hi /\ rd'.lo = rd.lo /\ rd'.from = rd.from /\ rd'.to = count
        /\ rd' \in Halved
    BY <1>t, <2>7
  <2>9. last' = [val |-> ReadTime(rd'.hi * W + rd'.lo), torn |-> Torn(rd'), value |-> value]
    BY <2>1, <2>8 DEF Done
  <2>10. th' = [th EXCEPT !.pc = "unlock", !.torn = th.torn \/ last'.torn]
    BY <2>1, <2>9 DEF Done
  <2>11. rd'.hi * W + rd'.lo \in rd.from..count  BY <2>2, <2>6, <2>8
  <2> QED  BY <2>1, <2>8, <2>9, <2>10, <2>11 DEF Reading, timer
<1>2. CASE ReadRest
  <2>1. PICK r \in {[rd EXCEPT !.lo = Lo(count)], [rd EXCEPT !.hi = Hi(count)]} :
          /\ Done(r)
          /\ \/ th.pc = "lower" /\ r = [rd EXCEPT !.lo = Lo(count)]
             \/ th.pc = "upper" /\ r = [rd EXCEPT !.hi = Hi(count)]
          /\ UNCHANGED <<platform, count, timer, driver, tlock, isr, fault>>
    BY <1>2 DEF ReadRest, Thread
  <2>2. r \in Halved /\ r.from = rd.from
    BY <1>t, <1>h, <2>1
  <2>7. rd' = [r EXCEPT !.to = count]  BY <2>1 DEF Done
  <2>8. rd'.hi = r.hi /\ rd'.lo = r.lo /\ rd'.from = rd.from /\ rd'.to = count
        /\ rd' \in Halved
    BY <1>t, <2>2, <2>7
  <2>9. last' = [val |-> ReadTime(rd'.hi * W + rd'.lo), torn |-> Torn(rd'), value |-> value]
    BY <2>1, <2>8 DEF Done
  <2>10. th' = [th EXCEPT !.pc = "unlock", !.torn = th.torn \/ last'.torn]
    BY <2>1, <2>9 DEF Done
  <2>11. ASSUME ~Torn(rd') PROVE rd'.hi * W + rd'.lo \in rd.from..count
    <3>1. Hi(rd.from) = Hi(count)
      BY <1>0, <2>1, <2>8, <2>11 DEF Torn, CallsOK
    <3>2. rd.from <= count  BY <1>0, <2>1 DEF Readings, Reading
    <3>3. CASE th.pc = "lower"
      <4>1. r.lo = Lo(count) /\ r.hi = Hi(count)  BY <1>0, <1>t, <2>1, <3>1, <3>3 DEF Readings
      <4> QED  BY <1>t, <1>h, <2>8, <3>2, <4>1
    <3>4. CASE th.pc = "upper"
      <4>1. r.hi = Hi(rd.from) /\ r.lo = Lo(rd.from)  BY <1>0, <1>t, <2>1, <3>1, <3>4 DEF Readings
      <4> QED  BY <1>t, <1>f, <2>8, <3>2, <4>1
    <3> QED  BY <2>1, <3>3, <3>4
  <2> QED  BY <2>1, <2>8, <2>9, <2>10, <2>11 DEF Reading, timer
<1> QED  BY <1>1, <1>2

(* Every step keeps the types.                                              *)
LEMMA SchedTypesStep == ASSUME SchedInv, Next PROVE SchedTypes'
<1>0. SchedTypes  BY DEF SchedInv
<1>i. Idle \in Threads /\ Unread \in Halved  BY DEF Idle, Threads, Unread, Halved
<1>h. Hi(count) \in Nat /\ Lo(count) \in Nat  BY <1>0, Halves DEF SchedTypes
<1>a. After(count) \in Nat  BY <1>0, AfterGrows
<1>p. th.p \in Nat \ {0} /\ Ticks(th.p) \in Nat /\ Ticks(1) \in Nat
  BY <1>0, TicksNat DEF SchedTypes, Threads
<1>1. CASE Tick  BY <1>0, <1>1 DEF SchedTypes, Tick, timer, driver
<1>2. CASE Handlers
  <2>1. Wake \in Threads  BY <1>0 DEF SchedTypes, Wake, Threads, Asking
  <2> QED  BY <1>0, <1>a, <1>2, <2>1 DEF SchedTypes, Handlers, IsrRiscV, IsrAvr, Interrupt, driver
<1>3. CASE IsrAsk  BY <1>0, <1>3 DEF SchedTypes, IsrAsk, driver
<1>4. CASE Stamp
  <2>1. th' \in Threads  BY <1>i, <1>4 DEF Stamp, Threads, Asking
  <2> QED  BY <1>0, <1>4, <2>1 DEF SchedTypes, Stamp, timer, driver
<1>5. CASE Delay
  <2>1. th' \in Threads
    <3>1. PICK d \in Nat : th' = [Idle EXCEPT !.pc = "test", !.op = "first", !.d = d,
                                             !.since = count]
      <4>1. PICK e \in Delays :
              th' = [Idle EXCEPT !.pc = "test", !.op = "first",
                                 !.d = IF e = 0 THEN 1 ELSE e, !.since = count]
        BY <1>5 DEF Delay
      <4>2. (IF e = 0 THEN 1 ELSE e) \in Nat  BY SchedClkAssumption
      <4> QED  BY <4>1, <4>2
    <3> QED  BY <1>0, <1>i, <3>1 DEF SchedTypes, Threads, Asking
  <2> QED  BY <1>0, <1>5, <2>1 DEF SchedTypes, Delay, timer, driver
<1>6. CASE LinkCallback
  <2>1. th' \in Threads
    BY <1>i, <1>6, SchedClkAssumption, ZenonT(60) DEF LinkCallback, Threads, Linking
  <2> QED  BY <1>0, <1>6, <2>1 DEF SchedTypes, LinkCallback, timer, driver
<1>7. CASE SetupRiscV
  BY <1>0, <1>p, <1>7 DEF SchedTypes, SetupRiscV, DriverSetup, Attach
<1>8. CASE SetupAvr
  <2>1. [Idle EXCEPT !.pc = "period", !.op = "setup"] \in Threads
    BY <1>i DEF Threads, Linking
  <2> QED  BY <1>0, <1>8, <2>1 DEF SchedTypes, SetupAvr, DriverSetup
<1>9. CASE ExitRiscV \/ ExitAvr
  <2>1. Stopped /\ exec' = FALSE /\ irqEn' = FALSE
    BY <1>9 DEF ExitRiscV, ExitAvr, DriverExit
  <2> QED  BY <1>0, <2>1 DEF SchedTypes, Stopped
<1>10. CASE Test
  <2>1. [th EXCEPT !.pc = "lock"] \in Threads  BY <1>0 DEF SchedTypes, Threads, Asking
  <2>2. Answered(th, 0) \in Threads  BY <1>0, AnsweredType
  <2> QED  BY <1>0, <1>10, <2>1, <2>2 DEF SchedTypes, Test, timer, driver
<1>11. CASE Lock
  <2>1. th' \in Threads  BY <1>0, <1>11 DEF SchedTypes, Lock, Goto, Threads, Asking, Linking
  <2> QED  BY <1>0, <1>11, <2>1 DEF SchedTypes, Lock, driver
<1>12. CASE ReadFirst
  <2>1. th' \in Threads
    BY <1>0, <1>12 DEF SchedTypes, ReadFirst, Goto, Threads, Asking, Reading
  <2>2. rd' \in Halved
    BY <1>0, <1>i, <1>h, <1>12 DEF SchedTypes, ReadFirst, Halved
  <2> QED  BY <1>0, <1>12, <2>1, <2>2 DEF SchedTypes, ReadFirst, timer, driver
<1>13. CASE ReadLow \/ ReadAgain
  <2>1. th' \in Threads
    BY <1>0, <1>13 DEF SchedTypes, ReadLow, ReadAgain, Goto, Threads, Asking, Reading
  <2>2. rd' \in Halved
    BY <1>0, <1>h, <1>13 DEF SchedTypes, ReadLow, ReadAgain, Halved
  <2> QED  BY <1>0, <1>13, <2>1, <2>2 DEF SchedTypes, ReadLow, ReadAgain, timer, driver
<1>14. CASE ReadHigh /\ Hi(count) # rd.hi
  <2>1. th' \in Threads
    BY <1>0, <1>14 DEF SchedTypes, ReadHigh, Goto, Threads, Asking, Reading
  <2> QED  BY <1>0, <1>14, <2>1 DEF SchedTypes, ReadHigh, timer, driver
<1>15. CASE (ReadHigh /\ Hi(count) = rd.hi) \/ ReadRest
  <2>1. /\ th' = [th EXCEPT !.pc = "unlock", !.torn = th.torn \/ last'.torn]
        /\ rd' \in Halved
        /\ last' = [val |-> ReadTime(rd'.hi * W + rd'.lo), torn |-> Torn(rd'), value |-> value]
        /\ UNCHANGED <<platform, count, value, timer, driver, tlock, isr, fault>>
    BY <1>15, ReadEnds, Zenon
  <2>2. rd'.hi * W + rd'.lo \in Nat  BY <2>1, SchedClkAssumption DEF Halved
  <2>3. ReadTime(rd'.hi * W + rd'.lo) \in Nat
    BY <1>0, <2>2, ReadTimeIs, TimeNat DEF SchedTypes
  <2>4. Torn(rd') \in BOOLEAN  BY DEF Torn
  <2>5. last' \in Stamped  BY <1>0, <2>1, <2>3, <2>4 DEF SchedTypes, Stamped
  <2>6. th' \in Threads  BY <1>0, <2>1, <2>5 DEF SchedTypes, Threads, Asking, Stamped
  <2> QED  BY <1>0, <2>1, <2>5, <2>6 DEF SchedTypes, timer, driver
<1>16. CASE Unlock
  <2>1. last.val \in Nat  BY <1>0 DEF SchedTypes, Stamped
  <2>3. th' \in Threads  BY <1>0, <1>16, <2>1, AnsweredType DEF Unlock
  <2> QED  BY <1>0, <1>i, <1>16, <2>3 DEF SchedTypes, Unlock, timer, driver
<1>17. CASE NoWfi
  <2>1. th' \in Threads  BY <1>0, <1>17 DEF SchedTypes, NoWfi, Goto, Threads, Asking
  <2> QED  BY <1>0, <1>17, <2>1 DEF SchedTypes, NoWfi, timer, driver
<1>18. CASE SetPeriodRiscV
  <2>1. th' \in Threads  BY <1>0, <1>18 DEF SchedTypes, SetPeriodRiscV, Goto, Threads, Linking
  <2> QED  BY <1>0, <1>p, <1>18, <2>1 DEF SchedTypes, SetPeriodRiscV, driver
<1>19. CASE SetPeriodAvr
  <2>1. th' \in Threads  BY <1>0, <1>19 DEF SchedTypes, SetPeriodAvr, Goto, Threads, Linking
  <2>2. Hi(ticks) \in Nat /\ Lo(ticks) \in Nat /\ Hi(Ticks(th.p)) \in Nat /\ Lo(Ticks(th.p)) \in Nat
    BY <1>0, <1>p, Halves DEF SchedTypes
  <2>3. ticks' \in Nat  BY <1>19, <2>2, SchedClkAssumption DEF SetPeriodAvr
  <2> QED  BY <1>0, <1>19, <2>1, <2>3 DEF SchedTypes, SetPeriodAvr, driver
<1>20. CASE SetPeriodAvrRest
  <2>1. th' \in Threads
    BY <1>0, <1>i, <1>20 DEF SchedTypes, SetPeriodAvrRest, Goto, Threads, Linking
  <2> QED  BY <1>0, <1>p, <1>20, <2>1 DEF SchedTypes, SetPeriodAvrRest, Attach
<1>21. CASE RegCbRiscV \/ RegCbAvr
  <2>1. th' \in Threads
    BY <1>0, <1>21 DEF SchedTypes, RegCbRiscV, RegCbAvr, Goto, Threads, Linking
  <2>2. th.cb \in Callbacks \cup {"NULL"}  BY <1>0 DEF SchedTypes, Threads
  <2> QED  BY <1>0, <1>21, <2>1, <2>2 DEF SchedTypes, RegCbRiscV, RegCbAvr, driver
<1> QED
  BY <1>1, <1>2, <1>3, <1>4, <1>5, <1>6, <1>7, <1>8, <1>9, <1>10, <1>11, <1>12, <1>13, <1>14,
     <1>15, <1>16, <1>17, <1>18, <1>19, <1>20, <1>21 DEF Next, Calls, Steps

(* The fields of a thread that only goes on within its call.                *)
LEMMA GotoIs ==
  ASSUME SchedTypes, NEW q, th' = [th EXCEPT !.pc = q]
  PROVE  /\ th'.pc = q /\ th'.op = th.op /\ th'.d = th.d /\ th'.p = th.p /\ th'.cb = th.cb
         /\ th'.lim = th.lim /\ th'.since = th.since /\ th'.torn = th.torn
BY DEF SchedTypes, Threads

(* The end of a call, or the turn of a delay's loop.                        *)
LEMMA AnswerFields ==
  ASSUME SchedTypes, NEW v \in Nat, th' = Answered(th, v)
  PROVE  \/ /\ th'.pc = "idle" /\ th'.op = "none"
            /\ th.op # "first" /\ ~(th.op = "loop" /\ th.lim >= v)
         \/ /\ th.op \in {"first", "loop"} /\ th'.pc = "wfi" /\ th'.op = "loop"
            /\ th'.d = th.d /\ th'.since = th.since /\ th'.torn = th.torn
            /\ th.op = "first" => th'.lim = th.d + v
            /\ th.op = "loop" => th'.lim = th.lim
<1>1. CASE th.op = "first"
  <2>1. th' = [th EXCEPT !.pc = "wfi", !.op = "loop", !.lim = th.d + v]  BY <1>1 DEF Answered
  <2> QED  BY <1>1, <2>1 DEF SchedTypes, Threads
<1>2. CASE th.op = "loop" /\ th.lim >= v
  <2>1. th' = [th EXCEPT !.pc = "wfi"]  BY <1>2 DEF Answered
  <2> QED  BY <1>2, <2>1 DEF SchedTypes, Threads
<1>3. CASE th.op # "first" /\ ~(th.op = "loop" /\ th.lim >= v)
  <2>1. th' = Idle  BY <1>3 DEF Answered
  <2> QED  BY <1>3, <2>1 DEF Idle
<1> QED  BY <1>1, <1>2, <1>3

(* An interrupt moves the thread out of arch_wfi at most, and touches       *)
(* neither the reading nor the device.                                      *)
LEMMA HandlerIs ==
  ASSUME SchedTypes, Handlers
  PROVE  /\ th'.pc = th.pc \/ (th.pc = "wfi" /\ th'.pc = "test")
         /\ th'.op = th.op /\ th'.d = th.d /\ th'.cb = th.cb /\ th'.lim = th.lim
         /\ th'.since = th.since /\ th'.torn = th.torn
         /\ count' \in Nat /\ count <= count'
         /\ irqEn /\ fault = "none" /\ irqEn' = irqEn
         /\ fault' = CASE handler = "panic" -> "panic"
                       [] tmr_cb = "torn"   -> "wild"
                       [] OTHER             -> "none"
         /\ UNCHANGED <<platform, handler, value, tmr_cb, exec, attached, rd, last>>
<1>1. Interrupt /\ irqEn' = irqEn /\ (count' = count \/ count' = After(count))
  BY DEF Handlers, IsrRiscV, IsrAvr
<1>2. count' \in Nat /\ count <= count'  BY <1>1, AfterGrows DEF SchedTypes
<1>3. /\ th'.pc = th.pc \/ (th.pc = "wfi" /\ th'.pc = "test")
      /\ th'.op = th.op /\ th'.d = th.d /\ th'.cb = th.cb /\ th'.lim = th.lim
      /\ th'.since = th.since /\ th'.torn = th.torn
  BY <1>1 DEF Interrupt, Wake, SchedTypes, Threads
<1> QED  BY <1>1, <1>2, <1>3 DEF Interrupt, driver

(* Every step keeps what a call relies on.                                  *)
LEMMA CallsStep == ASSUME SchedInv, Next PROVE CallsOK'
<1>0. SchedTypes /\ CallsOK /\ Device  BY DEF SchedInv
<1> USE DEF CallsOK, RiscV
<1>1. CASE Tick  BY <1>0, <1>1 DEF Tick, timer, driver
<1>2. CASE Handlers
  BY <1>0, <1>2, HandlerIs DEF Asking, Linking, Reading
<1>3. CASE IsrAsk  BY <1>0, <1>3 DEF IsrAsk, driver
<1>4. CASE Stamp
  <2>1. th'.pc = "test" /\ th'.op = "stamp"  BY <1>4 DEF Stamp, Idle
  <2> QED  BY <2>1 DEF Asking
<1>5. CASE Delay
  <2>1. th'.pc = "test" /\ th'.op = "first"  BY <1>5 DEF Delay, Idle
  <2> QED  BY <2>1 DEF Asking
<1>6. CASE LinkCallback
  <2>1. th'.pc = "lock" /\ th'.op = "link" /\ th'.cb \in Callbacks  BY <1>6 DEF LinkCallback, Idle
  <2>2. attached'  BY <1>6 DEF LinkCallback, driver
  <2> QED  BY <2>1, <2>2 DEF Linking
<1>7. CASE SetupRiscV
  <2>1. th.op = "none"  BY <1>0, <1>7 DEF SetupRiscV, DriverSetup, Thread
  <2> QED  BY <1>0, <1>7, <2>1 DEF SetupRiscV
<1>8. CASE SetupAvr
  <2>1. th.op = "none" /\ th.pc = "idle"  BY <1>0, <1>8 DEF SetupAvr, DriverSetup, Thread
  <2>2. \/ th' = th
        \/ th'.pc = "period" /\ th'.op = "setup"
    BY <1>8 DEF SetupAvr, Idle
  <2>3. exec' /\ ~RiscV' /\ UNCHANGED attached  BY <1>8 DEF SetupAvr, DriverSetup
  <2> QED  BY <1>0, <2>1, <2>2, <2>3
<1>9. CASE ExitRiscV \/ ExitAvr
  <2>1. th.op = "none" /\ th' = th  /\ th.pc = "idle"
    BY <1>0, <1>9 DEF ExitRiscV, ExitAvr, DriverExit, Stopped, Thread
  <2> QED  BY <1>0, <2>1
<1>10. CASE Test
  <2>1. CASE attached
    <3>1. th'.pc = "lock" /\ th'.op = th.op  BY <1>0, <1>10, <2>1, GotoIs DEF Test
    <3>2. th.op \in {"stamp", "first", "loop"}
      BY <1>0, <1>10 DEF Test, Thread, SchedTypes, Threads, Linking
    <3> QED  BY <1>0, <1>10, <2>1, <3>1, <3>2 DEF Test, driver, Asking
  <2>2. CASE ~attached
    <3>1. th' = Answered(th, 0)  BY <1>10, <2>2 DEF Test
    <3> QED  BY <1>0, <3>1, AnswerFields DEF Asking
  <2> QED  BY <2>1, <2>2
<1>11. CASE Lock
  <2>1. th'.pc = (IF th.op = "link" THEN "period" ELSE "read") /\ th'.op = th.op /\ th'.cb = th.cb
    BY <1>0, <1>11, GotoIs DEF Lock, Goto
  <2>2. th.op \in {"stamp", "first", "loop", "link"} /\ attached
    BY <1>0, <1>11 DEF Lock, Thread, SchedTypes, Threads
  <2> QED  BY <1>0, <1>11, <2>1, <2>2 DEF Lock, driver, Asking, Linking
<1>12. CASE ReadFirst
  <2>1. /\ th'.pc \in {"low", "lower", "upper"} /\ th'.op = th.op
        /\ th'.pc = "low" => RiscV
        /\ th'.pc \in {"lower", "upper"} => ~RiscV
    BY <1>0, <1>12, GotoIs DEF ReadFirst, Goto
  <2>2. th.op \in {"stamp", "first", "loop"} /\ attached
    BY <1>0, <1>12 DEF ReadFirst, Thread, SchedTypes, Threads, Linking
  <2> QED  BY <1>0, <1>12, <2>1, <2>2 DEF ReadFirst, driver, Asking, Reading
<1>13. CASE ReadLow \/ ReadAgain \/ (ReadHigh /\ Hi(count) # rd.hi)
  <2>1. /\ th'.pc \in {"low", "high", "again"} /\ th'.op = th.op
        /\ th.pc \in {"low", "high", "again"}
    BY <1>0, <1>13, GotoIs DEF ReadLow, ReadAgain, ReadHigh, Goto, Thread
  <2>2. th.op \in {"stamp", "first", "loop"} /\ attached /\ RiscV
    BY <1>0, <2>1 DEF SchedTypes, Threads, Linking
  <2>3. UNCHANGED <<platform, exec, attached>>
    BY <1>13 DEF ReadLow, ReadAgain, ReadHigh, driver
  <2> QED  BY <1>0, <2>1, <2>2, <2>3 DEF Asking, Reading
<1>15. CASE (ReadHigh /\ Hi(count) = rd.hi) \/ ReadRest
  <2>1. /\ th.pc \in Reading
        /\ th' = [th EXCEPT !.pc = "unlock", !.torn = th.torn \/ last'.torn]
        /\ UNCHANGED <<platform, driver>>
    BY <1>15, ReadEnds
  <2>2. th'.pc = "unlock" /\ th'.op = th.op  BY <1>0, <2>1 DEF SchedTypes, Threads
  <2>3. th.op \in {"stamp", "first", "loop"} /\ attached
    BY <1>0, <2>1 DEF SchedTypes, Threads, Linking, Reading
  <2> QED  BY <1>0, <2>1, <2>2, <2>3 DEF driver, Asking
<1>16. CASE Unlock
  <2>1. last.val \in Nat /\ th' = Answered(th, last.val)
    BY <1>0, <1>16 DEF SchedTypes, Stamped, Unlock
  <2> QED  BY <1>0, <2>1, AnswerFields DEF Asking
<1>17. CASE NoWfi
  <2>1. th'.pc = "test" /\ th'.op = th.op  BY <1>0, <1>17, GotoIs DEF NoWfi, Goto
  <2>2. th.op \in {"stamp", "first", "loop"}
    BY <1>0, <1>17 DEF NoWfi, Thread, SchedTypes, Threads, Linking
  <2> QED  BY <1>0, <1>17, <2>1, <2>2 DEF NoWfi, driver, Asking
<1>18. CASE SetPeriodRiscV
  <2>1. th'.pc = "callback" /\ th'.op = th.op /\ th'.cb = th.cb /\ th.pc = "period"
    BY <1>0, <1>18, GotoIs DEF SetPeriodRiscV, Goto, Thread
  <2>2. th.op = "link"
    BY <1>0, <1>18, <2>1 DEF SetPeriodRiscV, SchedTypes, Threads, Asking, Reading
  <2> QED  BY <1>0, <1>18, <2>1, <2>2 DEF SetPeriodRiscV, driver, Linking
<1>19. CASE SetPeriodAvr
  <2>1. th'.pc = "period2" /\ th'.op = th.op /\ th'.cb = th.cb /\ th.pc = "period"
    BY <1>0, <1>19, GotoIs DEF SetPeriodAvr, Goto, Thread
  <2>2. th.op \in {"link", "setup"}
    BY <1>0, <2>1 DEF SchedTypes, Threads, Asking, Reading
  <2> QED  BY <1>0, <1>19, <2>1, <2>2 DEF SetPeriodAvr, driver, Linking
<1>20. CASE SetPeriodAvrRest
  <2>1. CASE th.op = "link"
    <3>1. th'.pc = "callback" /\ th'.op = th.op /\ th'.cb = th.cb
      BY <1>0, <1>20, <2>1, GotoIs DEF SetPeriodAvrRest, Goto
    <3> QED  BY <1>0, <1>20, <2>1, <3>1 DEF SetPeriodAvrRest, Linking
  <2>2. CASE th.op # "link"
    <3>1. th'.pc = "idle" /\ th'.op = "none"
      BY <1>20, <2>2 DEF SetPeriodAvrRest, Idle
    <3> QED  BY <3>1
  <2> QED  BY <2>1, <2>2
<1>21. CASE RegCbRiscV \/ RegCbAvr
  <2>1. /\ th.pc \in {"callback", "callback2"} /\ th'.pc \in {"callback2", "unlock"}
        /\ th'.op = th.op /\ th'.cb = th.cb /\ UNCHANGED <<platform, driver>>
    BY <1>0, <1>21, GotoIs DEF RegCbRiscV, RegCbAvr, Goto, Thread
  <2>2. th.op = "link"
    BY <1>0, <2>1 DEF SchedTypes, Threads, Asking, Reading
  <2> QED  BY <1>0, <2>1, <2>2 DEF driver, Linking
<1> QED
  BY <1>1, <1>2, <1>3, <1>4, <1>5, <1>6, <1>7, <1>8, <1>9, <1>10, <1>11, <1>12, <1>13,
     <1>15, <1>16, <1>17, <1>18, <1>19, <1>20, <1>21 DEF Next, Calls, Steps

(* Every step keeps the timer away from the panic handler, an attached      *)
(* clock ticking, and a half written callback within its call.              *)
LEMMA DeviceStep == ASSUME SchedInv, Next PROVE Device'
<1>0. SchedTypes /\ CallsOK /\ Device  BY DEF SchedInv
<1> USE DEF Device, FaultsKnown, KeepsTicking, RiscV
<1>1. CASE Tick  BY <1>0, <1>1 DEF Tick, timer, driver
<1>2. CASE Handlers
  <2>1. /\ th'.pc = th.pc \/ (th.pc = "wfi" /\ th'.pc = "test")
        /\ irqEn /\ irqEn' = irqEn
        /\ fault' = CASE handler = "panic" -> "panic"
                      [] tmr_cb = "torn"   -> "wild"
                      [] OTHER             -> "none"
        /\ UNCHANGED <<platform, handler, tmr_cb, exec, attached>>
    BY <1>0, <1>2, HandlerIs
  <2>2. handler = "isr"  BY <1>0, <2>1
  <2>3. platform \in {"sifive", "ibex", "mega_avr"}  BY <1>0 DEF SchedTypes
  <2>4. fault' = IF tmr_cb = "torn" THEN "wild" ELSE "none"  BY <2>1, <2>2
  <2> QED  BY <1>0, <2>1, <2>2, <2>3, <2>4
<1>3. CASE IsrAsk  BY <1>0, <1>3 DEF IsrAsk, driver
<1>4. CASE Stamp \/ Delay \/ LinkCallback
  <2>1. th.pc = "idle" /\ UNCHANGED <<platform, timer, driver, fault>> /\ fault = "none"
    BY <1>4 DEF Stamp, Delay, LinkCallback, Thread
  <2> QED  BY <1>0, <2>1 DEF timer, driver
<1>7. CASE SetupRiscV
  <2>1. ~exec /\ ~attached /\ fault = "none" /\ th.pc = "idle" /\ exec'
    BY <1>0, <1>7 DEF SetupRiscV, DriverSetup, Thread
  <2> QED  BY <1>0, <1>7, <2>1 DEF SetupRiscV, Attach
<1>8. CASE SetupAvr
  <2>1. ~exec /\ ~attached /\ fault = "none" /\ th.pc = "idle"
    BY <1>0, <1>8 DEF SetupAvr, DriverSetup, Thread
  <2> QED  BY <1>0, <1>8, <2>1 DEF SetupAvr
<1>9. CASE ExitRiscV \/ ExitAvr
  <2>1. irqEn' = FALSE /\ Stopped  BY <1>9 DEF ExitRiscV, ExitAvr
  <2> QED  BY <2>1 DEF Stopped
<1>10. CASE Test \/ NoWfi \/ ReadFirst \/ ReadLow \/ ReadAgain \/ ReadHigh \/ ReadRest \/ Unlock
  <2>1. /\ th.pc # "callback2" /\ fault = "none"
        /\ UNCHANGED <<platform, timer, driver, fault>>
    BY <1>10 DEF Test, NoWfi, ReadFirst, ReadLow, ReadAgain, ReadHigh, ReadRest, Unlock, Thread
  <2> QED  BY <1>0, <2>1 DEF timer, driver
<1>11. CASE Lock
  <2>1. th.pc = "lock" /\ fault = "none"  BY <1>11 DEF Lock, Thread
  <2> QED  BY <1>0, <1>11, <2>1 DEF Lock, driver
<1>18. CASE SetPeriodRiscV
  <2>1. th.pc = "period" /\ fault = "none" /\ RiscV  BY <1>18 DEF SetPeriodRiscV, Thread
  <2>2. attached
    BY <1>0, <2>1 DEF CallsOK, SchedTypes, Threads, Asking, Reading
  <2> QED  BY <1>0, <1>18, <2>1, <2>2 DEF SetPeriodRiscV, driver
<1>19. CASE SetPeriodAvr
  <2>1. th.pc = "period" /\ fault = "none"  BY <1>19 DEF SetPeriodAvr, Thread
  <2> QED  BY <1>0, <1>19, <2>1 DEF SetPeriodAvr, driver
<1>20. CASE SetPeriodAvrRest
  <2>1. th.pc = "period2" /\ fault = "none"  BY <1>20 DEF SetPeriodAvrRest, Thread
  <2>2. exec
    BY <1>0, <2>1 DEF CallsOK, SchedTypes, Threads, Asking, Reading
  <2> QED  BY <1>0, <1>20, <2>1, <2>2 DEF SetPeriodAvrRest
<1>21. CASE RegCbRiscV
  <2>1. th.pc = "callback" /\ fault = "none" /\ RiscV  BY <1>21 DEF RegCbRiscV, Thread
  <2>2. attached /\ th.cb # "torn"
    BY <1>0, <2>1 DEF CallsOK, SchedTypes, Threads, Asking, Reading, Callbacks
  <2> QED  BY <1>0, <1>21, <2>1, <2>2 DEF RegCbRiscV, driver
<1>22. CASE RegCbAvr
  <2>1. fault = "none" /\ ~RiscV /\ UNCHANGED <<platform, irqEn, handler, driver, fault>>
    BY <1>22 DEF RegCbAvr, Thread
  <2>2. th.cb # "torn"  BY <1>0 DEF SchedTypes, Threads, Callbacks
  <2>3. tmr_cb' = th.cb \/ th'.pc = "callback2"
    BY <1>0, <1>22, GotoIs DEF RegCbAvr, Goto
  <2> QED  BY <1>0, <2>1, <2>2, <2>3 DEF driver
<1> QED
  BY <1>1, <1>2, <1>3, <1>4, <1>7, <1>8, <1>9, <1>10, <1>11,
     <1>18, <1>19, <1>20, <1>21, <1>22 DEF Next, Calls, Steps

(* What the steps outside a reading leave alone, and where they end.        *)
LEMMA OutsideReading ==
  ASSUME SchedInv, Next, ~Tick, ~Handlers, ~IsrAsk,
         ~ReadFirst, ~ReadLow, ~ReadAgain, ~ReadHigh, ~ReadRest
  PROVE  /\ th.pc \notin Reading /\ th'.pc \notin Reading
         /\ th'.pc = "unlock" => th'.op = "link"
         /\ UNCHANGED <<platform, count, last>>
<1>0. SchedTypes /\ CallsOK  BY DEF SchedInv
<1>1. CASE Stamp \/ Delay \/ LinkCallback
  BY <1>1 DEF Stamp, Delay, LinkCallback, Thread, Idle, Reading
<1>2. CASE SetupRiscV \/ ExitRiscV \/ ExitAvr
  BY <1>2 DEF SetupRiscV, ExitRiscV, ExitAvr, DriverSetup, DriverExit, Stopped, Thread, Reading
<1>3. CASE SetupAvr
  BY <1>3 DEF SetupAvr, DriverSetup, Thread, Idle, Reading
<1>4. CASE Test
  <2>1. CASE attached
    <3>1. th'.pc = "lock"  BY <1>0, <1>4, <2>1, GotoIs DEF Test
    <3> QED  BY <1>4, <3>1 DEF Test, Thread, Reading
  <2>2. CASE ~attached
    <3>1. th' = Answered(th, 0)  BY <1>4, <2>2 DEF Test
    <3>2. th'.pc \in {"idle", "wfi"}  BY <1>0, <3>1, AnswerFields
    <3> QED  BY <1>4, <3>2 DEF Test, Thread, Reading
  <2> QED  BY <2>1, <2>2
<1>5. CASE Lock
  <2>1. th'.pc \in {"period", "read"}  BY <1>0, <1>5, GotoIs DEF Lock, Goto
  <2> QED  BY <1>5, <2>1 DEF Lock, Thread, Reading
<1>6. CASE Unlock
  <2>1. last.val \in Nat /\ th' = Answered(th, last.val)
    BY <1>0, <1>6 DEF SchedTypes, Stamped, Unlock
  <2>2. th'.pc \in {"idle", "wfi"}  BY <1>0, <2>1, AnswerFields
  <2> QED  BY <1>6, <2>2 DEF Unlock, Thread, Reading
<1>7. CASE NoWfi
  <2>1. th'.pc = "test"  BY <1>0, <1>7, GotoIs DEF NoWfi, Goto
  <2> QED  BY <1>7, <2>1 DEF NoWfi, Thread, Reading
<1>8. CASE SetPeriodRiscV \/ SetPeriodAvr
  <2>1. th'.pc \in {"period2", "callback"}
    BY <1>0, <1>8, GotoIs DEF SetPeriodRiscV, SetPeriodAvr, Goto
  <2> QED  BY <1>8, <2>1 DEF SetPeriodRiscV, SetPeriodAvr, Thread, Reading
<1>9. CASE SetPeriodAvrRest
  <2>1. th'.pc \in {"callback", "idle"}
    BY <1>0, <1>9, GotoIs DEF SetPeriodAvrRest, Goto, Idle
  <2> QED  BY <1>9, <2>1 DEF SetPeriodAvrRest, Thread, Reading
<1>10. CASE RegCbRiscV \/ RegCbAvr
  <2>1. th'.pc \in {"callback2", "unlock"} /\ th'.op = th.op /\ th.pc \in {"callback", "callback2"}
    BY <1>0, <1>10, GotoIs DEF RegCbRiscV, RegCbAvr, Goto, Thread
  <2>2. th.op = "link"
    BY <1>0, <1>10, <2>1 DEF CallsOK, SchedTypes, Threads, Asking, Reading
  <2> QED  BY <1>10, <2>1, <2>2 DEF RegCbRiscV, RegCbAvr, Reading
<1> QED
  BY <1>1, <1>2, <1>3, <1>4, <1>5, <1>6, <1>7, <1>8, <1>9, <1>10 DEF Next, Calls, Steps

(* The hardware and its handlers only move the counter on.                  *)
LEMMA HardwareIs ==
  ASSUME SchedTypes, Tick \/ Handlers \/ IsrAsk
  PROVE  /\ th'.pc = th.pc \/ (th.pc = "wfi" /\ th'.pc = "test")
         /\ th'.op = th.op /\ th'.d = th.d /\ th'.lim = th.lim
         /\ th'.since = th.since /\ th'.torn = th.torn
         /\ count \in Nat /\ count' \in Nat /\ count <= count'
         /\ UNCHANGED <<platform, value, attached, rd, last>>
<1>0. count \in Nat  BY DEF SchedTypes
<1>1. CASE Tick  BY <1>0, <1>1 DEF Tick, timer, driver
<1>2. CASE Handlers  BY <1>0, <1>2, HandlerIs
<1>3. CASE IsrAsk  BY <1>0, <1>3 DEF IsrAsk, driver
<1> QED  BY <1>1, <1>2, <1>3

(* Every step keeps what is known of the halves of a reading.               *)
LEMMA ReadingsStep == ASSUME SchedInv, Next PROVE Readings'
<1>0. SchedTypes /\ CallsOK /\ Readings  BY DEF SchedInv
<1>t. count \in Nat /\ rd \in Halved /\ rd.from \in Nat /\ rd.hi \in Nat
  BY <1>0 DEF SchedTypes, Halved
<1>1. CASE Tick \/ Handlers \/ IsrAsk
  <2>1. /\ th'.pc = th.pc \/ (th.pc = "wfi" /\ th'.pc = "test")
        /\ th'.op = th.op /\ th'.torn = th.torn
        /\ count' \in Nat /\ count <= count'
        /\ UNCHANGED <<platform, value, rd, last>>
    BY <1>0, <1>1, HardwareIs
  <2>2. Hi(count) \in Nat /\ Hi(count') \in Nat /\ Hi(count) <= Hi(count')
    BY <1>t, <2>1, Halves, HiMonotone
  <2>3. Torn(rd)' = Torn(rd) /\ ReadTime(rd.hi * W + rd.lo)' = ReadTime(rd.hi * W + rd.lo)
    BY <2>1 DEF Torn, ReadTime, ReadTimeRiscV, ReadTimeAvr, RiscV
  <2>4. (th.pc \in Reading => rd.from <= count)'  BY <1>0, <1>t, <2>1 DEF Readings, Reading
  <2>5. (th.pc = "low" => rd.hi <= Hi(count))'  BY <1>0, <1>t, <2>1, <2>2 DEF Readings
  <2>6. ASSUME th'.pc = "high"
        PROVE  \E t \in rd'.from..count' : rd'.lo = Lo(t) /\ rd'.hi <= Hi(t)
    <3>1. PICK t \in rd.from..count : rd.lo = Lo(t) /\ rd.hi <= Hi(t)
      BY <1>0, <2>1, <2>6 DEF Readings
    <3>2. t \in rd.from..count'  BY <1>t, <2>1, <3>1
    <3> QED  BY <2>1, <3>1, <3>2
  <2>7. ASSUME th'.pc = "unlock" /\ th'.op # "link"
        PROVE  /\ rd'.from <= rd'.to /\ rd'.to <= count'
               /\ ~Torn(rd)' => rd'.hi * W + rd'.lo \in rd'.from..rd'.to
               /\ last'.val = ReadTime(rd.hi * W + rd.lo)'
               /\ last'.torn = Torn(rd)'
               /\ last'.torn => th'.torn
    <3>1. /\ rd.from <= rd.to /\ rd.to <= count
          /\ ~Torn(rd) => rd.hi * W + rd.lo \in rd.from..rd.to
          /\ last.val = ReadTime(rd.hi * W + rd.lo)
          /\ last.torn = Torn(rd)
          /\ last.torn => th.torn
      BY <1>0, <2>1, <2>7 DEF Readings
    <3>2. rd.to <= count'  BY <1>t, <2>1, <3>1 DEF Halved
    <3> QED  BY <2>1, <2>3, <3>1, <3>2
  <2> QED  BY <1>0, <2>1, <2>4, <2>5, <2>6, <2>7 DEF Readings
<1>2. CASE ReadFirst
  <2>0. th.pc = "read" /\ UNCHANGED count  BY <1>2 DEF ReadFirst, Thread
  <2>1. \/ th'.pc \in {"low", "lower"} /\ rd'.hi = Hi(count) /\ rd'.from = count
        \/ th'.pc = "upper" /\ rd'.lo = Lo(count) /\ rd'.from = count
    BY <1>0, <1>2, GotoIs DEF ReadFirst, Goto, Unread
  <2>2. Hi(count) \in Nat  BY <1>t, Halves
  <2> QED  BY <1>t, <2>0, <2>1, <2>2 DEF Readings, Reading
<1>3. CASE ReadLow
  <2>1. th.pc = "low" /\ th'.pc = "high" /\ UNCHANGED count /\ rd' = [rd EXCEPT !.lo = Lo(count)]
    BY <1>0, <1>3, GotoIs DEF ReadLow, Goto, Thread
  <2>2. rd'.lo = Lo(count) /\ rd'.hi = rd.hi /\ rd'.from = rd.from  BY <1>t, <2>1 DEF Halved
  <2>3. rd.hi <= Hi(count) /\ rd.from <= count  BY <1>0, <2>1 DEF Readings, Reading
  <2>4. count \in rd.from..count  BY <1>t, <2>3
  <2>5. \E t \in rd'.from..count' : rd'.lo = Lo(t) /\ rd'.hi <= Hi(t)
    BY <2>1, <2>2, <2>3, <2>4
  <2> QED  BY <2>1, <2>2, <2>3, <2>5 DEF Readings
<1>4. CASE ReadAgain
  <2>1. th.pc = "again" /\ th'.pc = "low" /\ UNCHANGED count /\ rd' = [rd EXCEPT !.hi = Hi(count)]
    BY <1>0, <1>4, GotoIs DEF ReadAgain, Goto, Thread
  <2>2. rd'.hi = Hi(count) /\ rd'.from = rd.from  BY <1>t, <2>1 DEF Halved
  <2>3. rd.from <= count /\ Hi(count) \in Nat  BY <1>0, <1>t, <2>1, Halves DEF Readings, Reading
  <2> QED  BY <2>1, <2>2, <2>3 DEF Readings
<1>5. CASE ReadHigh /\ Hi(count) # rd.hi
  <2>1. th.pc = "high" /\ th'.pc = "again" /\ UNCHANGED <<count, rd>>
    BY <1>0, <1>5, GotoIs DEF ReadHigh, Goto, Thread
  <2> QED  BY <1>0, <2>1 DEF Readings, Reading
<1>6. CASE (ReadHigh /\ Hi(count) = rd.hi) \/ ReadRest
  <2>1. /\ th.pc \in Reading
        /\ th' = [th EXCEPT !.pc = "unlock", !.torn = th.torn \/ last'.torn]
        /\ rd' \in Halved
        /\ rd'.from = rd.from /\ rd'.to = count
        /\ last' = [val |-> ReadTime(rd'.hi * W + rd'.lo), torn |-> Torn(rd'), value |-> value]
        /\ ~Torn(rd') => rd'.hi * W + rd'.lo \in rd.from..count
        /\ UNCHANGED <<platform, count, value>>
    BY <1>6, ReadEnds
  <2>2. Torn(rd)' = Torn(rd') /\ ReadTime(rd.hi * W + rd.lo)' = ReadTime(rd'.hi * W + rd'.lo)
    BY <2>1 DEF Torn, ReadTime, ReadTimeRiscV, ReadTimeAvr, RiscV
  <2>3. th'.pc = "unlock" /\ th'.torn = (th.torn \/ last'.torn)
    BY <1>0, <2>1 DEF SchedTypes, Threads
  <2>4. last'.val = ReadTime(rd'.hi * W + rd'.lo) /\ last'.torn = Torn(rd')  BY <2>1
  <2>5. rd.from <= count  BY <1>0, <2>1 DEF Readings
  <2>6. /\ rd'.from <= rd'.to /\ rd'.to <= count'
        /\ ~Torn(rd)' => rd'.hi * W + rd'.lo \in rd'.from..rd'.to
        /\ last'.val = ReadTime(rd.hi * W + rd.lo)'
        /\ last'.torn = Torn(rd)'
    BY <1>t, <2>1, <2>2, <2>4, <2>5
  <2>7. last'.torn => th'.torn  BY <2>3
  <2> QED  BY <2>3, <2>6, <2>7 DEF Readings, Reading
<1>7. CASE ~(Tick \/ Handlers \/ IsrAsk \/ ReadFirst \/ ReadLow \/ ReadAgain \/ ReadHigh \/ ReadRest)
  <2>1. th'.pc \notin Reading /\ (th'.pc = "unlock" => th'.op = "link")
    BY <1>7, OutsideReading
  <2> QED  BY <2>1 DEF Readings, Reading
<1> QED  BY <1>1, <1>2, <1>3, <1>4, <1>5, <1>6, <1>7

(* A stamp that ends untorn was made from a count of its window; the last   *)
(* one before it came from no later count.                                  *)
LEMMA StampEnds ==
  ASSUME SchedInv, (ReadHigh /\ Hi(count) = rd.hi) \/ ReadRest, ~last'.torn
  PROVE  \E y \in 0..count : /\ last'.val = TimeOf(y, value) /\ rd.from <= y
                             /\ last'.value = value
<1>0. SchedTypes  BY DEF SchedInv
<1>1. /\ rd' \in Halved
      /\ last' = [val |-> ReadTime(rd'.hi * W + rd'.lo), torn |-> Torn(rd'), value |-> value]
      /\ ~Torn(rd') => rd'.hi * W + rd'.lo \in rd.from..count
  BY ReadEnds
<1>2. rd.from \in Nat /\ count \in Nat  BY <1>0 DEF SchedTypes, Halved
<1>3. last'.val = ReadTime(rd'.hi * W + rd'.lo) /\ last'.torn = Torn(rd') /\ last'.value = value
  BY <1>1
<1>4. rd'.hi * W + rd'.lo \in rd.from..count  BY <1>1, <1>3
<1>5. PICK y \in rd.from..count : y = rd'.hi * W + rd'.lo  BY <1>4
<1>6. y \in 0..count /\ y \in Nat /\ rd.from <= y  BY <1>2, <1>5
<1>7. last'.val = TimeOf(y, value)  BY <1>3, <1>5, <1>6, ReadTimeIs
<1> QED  BY <1>3, <1>6, <1>7

(* Every step keeps the count of the last stamp.                            *)
LEMMA StampsStep == ASSUME SchedInv, Next PROVE Stamps'
<1>0. SchedTypes /\ CallsOK /\ Readings /\ Stamps  BY DEF SchedInv
<1>t. count \in Nat /\ rd \in Halved /\ rd.from \in Nat  BY <1>0 DEF SchedTypes, Halved
<1>s. SUFFICES ASSUME ~last'.torn
               PROVE  \E x \in 0..count' : /\ last'.val = TimeOf(x, last.value)'
                                           /\ th'.pc \in Reading => x <= rd'.from
  BY DEF Stamps
<1>p. ASSUME UNCHANGED <<platform, last>>, NEW x PROVE TimeOf(x, last.value)' = TimeOf(x, last.value)
  BY <1>p DEF TimeOf, RiscV
<1>1. CASE Tick \/ Handlers \/ IsrAsk
  <2>1. /\ th'.pc = th.pc \/ (th.pc = "wfi" /\ th'.pc = "test")
        /\ count' \in Nat /\ count <= count'
        /\ UNCHANGED <<platform, rd, last>>
    BY <1>0, <1>1, HardwareIs
  <2>2. PICK x \in 0..count : /\ last.val = TimeOf(x, last.value)
                              /\ th.pc \in Reading => x <= rd.from
    BY <1>0, <1>s, <2>1 DEF Stamps
  <2>3. x \in 0..count'  BY <1>t, <2>1, <2>2
  <2>4. last'.val = TimeOf(x, last.value)'  BY <1>p, <2>1, <2>2
  <2>5. th'.pc \in Reading => x <= rd'.from  BY <2>1, <2>2 DEF Reading
  <2> QED  BY <2>3, <2>4, <2>5
<1>2. CASE ReadFirst
  <2>1. rd'.from = count /\ UNCHANGED <<platform, count, last>>
    BY <1>2 DEF ReadFirst, Unread
  <2>2. PICK x \in 0..count : last.val = TimeOf(x, last.value)
    BY <1>0, <1>s, <2>1 DEF Stamps
  <2>3. x <= rd'.from  BY <1>t, <2>1, <2>2
  <2>4. last'.val = TimeOf(x, last.value)'  BY <1>p, <2>1, <2>2
  <2> QED  BY <2>1, <2>3, <2>4
<1>3. CASE ReadLow \/ ReadAgain \/ (ReadHigh /\ Hi(count) # rd.hi)
  <2>1. th.pc \in Reading /\ UNCHANGED <<platform, count, last>>
    BY <1>3 DEF ReadLow, ReadAgain, ReadHigh, Thread, Reading
  <2>2. rd'.from = rd.from  BY <1>3, <1>t DEF ReadLow, ReadAgain, ReadHigh, Halved
  <2>3. PICK x \in 0..count : last.val = TimeOf(x, last.value) /\ x <= rd.from
    BY <1>0, <1>s, <2>1 DEF Stamps
  <2>4. last'.val = TimeOf(x, last.value)'  BY <1>p, <2>1, <2>3
  <2> QED  BY <2>1, <2>2, <2>3, <2>4
<1>4. CASE (ReadHigh /\ Hi(count) = rd.hi) \/ ReadRest
  <2>1. PICK y \in 0..count : last'.val = TimeOf(y, value) /\ last'.value = value
    BY <1>s, <1>4, StampEnds
  <2>2. th'.pc = "unlock" /\ UNCHANGED <<platform, count>>
    <3>1. th' = [th EXCEPT !.pc = "unlock", !.torn = th.torn \/ last'.torn]
          /\ UNCHANGED <<platform, count>>
      BY <1>4, ReadEnds
    <3> QED  BY <1>0, <3>1 DEF SchedTypes, Threads
  <2>3. TimeOf(y, last.value)' = TimeOf(y, value)  BY <2>1, <2>2 DEF TimeOf, RiscV
  <2> QED  BY <2>1, <2>2, <2>3 DEF Reading
<1>5. CASE ~(Tick \/ Handlers \/ IsrAsk \/ ReadFirst \/ ReadLow \/ ReadAgain \/ ReadHigh \/ ReadRest)
  <2>1. th'.pc \notin Reading /\ UNCHANGED <<platform, count, last>>  BY <1>5, OutsideReading
  <2>2. PICK x \in 0..count : last.val = TimeOf(x, last.value)
    BY <1>0, <1>s, <2>1 DEF Stamps
  <2>3. last'.val = TimeOf(x, last.value)'  BY <1>p, <2>1, <2>2
  <2> QED  BY <2>1, <2>2, <2>3
<1> QED  BY <1>1, <1>2, <1>3, <1>4, <1>5

(* The reading that a call of get_timestamp returns to a delay: untorn, it  *)
(* is the time of a count no earlier than the start of the delay.           *)
LEMMA AnswerInTime ==
  ASSUME SchedInv, Unlock, th.op \in {"first", "loop"}, ~th.torn
  PROVE  \E y \in Nat : /\ last.val = ReadTime(y) /\ th.since <= y /\ y <= count
<1>0. SchedTypes /\ Readings /\ Limits  BY DEF SchedInv
<1>1. th.pc = "unlock" /\ th.op # "link"  BY DEF Unlock, Thread
<1>2. /\ rd.from <= rd.to /\ rd.to <= count
      /\ ~Torn(rd) => rd.hi * W + rd.lo \in rd.from..rd.to
      /\ last.val = ReadTime(rd.hi * W + rd.lo)
      /\ last.torn = Torn(rd)
      /\ last.torn => th.torn
  BY <1>0, <1>1 DEF Readings
<1>3. PICK y \in rd.from..rd.to : y = rd.hi * W + rd.lo  BY <1>2
<1>4. th.since <= rd.from  BY <1>0, <1>1 DEF Limits
<1>5. y \in Nat /\ th.since <= y /\ y <= count
  BY <1>0, <1>2, <1>3, <1>4 DEF SchedTypes, Halved, Threads
<1> QED  BY <1>2, <1>3, <1>5

(* Every step keeps what the limit of a delay was counted from.             *)
LEMMA LimitsStep == ASSUME SchedInv, Next PROVE Limits'
<1>0. SchedTypes /\ CallsOK /\ Limits  BY DEF SchedInv
<1>t. /\ count \in Nat /\ rd \in Halved /\ rd.from \in Nat /\ value \in Nat
      /\ th.since \in Nat /\ th.lim \in Nat /\ th.d \in Nat
  BY <1>0 DEF SchedTypes, Halved, Threads
<1>p. ASSUME UNCHANGED <<platform, value>>, NEW x PROVE ReadTime(x)' = ReadTime(x)
  BY <1>p DEF ReadTime, ReadTimeRiscV, ReadTimeAvr, RiscV
<1>u. ASSUME platform' = platform, count' \in Nat, count <= count', Uncut(count)' PROVE Uncut(count)
  <2>1. Uncut(count')  BY <1>u DEF Uncut, Product, RiscV
  <2> QED  BY <1>t, <1>u, <2>1, UncutBefore
<1>1. CASE Tick \/ Handlers \/ IsrAsk
  <2>1. /\ th'.pc = th.pc \/ (th.pc = "wfi" /\ th'.pc = "test")
        /\ th'.op = th.op /\ th'.d = th.d /\ th'.lim = th.lim
        /\ th'.since = th.since /\ th'.torn = th.torn
        /\ count' \in Nat /\ count <= count'
        /\ UNCHANGED <<platform, value, attached, rd>>
    BY <1>0, <1>1, HardwareIs
  <2>2. ReadTime(th.since)' = ReadTime(th.since)
    BY <2>1 DEF ReadTime, ReadTimeRiscV, ReadTimeAvr, RiscV
  <2>3. th.op \in {"first", "loop"} => th.since <= count'  BY <1>0, <1>t, <2>1 DEF Limits
  <2>4. Uncut(count)' => Uncut(count)  BY <1>u, <2>1
  <2> QED  BY <1>0, <2>1, <2>2, <2>3, <2>4 DEF Limits, Reading
<1>2. CASE Stamp \/ LinkCallback \/ SetupRiscV \/ SetupAvr \/ ExitRiscV \/ ExitAvr
  <2>1. th'.op \in {"stamp", "link", "setup", "none"}
    BY <1>0, <1>2 DEF Stamp, LinkCallback, SetupRiscV, SetupAvr, ExitRiscV, ExitAvr, DriverSetup,
                      DriverExit, Stopped, Thread, Idle, CallsOK
  <2> QED  BY <2>1 DEF Limits
<1>3. CASE Delay
  <2>1. th'.op = "first" /\ th'.pc = "test" /\ th'.since = count /\ UNCHANGED count
    BY <1>3 DEF Delay, Idle
  <2> QED  BY <1>t, <2>1 DEF Limits, Reading
<1>4. CASE Test
  <2>1. CASE attached
    <3>1. /\ th'.pc = "lock" /\ th'.op = th.op /\ th'.d = th.d /\ th'.lim = th.lim
          /\ th'.since = th.since /\ th'.torn = th.torn
      BY <1>0, <1>4, <2>1, GotoIs DEF Test
    <3>2. UNCHANGED <<platform, count, value, attached>>  BY <1>4 DEF Test, timer, driver
    <3>3. ReadTime(th.since)' = ReadTime(th.since)
      BY <3>1, <3>2 DEF ReadTime, ReadTimeRiscV, ReadTimeAvr, RiscV
    <3>4. Uncut(count)' => Uncut(count)  BY <1>t, <1>u, <3>2
    <3> QED  BY <1>0, <3>1, <3>2, <3>3, <3>4 DEF Limits, Reading
  <2>2. CASE ~attached
    <3>1. th' = Answered(th, 0) /\ UNCHANGED <<count, attached>>  BY <1>4, <2>2 DEF Test, driver
    <3>2. \/ th'.op = "none"
          \/ th.op \in {"first", "loop"} /\ th'.pc = "wfi" /\ th'.since = th.since
      BY <1>0, <3>1, AnswerFields
    <3> QED  BY <1>0, <2>2, <3>1, <3>2 DEF Limits, Reading
  <2> QED  BY <2>1, <2>2
<1>5. CASE Lock \/ NoWfi
  <2>1. /\ th'.pc \in {"period", "read", "test"} /\ th'.op = th.op /\ th'.d = th.d
        /\ th'.lim = th.lim /\ th'.since = th.since /\ th'.torn = th.torn
    BY <1>0, <1>5, GotoIs DEF Lock, NoWfi, Goto
  <2>2. UNCHANGED <<platform, count, value, attached>>  BY <1>5 DEF Lock, NoWfi, timer, driver
  <2>3. ReadTime(th.since)' = ReadTime(th.since)
    BY <2>1, <2>2 DEF ReadTime, ReadTimeRiscV, ReadTimeAvr, RiscV
  <2>4. Uncut(count)' => Uncut(count)  BY <1>t, <1>u, <2>2
  <2> QED  BY <1>0, <2>1, <2>2, <2>3, <2>4 DEF Limits, Reading
<1>6. CASE ReadFirst \/ ReadLow \/ ReadAgain \/ (ReadHigh /\ Hi(count) # rd.hi)
  <2>1. /\ th'.op = th.op /\ th'.d = th.d
        /\ th'.lim = th.lim /\ th'.since = th.since /\ th'.torn = th.torn
    BY <1>0, <1>6, GotoIs DEF ReadFirst, ReadLow, ReadAgain, ReadHigh, Goto
  <2>2. UNCHANGED <<platform, count, value, attached>>
    BY <1>6 DEF ReadFirst, ReadLow, ReadAgain, ReadHigh, timer, driver
  <2>3. ReadTime(th.since)' = ReadTime(th.since)
    BY <2>1, <2>2 DEF ReadTime, ReadTimeRiscV, ReadTimeAvr, RiscV
  <2>4. rd'.from = count \/ (th.pc \in Reading /\ rd'.from = rd.from)
    BY <1>t, <1>6 DEF ReadFirst, ReadLow, ReadAgain, ReadHigh, Thread, Unread, Halved, Reading
  <2>5. Uncut(count)' => Uncut(count)  BY <1>t, <1>u, <2>2
  <2> QED  BY <1>0, <2>1, <2>2, <2>3, <2>4, <2>5 DEF Limits
<1>7. CASE (ReadHigh /\ Hi(count) = rd.hi) \/ ReadRest
  <2>1. /\ th.pc \in Reading
        /\ th' = [th EXCEPT !.pc = "unlock", !.torn = th.torn \/ last'.torn]
        /\ rd'.from = rd.from
        /\ UNCHANGED <<platform, count, value, driver>>
    BY <1>7, ReadEnds
  <2>2. /\ th'.op = th.op /\ th'.d = th.d /\ th'.lim = th.lim /\ th'.since = th.since
        /\ th'.torn = (th.torn \/ last'.torn)
    BY <1>0, <2>1 DEF SchedTypes, Threads
  <2>3. ReadTime(th.since)' = ReadTime(th.since)
    BY <2>1, <2>2 DEF ReadTime, ReadTimeRiscV, ReadTimeAvr, RiscV
  <2>4. ~th'.torn => ~th.torn  BY <2>2
  <2>5. Uncut(count)' => Uncut(count)  BY <1>t, <1>u, <2>1
  <2> QED  BY <1>0, <2>1, <2>2, <2>3, <2>4, <2>5 DEF Limits, driver
<1>8. CASE Unlock
  <2>0. last.val \in Nat /\ th' = Answered(th, last.val)
        /\ UNCHANGED <<platform, count, value, attached>>
    BY <1>0, <1>8 DEF SchedTypes, Stamped, Unlock, timer, driver
  <2>1. CASE th'.op = "none"  BY <2>1 DEF Limits
  <2>2. CASE th'.op # "none"
    <3>1. /\ th.op \in {"first", "loop"} /\ th'.pc = "wfi" /\ th'.op = "loop"
          /\ th'.d = th.d /\ th'.since = th.since /\ th'.torn = th.torn
          /\ th.op = "first" => th'.lim = th.d + last.val
          /\ th.op = "loop" => th'.lim = th.lim
      BY <1>0, <2>0, <2>2, AnswerFields
    <3>2. ReadTime(th.since)' = ReadTime(th.since)
      BY <2>0, <3>1 DEF ReadTime, ReadTimeRiscV, ReadTimeAvr, RiscV
    <3>3. ASSUME th.op = "first", ~th.torn, Uncut(count) PROVE th'.lim >= ReadTime(th.since) + th.d
      <4>1. PICK y \in Nat : last.val = ReadTime(y) /\ th.since <= y /\ y <= count
        BY <1>8, <3>1, <3>3, AnswerInTime
      <4>2. ReadTime(th.since) = TimeOf(th.since, value) /\ ReadTime(y) = TimeOf(y, value)
        BY <1>t, ReadTimeIs
      <4>3. TimeOf(th.since, value) \in Nat /\ TimeOf(th.since, value) <= TimeOf(y, value)
        BY <1>t, <3>3, <4>1, UncutBefore, TimeNat, TimeMonotoneInCount
      <4> QED  BY <1>t, <2>0, <3>1, <3>3, <4>1, <4>2, <4>3
    <3>4. Uncut(count)' => Uncut(count)  BY <1>t, <1>u, <2>0
    <3> QED  BY <1>0, <2>0, <3>1, <3>2, <3>3, <3>4 DEF Limits, Reading
  <2> QED  BY <2>1, <2>2
<1>9. CASE SetPeriodRiscV \/ SetPeriodAvr \/ SetPeriodAvrRest \/ RegCbRiscV \/ RegCbAvr
  <2>1. th.pc \in {"period", "period2", "callback", "callback2"}
        /\ (th'.op = th.op \/ th'.op = "none")
    BY <1>0, <1>9, GotoIs DEF SetPeriodRiscV, SetPeriodAvr, SetPeriodAvrRest, RegCbRiscV, RegCbAvr,
                              Goto, Thread, Idle
  <2>2. th.op \notin {"first", "loop"}
    BY <1>0, <2>1 DEF CallsOK, Asking, Reading
  <2> QED  BY <2>1, <2>2 DEF Limits
<1> QED
  BY <1>1, <1>2, <1>3, <1>4, <1>5, <1>6, <1>7, <1>8, <1>9 DEF Next, Calls, Steps

(* The invariant of the scheduler clock.                                    *)
LEMMA SchedInvariant == Spec => []SchedInv
<1>1. ASSUME SchedInv, [Next]_vars PROVE SchedInv'
  <2>1. CASE Next
    BY <1>1, <2>1, SchedTypesStep, CallsStep, DeviceStep, ReadingsStep, StampsStep, LimitsStep
    DEF SchedInv
  <2>2. CASE UNCHANGED vars
    BY <1>1, <2>2
    DEF SchedInv, SchedTypes, CallsOK, Device, FaultsKnown, KeepsTicking, Readings, Stamps,
        Limits, TimeOf, Torn, Uncut, Product, ReadTime, ReadTimeRiscV, ReadTimeAvr, RiscV, vars
  <2> QED  BY <1>1, <2>1, <2>2
<1> QED  BY <1>1, SchedStarts, PTL DEF Spec

-----------------------------------------------------------------------------
(* Theorems                                                                *)

(* The scheduler clock, for every width of the counter's halves, every set  *)
(* of periods and delays and each of the three builds: a reading lies in    *)
(* its window although its halves are read apart, unless the handler of     *)
(* mega_avr carried into the high half in between; the timer never reaches  *)
(* the panic handler; a half written callback is called on mega_avr only;   *)
(* and an attached clock keeps its interrupt, but not on ibex.              *)
THEOREM ClockCorrect == Spec => []ClockSound
<1>1. SchedInv => ClockSound
  BY DEF SchedInv, Device, Readings, ClockSound, ReadInWindow
<1> QED  BY <1>1, SchedInvariant, PTL

(* get_timestamp never goes back, and udelay and mdelay never return early, *)
(* while the product of plat_read_time fits its 64 bits; on mega_avr unless *)
(* a reading was torn, and for stamps of the same period.                   *)
THEOREM ClockKeepsTime == Spec => TimeKept
<1>1. ASSUME SchedInv, [Next]_vars
      PROVE  [(~last.torn /\ ~last'.torn /\ last.value = last'.value /\ Uncut(count))
                 => last'.val >= last.val]_vars
  <2>0. SchedTypes /\ Stamps  BY <1>1 DEF SchedInv
  <2>t. last.val \in Nat /\ count \in Nat /\ value \in Nat  BY <2>0 DEF SchedTypes, Stamped
  <2>1. CASE last' = last  BY <2>t, <2>1
  <2>2. CASE (ReadHigh /\ Hi(count) = rd.hi) \/ ReadRest
    <3>1. SUFFICES ASSUME ~last.torn, ~last'.torn, last.value = last'.value, Uncut(count)
                   PROVE  last'.val >= last.val
      OBVIOUS
    <3>2. th.pc \in Reading  BY <1>1, <2>2, ReadEnds
    <3>3. PICK x \in 0..count : last.val = TimeOf(x, last.value) /\ x <= rd.from
      BY <2>0, <3>1, <3>2 DEF Stamps
    <3>4. PICK y \in 0..count : last'.val = TimeOf(y, value) /\ rd.from <= y /\ last'.value = value
      BY <1>1, <2>2, <3>1, StampEnds
    <3>5. x \in Nat /\ y \in Nat /\ x <= y
      BY <2>0, <2>t, <3>3, <3>4 DEF SchedTypes, Halved
    <3>6. TimeOf(x, value) \in Nat /\ TimeOf(y, value) \in Nat /\ TimeOf(x, value) <= TimeOf(y, value)
      <4>1. Uncut(y)  BY <2>t, <3>1, <3>4, <3>5, UncutBefore
      <4> QED  BY <2>t, <3>5, <4>1, TimeNat, TimeMonotoneInCount
    <3> QED  BY <3>1, <3>3, <3>4, <3>6
  <2>3. CASE Next /\ ~((ReadHigh /\ Hi(count) = rd.hi) \/ ReadRest)
    <3>1. last' = last
      <4>1. CASE Tick \/ Handlers \/ IsrAsk  BY <2>0, <4>1, HardwareIs
      <4>2. CASE ReadFirst \/ ReadLow \/ ReadAgain \/ ReadHigh
        BY <2>3, <4>2 DEF ReadFirst, ReadLow, ReadAgain, ReadHigh
      <4>3. CASE ~(Tick \/ Handlers \/ IsrAsk \/ ReadFirst \/ ReadLow \/ ReadAgain \/ ReadHigh)
        BY <1>1, <2>3, <4>3, OutsideReading
      <4> QED  BY <4>1, <4>2, <4>3
    <3> QED  BY <2>1, <3>1
  <2> QED  BY <1>1, <2>1, <2>2, <2>3 DEF vars
<1>2. ASSUME SchedInv, [Next]_vars
      PROVE  [(th.op = "loop" /\ th'.pc = "idle" /\ Uncut(count)) =>
                th.torn \/ ReadTime(count) >= ReadTime(th.since) + th.d]_vars
  <2>0. SchedTypes /\ CallsOK /\ Limits  BY <1>2 DEF SchedInv
  <2>t. /\ count \in Nat /\ value \in Nat
        /\ th.since \in Nat /\ th.lim \in Nat /\ th.d \in Nat /\ th.torn \in BOOLEAN
    BY <2>0 DEF SchedTypes, Threads
  <2>1. SUFFICES ASSUME Next, th.op = "loop", th'.pc = "idle", Uncut(count), ~th.torn
                 PROVE  ReadTime(count) >= ReadTime(th.since) + th.d
    BY <1>2
  <2>2. th.pc \in Asking /\ th.pc # "idle"  BY <2>0, <2>1 DEF CallsOK
  <2>3. CASE Unlock
    <3>1. last.val \in Nat /\ th' = Answered(th, last.val)
      BY <2>0, <2>3 DEF SchedTypes, Stamped, Unlock
    <3>2. ~(th.lim >= last.val)  BY <2>0, <2>1, <3>1, AnswerFields
    <3>3. attached
      BY <2>0, <2>1, <2>3 DEF CallsOK, Unlock, Thread
    <3>4. th.lim >= ReadTime(th.since) + th.d  BY <2>0, <2>1, <3>3 DEF Limits
    <3>5. PICK y \in Nat : last.val = ReadTime(y) /\ y <= count
      BY <1>2, <2>1, <2>3, AnswerInTime
    <3>6. /\ ReadTime(th.since) = TimeOf(th.since, value) /\ ReadTime(y) = TimeOf(y, value)
          /\ ReadTime(count) = TimeOf(count, value)
      BY <2>t, ReadTimeIs
    <3>7. /\ TimeOf(th.since, value) \in Nat /\ TimeOf(y, value) \in Nat
          /\ TimeOf(count, value) \in Nat /\ TimeOf(y, value) <= TimeOf(count, value)
      BY <2>t, <2>1, <3>5, TimeNat, TimeMonotoneInCount
    <3> QED  BY <2>t, <3>1, <3>2, <3>4, <3>5, <3>6, <3>7
  <2>4. CASE ~Unlock
    <3>1. CASE Tick \/ Handlers \/ IsrAsk  BY <2>0, <2>1, <2>2, <3>1, HardwareIs
    <3>2. CASE Calls
      BY <2>2, <3>2 DEF Calls, Stamp, Delay, LinkCallback, SetupRiscV, SetupAvr, ExitRiscV, ExitAvr,
                        DriverSetup, DriverExit, Thread
    <3>3. CASE Test
      <4>1. CASE attached  BY <2>0, <2>1, <3>3, <4>1, GotoIs DEF Test
      <4>2. CASE ~attached
        <5>1. th' = Answered(th, 0)  BY <3>3, <4>2 DEF Test
        <5>2. ~(th.lim >= 0)  BY <2>0, <2>1, <5>1, AnswerFields
        <5> QED  BY <2>t, <5>2
      <4> QED  BY <4>1, <4>2
    <3>4. CASE Lock \/ NoWfi \/ ReadFirst \/ ReadLow \/ ReadAgain \/ (ReadHigh /\ Hi(count) # rd.hi)
      <4>1. th'.pc # "idle"
        BY <2>0, <3>4, GotoIs DEF Lock, NoWfi, ReadFirst, ReadLow, ReadAgain, ReadHigh, Goto
      <4> QED  BY <2>1, <4>1
    <3>5. CASE (ReadHigh /\ Hi(count) = rd.hi) \/ ReadRest
      <4>1. th' = [th EXCEPT !.pc = "unlock", !.torn = th.torn \/ last'.torn]
        BY <1>2, <3>5, ReadEnds
      <4>2. th'.pc = "unlock"  BY <2>0, <4>1 DEF SchedTypes, Threads
      <4> QED  BY <2>1, <4>2
    <3>6. CASE SetPeriodRiscV \/ SetPeriodAvr \/ SetPeriodAvrRest \/ RegCbRiscV \/ RegCbAvr
      <4>1. th.pc \in {"period", "period2", "callback", "callback2"}
        BY <3>6 DEF SetPeriodRiscV, SetPeriodAvr, SetPeriodAvrRest, RegCbRiscV, RegCbAvr, Thread
      <4> QED  BY <2>2, <4>1 DEF Asking, Reading
    <3> QED  BY <2>1, <2>4, <3>1, <3>2, <3>3, <3>4, <3>5, <3>6 DEF Next, Steps
  <2> QED  BY <2>3, <2>4
<1> QED  BY <1>1, <1>2, SchedInvariant, PTL DEF Spec, TimeKept, TimeMonotone, DelayNotEarly

-----------------------------------------------------------------------------
(* The list of clock callbacks (SysClk).                                   *)

Words == Blocks \cup {Null, Wild}
Mems ==
  [next : [Blocks -> Words], used : SUBSET Blocks, root : Words,
   handle : [Drivers -> Blocks \cup {Null}], exec : [Drivers -> BOOLEAN],
   up : SUBSET Drivers, dirty : BOOLEAN, failed : BOOLEAN, twice : BOOLEAN,
   bad : {"none", "wild", "hang"}]

Clean(s) == ~s.dirty /\ ~s.failed

(* The list from its root: the node a, then the node b, if they are there. *)
Chain(s, a, b) ==
  /\ a \in Blocks \cup {Null} /\ b \in Blocks \cup {Null} /\ s.root = a
  /\ a \in Blocks => s.next[a] = b /\ a # b
  /\ a = Null => b = Null
  /\ b \in Blocks => s.next[b] = Null

(* The shape of the list while nothing went wrong: the nodes of the drivers *)
(* that run, each once.                                                     *)
Registered(s) ==
  /\ \A d \in s.up : s.handle[d] \in Blocks
  /\ s.up = Drivers => s.handle["earlycon"] # s.handle["console"]
  /\ s.used = {s.handle[d] : d \in s.up}
  /\ \E a, b \in Blocks \cup {Null} : Chain(s, a, b) /\ {a, b} \ {Null} = s.used
  /\ s.bad = "none" /\ ~s.twice
Shape(s) == Registered(s) /\ \A d \in Drivers : s.exec[d] <=> d \in s.up

(* The driver answers the frequency of the clock, but for a clk_type kept  *)
(* over a sysclk_disable.                                                  *)
AnswerRight ==
  /\ src \in [on : BOOLEAN, type : {"internal", "other"}, gets : Nat, kept : BOOLEAN,
              silent : BOOLEAN]
  /\ ~src.kept => src.gets = clk

ClkInv ==
  /\ m \in Mems
  /\ clkFault \in {"none", "null", "wild", "stale", "hang"}
  /\ Clean(m) => Shape(m) /\ clkFault \in {"none", "null"}
  /\ Clean(m) /\ clkFault = "null" => m.up = {}
  /\ AnswerRight /\ BaudFollows

-----------------------------------------------------------------------------
(* Walks.                                                                  *)

(* Every set of numbers that is not empty has a least one: what stands for  *)
(* an induction over the length of a walk.                                  *)
LEMMA LeastNumber ==
  ASSUME NEW T \in SUBSET Nat, T # {}
  PROVE  \E x \in T : \A y \in T : x <= y
<1> DEFINE R == {p \in Nat \X Nat : p[1] < p[2]}
<1>1. IsWellFoundedOn(R, Nat)  BY NatLessThanWellFounded DEF OpToRel
<1>2. PICK x \in T : \A y \in T : ~(<<y, x>> \in R)  BY <1>1, WFMin
<1>3. ASSUME NEW y \in T PROVE x <= y
  <2>1. ~(y < x)  BY <1>2
  <2> QED  BY <2>1
<1> QED  BY <1>2, <1>3

(* A function that follows the links from the root is the walk. *)
LEMMA WalkIs ==
  ASSUME NEW s, NEW k \in Nat, k = Cardinality(Blocks) + 1, NEW g,
         g = [i \in 0 .. k |-> IF i = 0 THEN s.root
                               ELSE IF g[i - 1] \in Blocks THEN s.next[g[i - 1]] ELSE g[i - 1]]
  PROVE  Walk(s) = g
<1> DEFINE F(f) == [i \in 0 .. k |-> IF i = 0 THEN s.root
                               ELSE IF f[i - 1] \in Blocks THEN s.next[f[i - 1]] ELSE f[i - 1]]
<1>1. Walk(s) = CHOOSE f : f = F(f)  BY DEF Walk
<1>2. \E f : f = F(f)  OBVIOUS
<1>3. PICK f : f = Walk(s)  OBVIOUS
<1>4. f = F(f)  BY <1>1, <1>2, <1>3
<1> HIDE DEF F
<1>5. g = F(g)  BY DEF F
<1>6. DOMAIN f = 0 .. k /\ DOMAIN g = 0 .. k  BY <1>4, <1>5 DEF F
<1>7. ASSUME NEW i \in 0 .. k, f[i] # g[i] PROVE FALSE
  <2> DEFINE T == {j \in 0 .. k : f[j] # g[j]}
  <2>1. T \in SUBSET Nat /\ T # {}  BY <1>7
  <2>2. PICK j \in T : \A y \in T : j <= y  BY <2>1, LeastNumber
  <2>3. j \in 0 .. k /\ f[j] # g[j]  OBVIOUS
  <2>4. CASE j = 0
    <3>1. f[0] = s.root /\ g[0] = s.root  BY <1>4, <1>5 DEF F
    <3> QED  BY <2>3, <2>4, <3>1
  <2>5. CASE j # 0
    <3>1. j - 1 \in 0 .. k /\ ~(j <= j - 1)  BY <2>3, <2>5
    <3>2. f[j - 1] = g[j - 1]  BY <2>2, <3>1
    <3>3. f[j] = IF f[j - 1] \in Blocks THEN s.next[f[j - 1]] ELSE f[j - 1]
      BY <1>4, <2>3, <2>5 DEF F
    <3>4. g[j] = IF g[j - 1] \in Blocks THEN s.next[g[j - 1]] ELSE g[j - 1]
      BY <1>5, <2>3, <2>5 DEF F
    <3>5. CASE f[j - 1] \in Blocks
      <4>1. f[j] = s.next[f[j - 1]] /\ g[j] = s.next[f[j - 1]]  BY <3>2, <3>3, <3>4, <3>5
      <4> QED  BY <2>3, <4>1
    <3>6. CASE f[j - 1] \notin Blocks
      <4>1. f[j] = f[j - 1] /\ g[j] = f[j - 1]  BY <3>2, <3>3, <3>4, <3>6
      <4> QED  BY <2>3, <4>1
    <3> QED  BY <3>5, <3>6
  <2> QED  BY <2>4, <2>5
<1>8. f = [i \in 0 .. k |-> f[i]] /\ g = [i \in 0 .. k |-> g[i]]  BY <1>4, <1>5, <1>6 DEF F
<1> QED  BY <1>3, <1>6, <1>7, <1>8

(* The walk of a chain ends and meets exactly its nodes. *)
LEMMA WalkChain ==
  ASSUME NEW s, NEW a, NEW b, Chain(s, a, b)
  PROVE  Nodes(s) = {a, b} \ {Null} /\ End(s) = Null /\ WalkFault(s) = "none"
<1> DEFINE k == Cardinality(Blocks) + 1
           g == [i \in 0 .. k |-> IF i = 0 THEN a ELSE IF i = 1 THEN b ELSE Null]
<1>1. IsFiniteSet(Blocks) /\ Null \notin Blocks  BY SysClkAssumption
<1>2. Cardinality(Blocks) \in Nat /\ (Blocks # {} => Cardinality(Blocks) # 0)
  BY <1>1, FS_CardinalityType, FS_EmptySet
<1>3. k \in Nat /\ k >= 1 /\ (a \in Blocks => k >= 2)  BY <1>2
<1> HIDE DEF k
<1>4. /\ a \in Blocks \cup {Null} /\ b \in Blocks \cup {Null} /\ s.root = a
      /\ a \in Blocks => s.next[a] = b
      /\ a = Null => b = Null
      /\ b \in Blocks => s.next[b] = Null
  BY DEF Chain
<1>5. ASSUME NEW i \in 0 .. k
      PROVE  g[i] = IF i = 0 THEN s.root
                    ELSE IF g[i - 1] \in Blocks THEN s.next[g[i - 1]] ELSE g[i - 1]
  <2>1. CASE i = 0  BY <1>3, <1>4, <2>1
  <2>2. CASE i = 1
    <3>1. g[0] = a /\ g[1] = b  BY <1>3
    <3> QED  BY <1>1, <1>4, <2>2, <3>1
  <2>3. CASE i = 2
    <3>1. g[1] = b /\ g[2] = Null  BY <1>3, <2>3
    <3> QED  BY <1>1, <1>4, <2>3, <3>1
  <2>4. CASE i > 2
    <3>1. g[i] = Null /\ i - 1 \in 0 .. k /\ i - 1 # 0 /\ i - 1 # 1  BY <1>3, <2>4
    <3>2. g[i - 1] = Null  BY <3>1
    <3> QED  BY <1>1, <2>4, <3>1, <3>2
  <2> QED  BY <1>3, <2>1, <2>2, <2>3, <2>4
<1>6. g = [i \in 0 .. k |-> IF i = 0 THEN s.root
                            ELSE IF g[i - 1] \in Blocks THEN s.next[g[i - 1]] ELSE g[i - 1]]
  <2> DEFINE h == [i \in 0 .. k |-> g[i]]
  <2>1. g = h  OBVIOUS
  <2> HIDE DEF g
  <2> QED  BY <1>5, <2>1
<1>7. Walk(s) = g
  <2> HIDE DEF g
  <2> QED  BY <1>3, <1>6, WalkIs DEF k
<1>8. DOMAIN g = 0 .. k /\ g[0] = a /\ g[1] = b /\ \A i \in 0 .. k : g[i] \in {a, b, Null}
  BY <1>3
<1>9. g[k] = Null
  <2>1. CASE a \in Blocks
    <3>1. k \in 0 .. k /\ k # 0 /\ k # 1  BY <1>3, <2>1
    <3> QED  BY <3>1
  <2>2. CASE a = Null
    <3>1. k \in 0 .. k /\ b = Null  BY <1>3, <1>4, <2>2
    <3> QED  BY <2>2, <3>1
  <2> QED  BY <1>4, <2>1, <2>2
<1> HIDE DEF g
<1>10. Nodes(s) = {a, b} \ {Null}
  <2>1. Nodes(s) = {g[i] : i \in 0 .. k} \cap Blocks  BY <1>7, <1>8 DEF Nodes
  <2>2. 0 \in 0 .. k /\ 1 \in 0 .. k  BY <1>3
  <2>3. {g[i] : i \in 0 .. k} = {a, b, Null}  BY <1>3, <1>8, <1>9, <2>2
  <2> QED  BY <1>1, <1>4, <2>1, <2>3
<1>11. End(s) = Null  BY <1>7, <1>9 DEF End, k
<1> QED  BY <1>10, <1>11 DEF WalkFault

-----------------------------------------------------------------------------
(* sysclk.c                                                                *)

(* What registering and removing leave alone. *)
Untouched(s, t) ==
  /\ t \in Mems /\ t.used = s.used /\ t.handle = s.handle /\ t.exec = s.exec /\ t.up = s.up
  /\ t.dirty = s.dirty /\ t.failed = s.failed /\ t.twice = s.twice

(* A walk that goes wrong leaves everything but the list's fault as it was. *)
LEMMA SpoilType ==
  ASSUME NEW s \in Mems
  PROVE  Untouched(s, Spoil(s))
<1>1. WalkFault(s) \in {"none", "wild", "hang"}  BY DEF WalkFault
<1> QED  BY <1>1 DEF Spoil, Mems, Untouched

(* sysclk_register_config_clk_callback changes at most the root or one next pointer. *)
LEMMA RegisterType ==
  ASSUME NEW s \in Mems, NEW n \in Blocks
  PROVE  Untouched(s, ClkRegister(s, n))
<1>1. n \in Words  BY DEF Words
<1>2. CASE ClkRegister(s, n) = Spoil(s)  BY <1>2, SpoilType
<1>3. CASE ClkRegister(s, n) = s  BY <1>3 DEF Untouched
<1>4. CASE ClkRegister(s, n) = [s EXCEPT !.root = n]  BY <1>1, <1>4 DEF Mems, Untouched
<1>5. CASE ClkRegister(s, n) = [s EXCEPT !.next[LastNode(s)] = n]
  BY <1>1, <1>5 DEF Mems, Untouched
<1> QED  BY <1>2, <1>3, <1>4, <1>5 DEF ClkRegister

(* sysclk_deregister_config_clk_callback changes at most the root or one next pointer. *)
LEMMA DeregisterType ==
  ASSUME NEW s \in Mems, NEW n \in Blocks
  PROVE  Untouched(s, Deregister(s, n))
<1>1. s.next[n] \in Words  BY DEF Mems
<1>2. CASE Deregister(s, n) = Spoil(s)  BY <1>2, SpoilType
<1>3. CASE Deregister(s, n) = s  BY <1>3 DEF Untouched
<1>4. CASE Deregister(s, n) = [s EXCEPT !.root = s.next[n]]
  BY <1>1, <1>4 DEF Mems, Untouched
<1>5. ASSUME NEW p, Deregister(s, n) = [s EXCEPT !.next[p] = s.next[n]]
      PROVE  Untouched(s, Deregister(s, n))
  BY <1>1, <1>5 DEF Mems, Untouched
<1> QED  BY <1>2, <1>3, <1>4, <1>5 DEF Deregister

(* A node joins a list of at most one node. *)
LEMMA RegisterChain ==
  ASSUME NEW s \in Mems, NEW a, Chain(s, a, Null), NEW n \in Blocks, n # a, s.next[n] = Null
  PROVE  /\ ~Duplicate(s, n)
         /\ ClkRegister(s, n).bad = s.bad
         /\ \E x, y \in Blocks \cup {Null} :
              Chain(ClkRegister(s, n), x, y) /\ {x, y} \ {Null} = ({a} \ {Null}) \cup {n}
<1>0. Null \notin Blocks  BY SysClkAssumption
<1>1. Nodes(s) = {a} \ {Null} /\ End(s) = Null /\ WalkFault(s) = "none"
  <2>1. {a, Null} \ {Null} = {a} \ {Null}  OBVIOUS
  <2> QED  BY <2>1, WalkChain
<1>2. a \in Blocks \cup {Null} /\ s.root = a /\ (a \in Blocks => s.next[a] = Null)
  BY DEF Chain
<1>3. ~ \E q \in Nodes(s) : s.next[q] = n  BY <1>0, <1>1, <1>2
<1>4. CASE a = Null
  <2>1. ClkRegister(s, n) = [s EXCEPT !.root = n]  BY <1>2, <1>4 DEF ClkRegister
  <2>2. Chain(ClkRegister(s, n), n, Null) /\ ClkRegister(s, n).bad = s.bad
    BY <1>0, <2>1 DEF Chain, Mems
  <2>3. {n, Null} \ {Null} = ({a} \ {Null}) \cup {n}  BY <1>0, <1>4
  <2> QED  BY <1>3, <2>2, <2>3 DEF Duplicate
<1>5. CASE a \in Blocks
  <2>1. LastNode(s) = a  BY <1>0, <1>1, <1>2, <1>5 DEF LastNode
  <2>2. ClkRegister(s, n) = [s EXCEPT !.next[a] = n]
    BY <1>0, <1>1, <1>2, <1>3, <1>5, <2>1 DEF ClkRegister
  <2>3. Chain(ClkRegister(s, n), a, n) /\ ClkRegister(s, n).bad = s.bad
    BY <1>0, <1>2, <1>5, <2>2 DEF Chain, Mems
  <2>4. {a, n} \ {Null} = ({a} \ {Null}) \cup {n}  BY <1>0, <1>5
  <2> QED  BY <1>3, <1>5, <2>3, <2>4 DEF Duplicate
<1> QED  BY <1>2, <1>4, <1>5

(* A node leaves the list. *)
LEMMA DeregisterChain ==
  ASSUME NEW s \in Mems, NEW a, NEW b, Chain(s, a, b), NEW n \in Blocks, n \in {a, b}
  PROVE  /\ Deregister(s, n).bad = s.bad
         /\ \E x, y \in Blocks \cup {Null} :
              Chain(Deregister(s, n), x, y) /\ {x, y} \ {Null} = ({a, b} \ {Null}) \ {n}
<1>0. Null \notin Blocks  BY SysClkAssumption
<1>1. Nodes(s) = {a, b} \ {Null}  BY WalkChain
<1>2. /\ a \in Blocks /\ b \in Blocks \cup {Null} /\ s.root = a
      /\ s.next[a] = b /\ a # b /\ (b \in Blocks => s.next[b] = Null)
  BY <1>0 DEF Chain
<1>3. CASE n = a
  <2>1. Deregister(s, n) = [s EXCEPT !.root = b]  BY <1>0, <1>2, <1>3 DEF Deregister
  <2>2. Chain(Deregister(s, n), b, Null) /\ Deregister(s, n).bad = s.bad
    BY <1>0, <1>2, <2>1 DEF Chain, Mems
  <2>3. {b, Null} \ {Null} = ({a, b} \ {Null}) \ {n}  BY <1>0, <1>2, <1>3
  <2> QED  BY <1>2, <2>2, <2>3
<1>4. CASE n = b
  <2>1. (CHOOSE p \in Nodes(s) : s.next[p] = n) = a  BY <1>0, <1>1, <1>2, <1>4
  <2>2. Deregister(s, n) = [s EXCEPT !.next[a] = Null]
    BY <1>0, <1>1, <1>2, <1>4, <2>1 DEF Deregister
  <2>3. Chain(Deregister(s, n), a, Null) /\ Deregister(s, n).bad = s.bad
    BY <1>0, <1>2, <2>2 DEF Chain, Mems
  <2>4. {a, Null} \ {Null} = ({a, b} \ {Null}) \ {n}  BY <1>0, <1>2, <1>4
  <2> QED  BY <1>2, <2>3, <2>4
<1> QED  BY <1>3, <1>4

-----------------------------------------------------------------------------
(* The console drivers.                                                    *)

(* Either driver's exit. *)
LEMMA StopType ==
  ASSUME NEW s \in Mems, NEW d \in Drivers
  PROVE  /\ Stop(s, d) \in Mems /\ Stop(s, d).up = s.up \ {d} /\ Stop(s, d).exec = s.exec
         /\ Stop(s, d).dirty = s.dirty /\ Stop(s, d).failed = s.failed
         /\ Stop(s, d).handle = s.handle
<1> DEFINE n == s.handle[d]
           off == IF n = Null THEN s ELSE Deregister(s, n)
           t == [off EXCEPT !.up = @ \ {d}]
<1>1. n \in Blocks \cup {Null}  BY DEF Mems
<1>2. off \in Mems /\ Untouched(s, off)
  BY <1>1, DeregisterType DEF Untouched
<1>3. Stop(s, d) = ClkFree(t, n)  BY DEF Stop
<1> HIDE DEF off
<1>4. t \in Mems /\ t.up = s.up \ {d} /\ t.exec = s.exec /\ t.dirty = s.dirty /\ t.failed = s.failed
      /\ t.handle = s.handle
  BY <1>2 DEF Untouched, Mems
<1> HIDE DEF t, n
<1>5. PICK w \in BOOLEAN : w = (t.twice \/ n \notin t.used)
  <2>1. (t.twice \/ n \notin t.used) \in BOOLEAN  BY Zenon
  <2> QED  BY <2>1
<1>6. Stop(s, d) = t \/ Stop(s, d) = [t EXCEPT !.used = @ \ {n}, !.twice = w]
  BY <1>3, <1>4, <1>5 DEF ClkFree, Mems
<1>7. CASE Stop(s, d) = t  BY <1>4, <1>7
<1>8. CASE Stop(s, d) = [t EXCEPT !.used = @ \ {n}, !.twice = w]
  <2>1. w \in BOOLEAN  OBVIOUS
  <2>2. t.used \ {n} \in SUBSET Blocks  BY <1>4 DEF Mems
  <2> QED  BY <1>4, <1>8, <2>1, <2>2 DEF Mems
<1> QED  BY <1>6, <1>7, <1>8

(* A driver's exit takes its own node out of the chain. *)
LEMMA StopKeeps ==
  ASSUME NEW s \in Mems, NEW d \in Drivers, Registered(s), d \in s.up
  PROVE  Registered(Stop(s, d))
<1> DEFINE n == s.handle[d]
           off == Deregister(s, n)
           t == [off EXCEPT !.up = @ \ {d}]
<1>0. Null \notin Blocks  BY SysClkAssumption
<1>1. n \in Blocks /\ n \in s.used  BY DEF Registered
<1>2. off \in Mems /\ Untouched(s, off)  BY <1>1, DeregisterType DEF Untouched
<1>3. Stop(s, d) = ClkFree(t, n)  BY <1>0, <1>1 DEF Stop
<1>4. PICK a, b \in Blocks \cup {Null} : Chain(s, a, b) /\ {a, b} \ {Null} = s.used
  BY DEF Registered
<1>5. n \in {a, b}  BY <1>1, <1>4
<1>6. PICK x, y \in Blocks \cup {Null} :
        Chain(off, x, y) /\ {x, y} \ {Null} = s.used \ {n}
  BY <1>1, <1>4, <1>5, DeregisterChain
<1>7. off.bad = "none"  BY <1>1, <1>4, <1>5, DeregisterChain DEF Registered
<1> HIDE DEF off
<1>8. /\ Stop(s, d).next = off.next /\ Stop(s, d).root = off.root /\ Stop(s, d).bad = "none"
      /\ Stop(s, d).used = s.used \ {n} /\ Stop(s, d).up = s.up \ {d}
      /\ Stop(s, d).handle = s.handle
  BY <1>0, <1>1, <1>2, <1>3, <1>7 DEF ClkFree, Mems, Untouched
<1>9. ~Stop(s, d).twice
  <2>1. ~s.twice  BY DEF Registered
  <2>2. off.twice = s.twice /\ off.used = s.used  BY <1>2 DEF Untouched
  <2>3. t \in Mems /\ t.twice = off.twice /\ t.used = off.used  BY <1>2 DEF Mems
  <2>4. ClkFree(t, n).twice = (t.twice \/ n \notin t.used)  BY <1>0, <1>1, <2>3 DEF ClkFree, Mems
  <2> QED  BY <1>1, <1>3, <2>1, <2>2, <2>3, <2>4
<1>10. Chain(Stop(s, d), x, y)  BY <1>6, <1>8 DEF Chain
<1>11. s.used \ {n} = {s.handle[e] : e \in s.up \ {d}}
  <2>1. \A e \in s.up \ {d} : s.handle[e] # n
    BY DEF Registered, Drivers, Mems
  <2>2. s.used = {s.handle[e] : e \in s.up}  BY DEF Registered
  <2> QED  BY <2>1, <2>2
<1>12. s.up \ {d} # Drivers  OBVIOUS
<1>13. \A e \in s.up \ {d} : s.handle[e] \in Blocks  BY DEF Registered
<1>14. {x, y} \ {Null} = Stop(s, d).used  BY <1>6, <1>8
<1>15. Stop(s, d).used = {Stop(s, d).handle[e] : e \in Stop(s, d).up}  BY <1>8, <1>11
<1> QED  BY <1>8, <1>9, <1>10, <1>12, <1>13, <1>14, <1>15 DEF Registered

(* Either driver's setup. *)
LEMMA StartType ==
  ASSUME NEW s \in Mems, NEW d \in Drivers, NEW how \in Failures, NEW n \in Blocks
  PROVE  /\ Start(s, d, how, n) \in Mems /\ Start(s, d, how, n).exec = s.exec
         /\ Start(s, d, how, n).up \subseteq s.up \cup {d}
         /\ how \in {"port", "handle"} => Start(s, d, how, n).up = s.up
         /\ Clean(Start(s, d, how, n)) =>
              Clean(s) /\ s.next[n] = Null /\ how = "none" /\ d \in Start(s, d, how, n).up
<1> DEFINE node == [s EXCEPT !.handle[d] = n, !.used = @ \cup {n}, !.dirty = @ \/ s.next[n] # Null]
           reg == ClkRegister(node, n)
           r == Start(s, d, how, n)
<1>1. /\ node \in Mems /\ node.exec = s.exec /\ node.up = s.up /\ node.failed = s.failed
      /\ node.dirty = (s.dirty \/ s.next[n] # Null)
  BY DEF Mems
<1>2. reg \in Mems /\ reg.exec = s.exec /\ reg.up = s.up /\ reg.failed = s.failed
      /\ reg.dirty = (s.dirty \/ s.next[n] # Null)
  <2> HIDE DEF node
  <2>1. Untouched(node, reg)  BY <1>1, RegisterType
  <2> QED  BY <1>1, <2>1 DEF Untouched
<1>3. CASE how = "port"
  <2>1. r = [s EXCEPT !.failed = TRUE]  BY <1>3 DEF Start
  <2>2. r \in Mems /\ r.exec = s.exec /\ r.up = s.up /\ r.failed  BY <2>1 DEF Mems
  <2> QED  BY <1>3, <2>2 DEF Clean
<1>4. CASE how = "handle"
  <2>0. [s.handle EXCEPT ![d] = Null] \in [Drivers -> Blocks \cup {Null}]  BY DEF Mems
  <2>1. r = [s EXCEPT !.failed = TRUE, !.handle = [s.handle EXCEPT ![d] = Null]]
    BY <1>4 DEF Start
  <2>2. r \in Mems /\ r.exec = s.exec /\ r.up = s.up /\ r.failed  BY <2>0, <2>1 DEF Mems
  <2> QED  BY <1>4, <2>2 DEF Clean
<1>5. CASE how = "uart"
  <2>1. r = [node EXCEPT !.failed = TRUE]  BY <1>5 DEF Start
  <2> HIDE DEF node
  <2>2. r \in Mems /\ r.exec = s.exec /\ r.up = s.up /\ r.failed  BY <1>1, <2>1 DEF Mems
  <2> QED  BY <1>5, <2>2 DEF Clean
<1>6. CASE how = "none"
  <2>1. CASE Duplicate(node, n)
    <3>1. r = [reg EXCEPT !.failed = TRUE]  BY <1>6, <2>1 DEF Start
    <3> HIDE DEF reg
    <3>2. r \in Mems /\ r.exec = s.exec /\ r.up = s.up /\ r.failed  BY <1>2, <3>1 DEF Mems
    <3> QED  BY <1>6, <3>2 DEF Clean
  <2>2. CASE ~Duplicate(node, n)
    <3>1. r = [reg EXCEPT !.up = @ \cup {d}]  BY <1>6, <2>2 DEF Start
    <3> HIDE DEF reg
    <3>2. /\ r \in Mems /\ r.exec = s.exec /\ r.up = s.up \cup {d} /\ r.failed = s.failed
          /\ r.dirty = (s.dirty \/ s.next[n] # Null)
      BY <1>2, <3>1 DEF Mems
    <3> HIDE DEF r
    <3>3. Clean(r) => Clean(s) /\ s.next[n] = Null  BY <3>2, Zenon DEF Clean
    <3> QED  BY <1>6, <3>2, <3>3 DEF r
  <2> QED  BY <2>1, <2>2
<1> QED  BY <1>3, <1>4, <1>5, <1>6 DEF Failures

(* A driver's setup that went well puts its own node at the end of the chain. *)
LEMMA StartKeeps ==
  ASSUME NEW s \in Mems, NEW d \in Drivers, NEW how \in Failures, NEW n \in Blocks,
         Registered(s), d \notin s.up, n \notin s.used, Clean(Start(s, d, how, n))
  PROVE  Registered(Start(s, d, how, n)) /\ Start(s, d, how, n).up = s.up \cup {d}
<1> DEFINE node == [s EXCEPT !.handle[d] = n, !.used = @ \cup {n}, !.dirty = @ \/ s.next[n] # Null]
           reg == ClkRegister(node, n)
           r == Start(s, d, how, n)
<1>0. Null \notin Blocks  BY SysClkAssumption
<1>1. how = "none" /\ s.next[n] = Null  BY StartType
<1>2. PICK a, b \in Blocks \cup {Null} : Chain(s, a, b) /\ {a, b} \ {Null} = s.used
  BY DEF Registered
<1>3. b = Null
  <2>1. \E e : s.up \subseteq {e}  BY DEF Mems, Drivers
  <2>2. \E z : s.used \subseteq {z}  BY <2>1 DEF Registered
  <2> QED  BY <1>0, <1>2, <2>2 DEF Chain
<1>4. /\ node \in Mems /\ node.next = s.next /\ node.root = s.root /\ node.up = s.up
      /\ node.used = s.used \cup {n} /\ node.bad = "none"
      /\ node.handle = [s.handle EXCEPT ![d] = n]
  BY DEF Mems, Registered
<1>t. ~node.twice
  <2>1. node.twice = s.twice  BY DEF Mems
  <2> QED  BY <2>1 DEF Registered
<1> HIDE DEF node
<1>5. Chain(node, a, Null) /\ node.next[n] = Null /\ n # a
  BY <1>0, <1>1, <1>2, <1>3, <1>4 DEF Chain
<1>6. ~Duplicate(node, n) /\ reg.bad = "none"  BY <1>4, <1>5, RegisterChain
<1>7. PICK x, y \in Blocks \cup {Null} :
        Chain(reg, x, y) /\ {x, y} \ {Null} = ({a} \ {Null}) \cup {n}
  BY <1>4, <1>5, RegisterChain
<1>8. Untouched(node, reg)  BY <1>4, RegisterType
<1>9. r = [reg EXCEPT !.up = @ \cup {d}]  BY <1>1, <1>6 DEF Start, node
<1> HIDE DEF reg
<1>10. /\ r.next = reg.next /\ r.root = reg.root /\ r.bad = "none" /\ r.up = s.up \cup {d}
       /\ r.used = s.used \cup {n} /\ r.handle = [s.handle EXCEPT ![d] = n]
       /\ r.twice = node.twice
  BY <1>4, <1>6, <1>8, <1>9 DEF Untouched, Mems
<1> HIDE DEF r
<1>11. Chain(r, x, y)  BY <1>7, <1>10 DEF Chain
<1>12. {x, y} \ {Null} = r.used  BY <1>2, <1>3, <1>7, <1>10
<1>13. /\ \A e \in s.up : s.handle[e] \in Blocks /\ r.handle[e] = s.handle[e]
       /\ r.handle[d] = n
  BY <1>10 DEF Registered, Mems
<1>14. r.used = {r.handle[e] : e \in r.up}
  <2>1. s.used = {s.handle[e] : e \in s.up}  BY DEF Registered
  <2>2. s.used = {r.handle[e] : e \in s.up}  BY <1>13, <2>1
  <2> QED  BY <1>10, <1>13, <2>2
<1>15. r.up = Drivers => r.handle["earlycon"] # r.handle["console"]
  <2>1. \A e \in s.up : s.handle[e] \in s.used  BY DEF Registered
  <2>2. \A e \in s.up : r.handle[e] # n  BY <1>13, <2>1
  <2> QED  BY <1>10, <1>13, <2>2 DEF Drivers
<1>16. \A e \in r.up : r.handle[e] \in Blocks  BY <1>10, <1>13
<1>17. ~r.twice  BY <1>t, <1>10
<1> QED  BY <1>10, <1>11, <1>12, <1>14, <1>15, <1>16, <1>17 DEF Registered, r

(* The flag of the driver core agrees with what was done to driver d. *)
Agrees(s, d) == s.exec[d] <=> d \in s.up

(* A change of exec leaves the list alone. *)
LEMMA ExecOnly ==
  ASSUME NEW s \in Mems, NEW d \in Drivers, NEW t,
         t = [s EXCEPT !.exec[d] = TRUE] \/ t = [s EXCEPT !.exec[d] = FALSE]
  PROVE  /\ t \in Mems /\ \A e \in Drivers : e # d => t.exec[e] = s.exec[e]
         /\ t.up = s.up /\ t.used = s.used /\ t.next = s.next /\ t.handle = s.handle
         /\ Clean(t) <=> Clean(s)
         /\ Registered(s) => Registered(t)
<1>1. /\ t \in Mems /\ \A e \in Drivers : e # d => t.exec[e] = s.exec[e]
      /\ t.up = s.up /\ t.used = s.used /\ t.next = s.next /\ t.handle = s.handle
      /\ t.root = s.root /\ t.bad = s.bad /\ t.twice = s.twice
      /\ t.dirty = s.dirty /\ t.failed = s.failed
  <2>1. CASE t = [s EXCEPT !.exec[d] = TRUE]  BY <2>1 DEF Mems
  <2>2. CASE t = [s EXCEPT !.exec[d] = FALSE]  BY <2>2 DEF Mems
  <2> QED  BY <2>1, <2>2
<1>2. Clean(t) <=> Clean(s)  BY <1>1 DEF Clean
<1>3. \A a, b : Chain(s, a, b) => Chain(t, a, b)  BY <1>1 DEF Chain
<1>4. ASSUME Registered(s) PROVE Registered(t)
  <2>1. PICK a, b \in Blocks \cup {Null} : Chain(s, a, b) /\ {a, b} \ {Null} = s.used
    BY <1>4 DEF Registered
  <2>2. Chain(t, a, b) /\ {a, b} \ {Null} = t.used  BY <1>1, <1>3, <2>1
  <2>3. t.used = {t.handle[e] : e \in t.up}  BY <1>1, <1>4 DEF Registered
  <2>4. ~t.twice  BY <1>1, <1>4 DEF Registered
  <2> QED  BY <1>1, <1>4, <2>2, <2>3, <2>4 DEF Registered
<1> QED  BY <1>1, <1>2, <1>4

(* earlycon_serial_driver_exit behind driver_exit. *)
LEMMA EarlyconExitKeeps ==
  ASSUME NEW s \in Mems
  PROVE  /\ EarlyconExit(s) \in Mems /\ EarlyconExit(s).up \subseteq s.up
         /\ Clean(EarlyconExit(s)) <=> Clean(s)
         /\ EarlyconExit(s).exec["console"] = s.exec["console"]
         /\ EarlyconExit(s).handle = s.handle
         /\ ~EarlyconExit(s).exec["earlycon"]
         /\ Registered(s) /\ Agrees(s, "earlycon") =>
              Registered(EarlyconExit(s)) /\ EarlyconExit(s).up = s.up \ {"earlycon"}
<1>d. "earlycon" \in Drivers /\ "console" \in Drivers  BY DEF Drivers
<1>1. CASE ~s.exec["earlycon"]
  <2>1. EarlyconExit(s) = s  BY <1>1 DEF EarlyconExit
  <2>2. Agrees(s, "earlycon") => s.up = s.up \ {"earlycon"}  BY <1>1 DEF Agrees
  <2> QED  BY <1>1, <2>1, <2>2
<1>2. CASE s.exec["earlycon"]
  <2> DEFINE u == [s EXCEPT !.exec["earlycon"] = FALSE]
  <2>1. EarlyconExit(s) = Stop(u, "earlycon")  BY <1>2 DEF EarlyconExit
  <2>0. u = [s EXCEPT !.exec["earlycon"] = FALSE] /\ ~u.exec["earlycon"]  BY <1>d DEF Mems
  <2> HIDE DEF u
  <2>2. /\ u \in Mems /\ u.up = s.up /\ u.handle = s.handle
        /\ (Clean(u) <=> Clean(s)) /\ (Registered(s) => Registered(u))
    BY <1>d, <2>0, ExecOnly
  <2>3. u.exec["console"] = s.exec["console"] /\ ~u.exec["earlycon"]
    BY <1>d, <2>0, ExecOnly
  <2> HIDE DEF u
  <2> DEFINE r == Stop(u, "earlycon")
  <2>4. /\ r \in Mems /\ r.up = u.up \ {"earlycon"} /\ r.exec = u.exec
        /\ r.dirty = u.dirty /\ r.failed = u.failed /\ r.handle = u.handle
    BY <1>d, <2>2, StopType
  <2>5. ASSUME Registered(s), Agrees(s, "earlycon") PROVE Registered(r)
    <3>1. "earlycon" \in u.up  BY <1>2, <2>2, <2>5 DEF Agrees
    <3> QED  BY <1>d, <2>2, <2>5, <3>1, StopKeeps
  <2> HIDE DEF r
  <2>6. Clean(r) <=> Clean(u)  BY <2>4 DEF Clean
  <2>7. r.exec["console"] = s.exec["console"] /\ ~r.exec["earlycon"]  BY <2>3, <2>4
  <2> QED  BY <2>1, <2>2, <2>4, <2>5, <2>6, <2>7 DEF r
<1> QED  BY <1>1, <1>2

(* earlycon_serial_driver_setup behind driver_setup. *)
LEMMA EarlyconSetupKeeps ==
  ASSUME NEW s \in Mems, NEW how \in Failures, NEW n \in Blocks
  PROVE  /\ EarlyconSetup(s, how, n) \in Mems
         /\ Clean(EarlyconSetup(s, how, n)) => Clean(s)
         /\ s.exec["earlycon"] \/ how \in {"port", "handle"} =>
              EarlyconSetup(s, how, n).up \subseteq s.up
         /\ (/\ Registered(s) /\ Agrees(s, "earlycon") /\ MayAlloc(s, how, n)
             /\ Clean(EarlyconSetup(s, how, n)))
            => /\ Registered(EarlyconSetup(s, how, n)) /\ EarlyconSetup(s, how, n).exec["earlycon"]
               /\ EarlyconSetup(s, how, n).up = s.up \cup {"earlycon"}
               /\ EarlyconSetup(s, how, n).exec["console"] = s.exec["console"]
<1>d. "earlycon" \in Drivers /\ "console" \in Drivers  BY DEF Drivers
<1>1. CASE s.exec["earlycon"]
  <2>1. EarlyconSetup(s, how, n) = s  BY <1>1 DEF EarlyconSetup
  <2>2. Agrees(s, "earlycon") => s.up = s.up \cup {"earlycon"}  BY <1>1 DEF Agrees
  <2> QED  BY <1>1, <2>1, <2>2
<1>2. CASE ~s.exec["earlycon"]
  <2> DEFINE u == [s EXCEPT !.exec["earlycon"] = TRUE]
             t == Start(u, "earlycon", how, n)
             r == EarlyconSetup(s, how, n)
  <2>1. r = IF "earlycon" \in t.up THEN t ELSE Stop(t, "earlycon")
    BY <1>2 DEF EarlyconSetup
  <2>0. u = [s EXCEPT !.exec["earlycon"] = TRUE] /\ u.exec["earlycon"]  BY <1>d DEF Mems
  <2> HIDE DEF u
  <2>2. /\ u \in Mems /\ u.up = s.up /\ u.used = s.used
        /\ (Clean(u) <=> Clean(s)) /\ (Registered(s) => Registered(u))
    BY <1>d, <2>0, ExecOnly
  <2>3. u.exec["console"] = s.exec["console"] /\ u.exec["earlycon"]
    BY <1>d, <2>0, ExecOnly
  <2>4. /\ t \in Mems /\ t.exec = u.exec /\ t.up \subseteq u.up \cup {"earlycon"}
        /\ how \in {"port", "handle"} => t.up = u.up
        /\ Clean(t) => Clean(u) /\ how = "none" /\ "earlycon" \in t.up
    BY <1>d, <2>2, StartType
  <2>5. CASE "earlycon" \in t.up
    <3>1. r = t  BY <2>1, <2>5
    <3>2. ASSUME Registered(s), Agrees(s, "earlycon"), MayAlloc(s, how, n), Clean(t)
          PROVE  Registered(t) /\ t.up = s.up \cup {"earlycon"}
      <4>1. "earlycon" \notin u.up  BY <1>2, <2>2, <3>2 DEF Agrees
      <4>2. n \notin u.used  BY <2>2, <2>4, <3>2 DEF MayAlloc
      <4> QED  BY <1>d, <2>2, <3>2, <4>1, <4>2, StartKeeps
    <3> HIDE DEF r, t
    <3> QED  BY <1>2, <2>2, <2>3, <2>4, <3>1, <3>2 DEF r
  <2>6. CASE "earlycon" \notin t.up
    <3>1. r = Stop(t, "earlycon")  BY <2>1, <2>6
    <3>2. ~Clean(t)  BY <2>4, <2>6
    <3> HIDE DEF t
    <3>3. /\ r \in Mems /\ r.up = t.up \ {"earlycon"}
          /\ r.dirty = t.dirty /\ r.failed = t.failed
      BY <1>d, <2>4, <3>1, StopType
    <3> HIDE DEF r
    <3>4. ~Clean(r)  BY <3>2, <3>3 DEF Clean
    <3> QED  BY <1>2, <2>2, <2>4, <3>3, <3>4 DEF r
  <2> QED  BY <2>5, <2>6
<1> QED  BY <1>1, <1>2

-----------------------------------------------------------------------------
(* The calls.                                                              *)

(* What a call has to do to keep the invariant. *)
LEMMA EffectKeeps ==
  ASSUME ClkInv, ClkRunning, NEW r \in Mems, m' = r, clkFault' = r.bad, clk' = clk,
         Compute \/ (UNCHANGED <<brr, src>> /\ r.up \subseteq m.up),
         Clean(r) => Shape(r)
  PROVE  ClkInv'
<1>1. clkFault' \in {"none", "null", "wild", "stale", "hang"}  BY DEF Mems
<1>2. Clean(r) => r.bad = "none"  BY DEF Shape, Registered
<1>3. CASE Compute
  <2>1. AnswerRight'  BY <1>3 DEF AnswerRight, Compute, ClkInv
  <2>2. ~src'.silent => brr' = clk  BY <1>3 DEF AnswerRight, Compute, ClkInv
  <2>3. BaudFollows'  BY <2>2 DEF BaudFollows
  <2> QED  BY <1>1, <1>2, <2>1, <2>3, Zenon DEF ClkInv
<1>4. CASE UNCHANGED <<brr, src>> /\ r.up \subseteq m.up
  <2>1. AnswerRight'  BY <1>4 DEF AnswerRight, ClkInv
  <2>2. BaudFollows'  BY <1>4 DEF BaudFollows, ClkInv, ClkRunning
  <2> QED  BY <1>1, <1>2, <2>1, <2>2 DEF ClkInv
<1> QED  BY <1>3, <1>4

(* Shape from its parts. *)
LEMMA ShapeIs ==
  ASSUME NEW s
  PROVE  Shape(s) <=> Registered(s) /\ Agrees(s, "earlycon") /\ Agrees(s, "console")
BY DEF Shape, Agrees, Drivers

(* earlycon_serial_driver_setup. *)
LEMMA SetupEarlyconKeeps ==
  ASSUME ClkInv, NEW how \in Failures, NEW n \in Blocks, SetupEarlycon(how, n)
  PROVE  ClkInv'
<1> DEFINE r == EarlyconSetup(m, how, n)
<1>0. m \in Mems /\ (Clean(m) => Shape(m))  BY DEF ClkInv
<1>1. /\ ClkRunning /\ MayAlloc(m, how, n) /\ m' = r /\ clkFault' = r.bad /\ clk' = clk
      /\ IF how \in {"none", "uart"} THEN Compute ELSE UNCHANGED <<brr, src>>
  BY DEF SetupEarlycon, Effect
<1>2. /\ r \in Mems /\ (Clean(r) => Clean(m))
      /\ how \in {"port", "handle"} => r.up \subseteq m.up
  BY <1>0, EarlyconSetupKeeps
<1>3. ASSUME Clean(r) PROVE Shape(r)
  <2>1. Registered(m) /\ Agrees(m, "earlycon") /\ Agrees(m, "console")
    BY <1>0, <1>2, <1>3, ShapeIs
  <2>2. /\ Registered(r) /\ r.exec["earlycon"] /\ r.up = m.up \cup {"earlycon"}
        /\ r.exec["console"] = m.exec["console"]
    BY <1>0, <1>1, <1>3, <2>1, EarlyconSetupKeeps
  <2> HIDE DEF r
  <2>3. Agrees(r, "earlycon") /\ Agrees(r, "console")  BY <2>1, <2>2 DEF Agrees
  <2> QED  BY <2>2, <2>3, ShapeIs
<1>4. Compute \/ (UNCHANGED <<brr, src>> /\ r.up \subseteq m.up)  BY <1>1, <1>2 DEF Failures
<1> HIDE DEF r
<1> QED  BY <1>1, <1>2, <1>3, <1>4, EffectKeeps

(* earlycon_serial_driver_exit. *)
LEMMA ExitEarlyconKeeps ==
  ASSUME ClkInv, ExitEarlycon
  PROVE  ClkInv'
<1> DEFINE r == EarlyconExit(m)
<1>0. m \in Mems /\ (Clean(m) => Shape(m))  BY DEF ClkInv
<1>1. ClkRunning /\ m' = r /\ clkFault' = r.bad /\ clk' = clk /\ UNCHANGED <<brr, src>>
  BY DEF ExitEarlycon, Effect
<1>2. r \in Mems /\ (Clean(r) => Clean(m)) /\ r.up \subseteq m.up
  BY <1>0, EarlyconExitKeeps
<1>3. ASSUME Clean(r) PROVE Shape(r)
  <2>1. Registered(m) /\ Agrees(m, "earlycon") /\ Agrees(m, "console")
    BY <1>0, <1>2, <1>3, ShapeIs
  <2>2. /\ Registered(r) /\ ~r.exec["earlycon"] /\ r.up = m.up \ {"earlycon"}
        /\ r.exec["console"] = m.exec["console"]
    BY <1>0, <2>1, EarlyconExitKeeps
  <2> HIDE DEF r
  <2>3. Agrees(r, "earlycon") /\ Agrees(r, "console")  BY <2>1, <2>2 DEF Agrees
  <2> QED  BY <2>2, <2>3, ShapeIs
<1> HIDE DEF r
<1> QED  BY <1>1, <1>2, <1>3, EffectKeeps

(* console_serial_driver_exit, which sets the early console up again. *)
LEMMA ExitConsoleKeeps ==
  ASSUME ClkInv, NEW how \in Failures, NEW n \in Blocks, ExitConsole(how, n)
  PROVE  ClkInv'
<1> DEFINE u == [m EXCEPT !.exec["console"] = FALSE]
           s == Stop(u, "console")
           r == EarlyconSetup(s, how, n)
<1>d. "earlycon" \in Drivers /\ "console" \in Drivers  BY DEF Drivers
<1>0. m \in Mems /\ (Clean(m) => Shape(m))  BY DEF ClkInv
<1>1. /\ ClkRunning /\ m.exec["console"] /\ MayAlloc(s, how, n)
      /\ m' = r /\ clkFault' = r.bad /\ clk' = clk
      /\ IF ~m.exec["earlycon"] /\ how \in {"none", "uart"} THEN Compute
         ELSE UNCHANGED <<brr, src>>
  BY DEF ExitConsole, Effect
<1>u. u = [m EXCEPT !.exec["console"] = FALSE] /\ ~u.exec["console"]  BY <1>0, <1>d DEF Mems
<1> HIDE DEF u
<1>2. /\ u \in Mems /\ u.up = m.up
      /\ (Clean(u) <=> Clean(m)) /\ (Registered(m) => Registered(u))
  BY <1>0, <1>d, <1>u, ExecOnly
<1>3. u.exec["earlycon"] = m.exec["earlycon"] /\ ~u.exec["console"]
  BY <1>0, <1>d, <1>u, ExecOnly
<1>4. /\ s \in Mems /\ s.up = m.up \ {"console"} /\ s.exec = u.exec
      /\ s.dirty = u.dirty /\ s.failed = u.failed
  BY <1>d, <1>2, StopType
<1>5. /\ r \in Mems /\ (Clean(r) => Clean(s))
      /\ s.exec["earlycon"] \/ how \in {"port", "handle"} => r.up \subseteq s.up
  BY <1>4, EarlyconSetupKeeps
<1>6. Clean(s) <=> Clean(m)
  <2> HIDE DEF s
  <2>1. Clean(s) <=> Clean(u)  BY <1>4 DEF Clean
  <2> QED  BY <1>2, <2>1
<1>7. ASSUME Clean(r) PROVE Shape(r)
  <2>1. Registered(m) /\ Agrees(m, "earlycon") /\ Agrees(m, "console")
    BY <1>0, <1>5, <1>6, <1>7, ShapeIs
  <2>2. "console" \in u.up  BY <1>1, <1>2, <2>1 DEF Agrees
  <2>3. Registered(s)  BY <1>d, <1>2, <2>1, <2>2, StopKeeps
  <2>4. Agrees(s, "earlycon")
    <3> HIDE DEF s
    <3> QED  BY <1>3, <1>4, <2>1 DEF Agrees
  <2>5. /\ Registered(r) /\ r.exec["earlycon"] /\ r.up = s.up \cup {"earlycon"}
        /\ r.exec["console"] = s.exec["console"]
    BY <1>1, <1>4, <1>7, <2>3, <2>4, EarlyconSetupKeeps
  <2> HIDE DEF r, s
  <2>6. Agrees(r, "earlycon") /\ Agrees(r, "console")  BY <1>3, <1>4, <2>5 DEF Agrees
  <2> QED  BY <2>5, <2>6, ShapeIs
<1> HIDE DEF r, s
<1>8. Compute \/ (UNCHANGED <<brr, src>> /\ r.up \subseteq m.up)
  <2>1. CASE m.exec["earlycon"]  BY <1>1, <1>3, <1>4, <1>5, <2>1
  <2>2. CASE ~m.exec["earlycon"]  BY <1>1, <1>4, <1>5, <2>2 DEF Failures
  <2> QED  BY <2>1, <2>2
<1> QED  BY <1>1, <1>5, <1>7, <1>8, EffectKeeps

(* console_serial_driver_setup, which takes the early console down first. *)
LEMMA SetupConsoleKeeps ==
  ASSUME ClkInv, NEW how \in Failures, NEW n \in Blocks, NEW how2 \in Failures, NEW n2 \in Blocks,
         SetupConsole(how, n, how2, n2)
  PROVE  ClkInv'
<1> DEFINE u == [m EXCEPT !.exec["console"] = TRUE]
           e == EarlyconExit(u)
           t == Start(e, "console", how, n)
           s == Stop(t, "console")
           r == ConsoleSetup(m, how, n, how2, n2)
<1>d. "earlycon" \in Drivers /\ "console" \in Drivers  BY DEF Drivers
<1>0. m \in Mems /\ (Clean(m) => Shape(m))  BY DEF ClkInv
<1>1. /\ ClkRunning /\ ~m.exec["console"] /\ MayAlloc(EarlyconExit(m), how, n)
      /\ m' = r /\ clkFault' = r.bad /\ clk' = clk
      /\ IF how \in {"none", "uart"} \/ how2 \in {"none", "uart"} THEN Compute
         ELSE UNCHANGED <<brr, src>>
  BY DEF SetupConsole, Effect
<1>2. r = IF "console" \in t.up THEN t ELSE EarlyconSetup(s, how2, n2)
  BY DEF ConsoleSetup, ConsoleExit
<1>u. u = [m EXCEPT !.exec["console"] = TRUE] /\ u.exec["console"]  BY <1>0, <1>d DEF Mems
<1> HIDE DEF u
<1>3. /\ u \in Mems /\ u.up = m.up /\ u.handle = m.handle
      /\ (Clean(u) <=> Clean(m)) /\ (Registered(m) => Registered(u))
  BY <1>0, <1>d, <1>u, ExecOnly
<1>4. u.exec["earlycon"] = m.exec["earlycon"] /\ u.exec["console"]
  BY <1>0, <1>d, <1>u, ExecOnly
<1>5. /\ e \in Mems /\ e.up \subseteq m.up /\ (Clean(e) <=> Clean(m)) /\ e.handle = m.handle
      /\ e.exec["console"] = u.exec["console"] /\ ~e.exec["earlycon"]
  BY <1>3, EarlyconExitKeeps
<1>6. ASSUME Clean(m)
      PROVE  /\ Registered(e) /\ e.up = m.up \ {"earlycon"} /\ "console" \notin m.up
             /\ EarlyconExit(m).used = e.used
  <2>1. Registered(m) /\ Agrees(m, "earlycon") /\ Agrees(m, "console")
    BY <1>0, <1>6, ShapeIs
  <2>2. Registered(u) /\ Agrees(u, "earlycon")
    BY <1>3, <1>4, <2>1 DEF Agrees
  <2>3. Registered(e) /\ e.up = m.up \ {"earlycon"}
    BY <1>3, <2>2, EarlyconExitKeeps
  <2>4. /\ Registered(EarlyconExit(m)) /\ EarlyconExit(m).up = m.up \ {"earlycon"}
        /\ EarlyconExit(m).handle = m.handle
    BY <1>0, <2>1, EarlyconExitKeeps
  <2>5. "console" \notin m.up  BY <1>1, <2>1 DEF Agrees
  <2> HIDE DEF e
  <2>6. EarlyconExit(m).used = e.used  BY <1>5, <2>3, <2>4 DEF Registered
  <2> QED  BY <2>3, <2>5, <2>6
<1> HIDE DEF e
<1>7. /\ t \in Mems /\ t.exec = e.exec /\ t.up \subseteq e.up \cup {"console"}
      /\ how \in {"port", "handle"} => t.up = e.up
      /\ Clean(t) => Clean(e) /\ how = "none" /\ "console" \in t.up
  BY <1>d, <1>5, StartType
<1>8. ASSUME Clean(t) PROVE Shape(t)
  <2>1. Clean(m) /\ how = "none"  BY <1>5, <1>7, <1>8
  <2>2. n \notin e.used  BY <1>1, <1>6, <2>1 DEF MayAlloc
  <2>3. "console" \notin e.up  BY <1>6, <2>1
  <2>4. Registered(t) /\ t.up = e.up \cup {"console"}
    BY <1>d, <1>5, <1>6, <1>8, <2>1, <2>2, <2>3, StartKeeps
  <2> HIDE DEF t
  <2>5. Agrees(t, "earlycon") /\ Agrees(t, "console")
    BY <1>4, <1>5, <1>6, <1>7, <2>1, <2>4 DEF Agrees
  <2> QED  BY <2>4, <2>5, ShapeIs
<1>9. CASE "console" \in t.up
  <2>1. r = t  BY <1>2, <1>9
  <2> HIDE DEF t, r
  <2>2. Compute \/ (UNCHANGED <<brr, src>> /\ r.up \subseteq m.up)
    BY <1>1, <1>5, <1>7, <2>1 DEF Failures
  <2> QED  BY <1>1, <1>7, <1>8, <2>1, <2>2, EffectKeeps
<1>10. CASE "console" \notin t.up
  <2>1. r = EarlyconSetup(s, how2, n2)  BY <1>2, <1>10
  <2>2. ~Clean(t)  BY <1>7, <1>10
  <2> HIDE DEF t
  <2>3. s \in Mems /\ s.up = t.up \ {"console"} /\ s.dirty = t.dirty /\ s.failed = t.failed
    BY <1>d, <1>7, StopType
  <2> HIDE DEF s
  <2>4. ~Clean(s)  BY <2>2, <2>3 DEF Clean
  <2>5. /\ r \in Mems /\ ~Clean(r)
        /\ how2 \in {"port", "handle"} => r.up \subseteq s.up
    BY <2>1, <2>3, <2>4, EarlyconSetupKeeps
  <2> HIDE DEF r
  <2>6. Compute \/ (UNCHANGED <<brr, src>> /\ r.up \subseteq m.up)
    BY <1>1, <1>5, <1>7, <2>3, <2>5 DEF Failures
  <2> QED  BY <1>1, <2>5, <2>6, EffectKeeps
<1> QED  BY <1>9, <1>10

(* sysclk.c under its two users: the list of callbacks is exact, and the      *)
(* divisor of a running console follows the clock through every config_clk,   *)
(* for any heap and any clock frequencies, as long as nothing went wrong in a *)
(* setup; sysclk_reset and sysclk_disable, which run no callbacks, leave the  *)
(* divisor behind.  The walk of an empty list through NULL happens only while *)
(* no console driver runs.                                                    *)
THEOREM CallbacksCorrect == ClkSpec => []CallbacksSound
<1>1. ClkInit => ClkInv
  <2> SUFFICES ASSUME ClkInit PROVE ClkInv  OBVIOUS
  <2>1. /\ m \in Mems /\ ~m.dirty /\ ~m.failed /\ ~m.twice /\ m.up = {} /\ m.used = {}
        /\ m.root = Null /\ m.bad = "none" /\ clkFault = "none"
        /\ \A d \in Drivers : ~m.exec[d]
    BY DEF ClkInit, Mems, Words
  <2>2. Chain(m, Null, Null)  BY <2>1, SysClkAssumption DEF Chain
  <2>3. {Null, Null} \ {Null} = m.used  BY <2>1
  <2>4. Registered(m)  BY <2>1, <2>2, <2>3 DEF Registered, Drivers
  <2>5. Shape(m)  BY <2>1, <2>4 DEF Shape
  <2>6. AnswerRight  BY SysClkAssumption DEF ClkInit, AnswerRight
  <2> QED  BY <2>1, <2>5, <2>6 DEF ClkInv, BaudFollows
<1>2. ASSUME ClkInv, [ClkNext]_clkVars PROVE ClkInv'
  <2>1. ASSUME NEW t \in {"internal", "other"}, NEW c \in Clocks, ConfigureClk(t, c)
        PROVE  ClkInv'
    <3>1. clkFault' = CallbackFault /\ m' = m  BY <2>1 DEF ConfigureClk
    <3>2. CallbackFault \in {"none", "null", "wild", "stale", "hang"}
      BY DEF CallbackFault, WalkFault
    <3>3. ASSUME Clean(m)
          PROVE  CallbackFault \in {"none", "null"} /\ (CallbackFault = "null" => m.up = {})
      <4>1. Registered(m)  BY <1>2, <3>3, ShapeIs DEF ClkInv
      <4>2. PICK a, b \in Blocks \cup {Null} : Chain(m, a, b) /\ {a, b} \ {Null} = m.used
        BY <4>1 DEF Registered
      <4>3. Nodes(m) = m.used /\ WalkFault(m) = "none"  BY <4>2, WalkChain
      <4>4. CallbackFault = "null" => m.root = Null  BY <4>3 DEF CallbackFault
      <4>5. m.root = Null => m.used = {}  BY <4>2 DEF Chain
      <4>6. m.used = {} => m.up = {}  BY <4>1 DEF Registered
      <4> QED  BY <4>3, <4>4, <4>5, <4>6 DEF CallbackFault
    <3>4. BaudFollows' /\ AnswerRight'
      <4>1. CASE CallbackFault = "none"
        <5>1. clk' = c /\ brr' = c /\ src' = Answers(t, c, FALSE)  BY <2>1, <4>1 DEF ConfigureClk
        <5> QED  BY <1>2, <5>1, SysClkAssumption DEF Answers, AnswerRight, BaudFollows, ClkInv
      <4>2. CASE CallbackFault # "none"
        <5>1. UNCHANGED <<clk, brr, src>>  BY <2>1, <4>2 DEF ConfigureClk
        <5> QED  BY <1>2, <3>1, <4>2, <5>1 DEF AnswerRight, BaudFollows, ClkInv
      <4> QED  BY <4>1, <4>2
    <3> QED  BY <1>2, <3>1, <3>2, <3>3, <3>4 DEF ClkInv
  <2>4. ASSUME ClkReset \/ ClkDisable \/ ClkSetup PROVE ClkInv'
    <3>1. m' = m /\ clkFault' = clkFault /\ clkFault = "none"
      BY <2>4 DEF ClkReset, ClkDisable, ClkSetup, ClkRunning
    <3>2. AnswerRight'
      <4>0. AnswerRight  BY <1>2 DEF ClkInv
      <4>1. CASE ClkReset  BY <4>0, <4>1, SysClkAssumption DEF ClkReset, Answers, AnswerRight
      <4>2. CASE ClkDisable
        BY <4>0, <4>2, SysClkAssumption DEF ClkDisable, AnswerRight
      <4>3. CASE ClkSetup  BY <4>0, <4>3 DEF ClkSetup, AnswerRight
      <4> QED  BY <2>4, <4>1, <4>2, <4>3
    <3>3. BaudFollows'
      <4>0. AnswerRight  BY <1>2 DEF ClkInv
      <4>1. CASE ClkReset \/ ClkDisable
        <5>1. src'.silent  BY <4>0, <4>1 DEF ClkReset, ClkDisable, Answers, AnswerRight
        <5> QED  BY <5>1 DEF BaudFollows
      <4>2. CASE ClkSetup
        <5>1. src'.silent = src.silent /\ brr' = brr /\ clk' = clk
          BY <4>0, <4>2 DEF ClkSetup, AnswerRight
        <5> QED  BY <1>2, <3>1, <5>1 DEF BaudFollows, ClkInv
      <4> QED  BY <2>4, <4>1, <4>2
    <3> QED  BY <1>2, <3>1, <3>2, <3>3 DEF ClkInv
  <2>2. ASSUME NEW n \in Blocks, Scribble(n) PROVE ClkInv'
    <3> DEFINE r == [m EXCEPT !.next[n] = Wild]
    <3>1. ClkRunning /\ n \notin m.used /\ m' = r /\ UNCHANGED <<clk, src, brr, clkFault>>
      BY <2>2 DEF Scribble
    <3>2. /\ r \in Mems /\ r.used = m.used /\ r.root = m.root /\ r.handle = m.handle
          /\ r.exec = m.exec /\ r.up = m.up /\ r.bad = m.bad
          /\ \A x \in Blocks : x # n => r.next[x] = m.next[x]
      BY <1>2 DEF ClkInv, Mems, Words
    <3>3. r.dirty = m.dirty /\ r.failed = m.failed /\ r.twice = m.twice
      BY <1>2 DEF ClkInv, Mems
    <3> HIDE DEF r
    <3>4. ASSUME Clean(r) PROVE Shape(r)
      <4>1. Clean(m)  BY <3>3, <3>4 DEF Clean
      <4>2. Registered(m) /\ Agrees(m, "earlycon") /\ Agrees(m, "console")
        BY <1>2, <4>1, ShapeIs DEF ClkInv
      <4>3. PICK a, b \in Blocks \cup {Null} : Chain(m, a, b) /\ {a, b} \ {Null} = m.used
        BY <4>2 DEF Registered
      <4>4. Chain(r, a, b)
        <5>1. a # n /\ b # n  BY <3>1, <4>3, SysClkAssumption
        <5> QED  BY <3>2, <4>3, <5>1 DEF Chain
      <4>5. Registered(r)
        <5>1. {a, b} \ {Null} = r.used  BY <3>2, <4>3
        <5>2. r.used = {r.handle[d] : d \in r.up}  BY <3>2, <4>2 DEF Registered
        <5>3. ~r.twice  BY <3>3, <4>2 DEF Registered
        <5> QED  BY <3>2, <4>2, <4>4, <5>1, <5>2, <5>3 DEF Registered
      <4>6. Agrees(r, "earlycon") /\ Agrees(r, "console")  BY <3>2, <4>2 DEF Agrees
      <4> QED  BY <4>5, <4>6, ShapeIs
    <3>5. BaudFollows' /\ AnswerRight'
      BY <1>2, <3>1, <3>2 DEF BaudFollows, AnswerRight, ClkInv
    <3> QED  BY <1>2, <3>1, <3>2, <3>4, <3>5 DEF ClkInv, ClkRunning
  <2>3. CASE UNCHANGED clkVars
    <3>1. m' = m /\ clk' = clk /\ src' = src /\ brr' = brr /\ clkFault' = clkFault
      BY <2>3 DEF clkVars
    <3>2. Clean(m)' = Clean(m) /\ Shape(m)' = Shape(m)
      BY <3>1 DEF Clean, Shape, Registered, Chain
    <3> QED  BY <1>2, <3>1 DEF ClkInv, BaudFollows, AnswerRight
  <2> QED
    BY <1>2, <2>1, <2>2, <2>3, <2>4, SetupEarlyconKeeps, ExitEarlyconKeeps, SetupConsoleKeeps,
       ExitConsoleKeeps DEF ClkNext
<1>3. ClkInv => CallbacksSound
  <2> SUFFICES ASSUME ClkInv PROVE CallbacksSound  OBVIOUS
  <2>1. ASSUME Clean(m) PROVE /\ End(m) = Null /\ Nodes(m) = m.used
                              /\ m.used = {m.handle[d] : d \in m.up}
                              /\ ~m.twice /\ clkFault \in {"none", "null"}
    <3>1. Registered(m) /\ clkFault \in {"none", "null"}  BY <2>1, ShapeIs DEF ClkInv
    <3>2. PICK a, b \in Blocks \cup {Null} : Chain(m, a, b) /\ {a, b} \ {Null} = m.used
      BY <3>1 DEF Registered
    <3> QED  BY <3>1, <3>2, WalkChain DEF Registered
  <2>2. ListExact  BY <2>1 DEF ListExact, Clean
  <2>3. Contained  BY <2>1 DEF Contained, Clean, ClkInv
  <2> QED  BY <2>2, <2>3 DEF ClkInv, CallbacksSound
<1> QED  BY <1>1, <1>2, <1>3, PTL DEF ClkSpec

-----------------------------------------------------------------------------
(* The units behind the HALs (Hal).                                        *)

HalUnits == {"uart", "adc", "tmr"}
AdmuxOps == {"admux_or", "admux_and", "admux", "start"}
PmuOps == {"slot", "pmuie", "sleep"}
HalOps ==
  {"link", "unlink", "clk_en", "clk_dis", "ie", "id", "aden", "adoff", "mode_or", "com_or",
   "en_or", "key", "nop"} \cup AdmuxOps \cup PmuOps
Kinds == {"sleep", "wake"}
Values == {0} \cup {p[i] : p \in Programs, i \in 1 .. PmuSize}
AdmuxBits == RefBits \cup {"adlar"}
ArgBits ==
  HalIrqs \cup HalUnits \cup AdmuxBits \cup {"tx", "rx", 1, 2} \cup (UNION AdcPins) \cup (UNION Modes)
Writes ==
  {w \in [unit : HalUnits \cup {"cpu", "pmu"}, op : HalOps,
          arg : (SUBSET ArgBits) \cup (Kinds \X (1 .. PmuSize) \X Values)] :
     /\ IF w.op = "slot" THEN w.arg \in Kinds \X (1 .. PmuSize) \X Values ELSE w.arg \in SUBSET ArgBits
     /\ w.op \in {"link", "unlink", "clk_en", "clk_dis"} => w.unit = "cpu"
     /\ w.op \in PmuOps \cup {"key"} => w.unit = "pmu"}
Slots == [Kinds -> [1 .. PmuSize -> Values]]

Registers ==
  [clk : SUBSET ArgBits, ie : SUBSET ArgBits, admux : SUBSET ArgBits, aden : BOOLEAN,
   conv : SUBSET ArgBits, mode : SUBSET ArgBits, com : SUBSET ArgBits, en : SUBSET ArgBits,
   key : BOOLEAN, pmuie : SUBSET ArgBits, asleep : BOOLEAN, slots : Slots]

HalTypes ==
  /\ hw \in Registers
  /\ calls \in Seq(Writes) /\ prog \in Slots
  /\ crossed \in BOOLEAN /\ fresh \in BOOLEAN

(* The writes still to come. *)
Coming(op) == {j \in 1 .. Len(calls) : calls[j].op = op}

(* A handler is linked before its interrupt is enabled, and the interrupt is *)
(* disabled, with the clock on, before the handler goes.                     *)
HandlersLinked ==
  /\ crossed \/ hw.ie \subseteq hlinked
  /\ \A j \in Coming("ie") : \A i \in calls[j].arg :
       i \in hlinked \/ \E k \in Coming("link") : k < j /\ i \in calls[k].arg
  /\ Coming("ie") = {} \/ Coming("unlink") = {}
  /\ crossed \/ \A j \in Coming("unlink") : \A i \in calls[j].arg :
       i \notin hw.ie \/ \E k \in Coming("id") : k < j /\ i \in calls[k].arg
  /\ crossed \/ \A j \in Coming("id") : calls[j].unit \in hw.clk

(* A unit that is set up has its clock, or is about to get it. *)
Clocked ==
  /\ \A u \in {"uart", "adc"} \cap up :
       /\ u \in hw.clk \/ \E j \in Coming("clk_en") : u \in calls[j].arg
       /\ \A j \in Coming("clk_dis") : u \notin calls[j].arg
  /\ \A j \in Coming("clk_dis") : j = Len(calls)

(* What ADMUX is before each of the writes of a configuration. *)
Sampling ==
  /\ \A j \in 1 .. Len(calls) : calls[j].op \in AdmuxOps => calls[j].unit = "adc" /\ "adc" \in hw.clk
  /\ \A j \in Coming("admux_and") : calls[j].arg = AdmuxBits
  /\ \A j \in 1 .. Len(calls) : calls[j].op \in {"admux_or", "admux"} => ~fresh
  /\ fresh /\ Coming("admux_and") = {} => hw.admux \cap AdmuxBits = {}
  /\ wanted.pin \cap AdmuxBits = {} /\ wanted.ref \subseteq RefBits
  /\ Coming("start") = {} =>
       /\ \A j \in 1 .. Len(calls) : calls[j].op \notin {"admux_or", "admux"}
       /\ wanted.res = 8 => hw.conv = {"adlar"} \cup wanted.pin
       /\ wanted.res = 10 => "adlar" \notin hw.conv /\ hw.conv \cap RefBits = wanted.ref
  /\ Coming("start") # {} =>
       LET n == Len(calls)
       IN /\ wanted.res \in {8, 10} /\ n <= (IF wanted.res = 8 THEN 4 ELSE 3)
          /\ calls[n].op = "start"
          /\ n >= 2 => calls[n - 1].op = "admux_or" /\ calls[n - 1].arg = wanted.pin
          /\ wanted.res = 10 =>
               /\ n = 3 => /\ calls[1].op = "admux_or" /\ calls[1].arg = wanted.ref
                           /\ hw.admux \cap AdmuxBits = {}
               /\ n <= 2 => hw.admux \cap AdmuxBits = wanted.ref
          /\ wanted.res = 8 =>
               /\ n = 4 => calls[1].op = "admux_or"
               /\ n >= 3 => calls[n - 2].op = "admux" /\ calls[n - 2].arg = {"adlar"}
               /\ n = 2 => hw.admux = {"adlar"}
               /\ n = 1 => hw.admux = {"adlar"} \cup wanted.pin

(* Every slot of a program is written behind the key. *)
Programmed ==
  /\ \A k \in Kinds, i \in 1 .. PmuSize :
       hw.slots[k][i] = prog[k][i] \/ \E j \in Coming("slot") : calls[j].arg = <<k, i, prog[k][i]>>
  /\ \A j \in Coming("slot") :
       /\ \E k \in Kinds, i \in 1 .. PmuSize : calls[j].arg = <<k, i, prog[k][i]>>
       /\ IF j = 1 THEN hw.key ELSE calls[j - 1].op = "key"
  /\ hw.asleep \/ Coming("sleep") # {} => Coming("slot") = {}

HalInv == HalTypes /\ HandlersLinked /\ Clocked /\ Sampling /\ Programmed
-----------------------------------------------------------------------------
(* One register write.                                                     *)

(* What a write that is not lost changes. *)
LEMMA Written1Is ==
  ASSUME NEW h \in Registers, NEW w \in Writes, w.op \notin {"link", "unlink"}
  PROVE  /\ Written1(h, w) \in Registers
         /\ Written1(h, w).clk = IF w.op = "clk_en" THEN h.clk \cup w.arg
                                 ELSE IF w.op = "clk_dis" THEN h.clk \ w.arg ELSE h.clk
         /\ Written1(h, w).ie = IF w.op = "ie" THEN h.ie \cup w.arg
                                ELSE IF w.op = "id" THEN h.ie \ w.arg ELSE h.ie
         /\ Written1(h, w).admux = IF w.op = "admux_or" THEN h.admux \cup w.arg
                                   ELSE IF w.op = "admux_and" THEN h.admux \ w.arg
                                   ELSE IF w.op = "admux" THEN w.arg ELSE h.admux
         /\ Written1(h, w).conv = IF w.op = "start" THEN h.admux ELSE h.conv
         /\ w.op # "slot" => Written1(h, w).slots = h.slots
         /\ w.op = "slot" =>
              Written1(h, w).slots =
                [h.slots EXCEPT ![w.arg[1]] = [h.slots[w.arg[1]] EXCEPT ![w.arg[2]] = w.arg[3]]]
         /\ w.op = "key" => Written1(h, w).key
         /\ w.op \notin PmuOps \cup {"key"} => Written1(h, w).key = h.key
         /\ w.op # "sleep" => Written1(h, w).asleep = h.asleep
<1>0. /\ w.op \in HalOps
      /\ w.op # "slot" => w.arg \in SUBSET ArgBits
      /\ w.op = "slot" => w.arg \in Kinds \X (1 .. PmuSize) \X Values
  BY DEF Writes
<1> USE DEF Written1
<1>1. CASE w.op \in {"clk_en", "clk_dis"}  BY <1>0, <1>1 DEF Registers, PmuOps
<1>2. CASE w.op \in {"ie", "id"}  BY <1>0, <1>2 DEF Registers, PmuOps
<1>3. CASE w.op \in AdmuxOps  BY <1>0, <1>3 DEF Registers, PmuOps, AdmuxOps
<1>4. CASE w.op \in {"aden", "adoff", "mode_or", "com_or", "en_or", "nop"}
  BY <1>0, <1>4, ZenonT(60) DEF Registers, PmuOps
<1>5. CASE w.op \in {"key", "pmuie", "sleep"}  BY <1>0, <1>5 DEF Registers, PmuOps
<1>6. CASE w.op = "slot"
  <2>1. PICK k \in Kinds, i \in 1 .. PmuSize, v \in Values : w.arg = <<k, i, v>>  BY <1>0, <1>6
  <2>2. Written1(h, w) = [h EXCEPT !.slots[k][i] = v, !.key = FALSE]  BY <1>6, <2>1
  <2>3. [h.slots EXCEPT ![k] = [h.slots[k] EXCEPT ![i] = v]] \in Slots
    BY DEF Registers, Slots
  <2>4. Written1(h, w) = [h EXCEPT !.slots = [h.slots EXCEPT ![k] = [h.slots[k] EXCEPT ![i] = v]],
                                   !.key = FALSE]
    BY <2>2
  <2> HIDE DEF Written1
  <2>5. /\ Written1(h, w) \in Registers
        /\ Written1(h, w).slots = [h.slots EXCEPT ![k] = [h.slots[k] EXCEPT ![i] = v]]
        /\ Written1(h, w).clk = h.clk /\ Written1(h, w).ie = h.ie
        /\ Written1(h, w).admux = h.admux /\ Written1(h, w).conv = h.conv
        /\ Written1(h, w).asleep = h.asleep
    BY <2>3, <2>4 DEF Registers
  <2> QED  BY <1>6, <2>1, <2>5 DEF PmuOps
<1> QED  BY <1>0, <1>1, <1>2, <1>3, <1>4, <1>5, <1>6 DEF HalOps, AdmuxOps, PmuOps

(* The step as a whole: what is left of the call, and what the write did. *)
LEMMA WriteIs ==
  ASSUME HalTypes, WriteOne, NEW w, w = calls[1]
  PROVE  /\ w \in Writes /\ Len(calls) \in Nat /\ Len(calls) >= 1
         /\ calls' \in Seq(Writes) /\ Len(calls') = Len(calls) - 1
         /\ \A j \in 1 .. Len(calls') : calls'[j] = calls[j + 1] /\ calls[j + 1] \in Writes
         /\ UNCHANGED <<uses, up, wanted, fresh, crossed, setups, prog>>
         /\ hlinked' = IF w.op = "link" THEN hlinked \cup w.arg
                       ELSE IF w.op = "unlink" THEN hlinked \ w.arg ELSE hlinked
         /\ hw' \in Registers
         /\ hw' = IF w.op \in {"link", "unlink"} \/ Lost(hw, w) THEN hw ELSE Written1(hw, w)
<1>1. calls \in Seq(Writes) /\ calls # <<>>  BY DEF HalTypes, WriteOne
<1>2. Len(calls) \in Nat /\ Len(calls) >= 1 /\ w \in Writes /\ Head(calls) = w  BY <1>1
<1>3. /\ calls' = Tail(calls) /\ calls' \in Seq(Writes) /\ Len(calls') = Len(calls) - 1
  BY <1>1 DEF WriteOne
<1>4. \A j \in 1 .. Len(calls') : calls'[j] = calls[j + 1] /\ calls[j + 1] \in Writes
  BY <1>1, <1>2, <1>3
<1>5. UNCHANGED <<uses, up, wanted, fresh, crossed, setups, prog>>  BY DEF WriteOne
<1>6. /\ hlinked' = IF w.op = "link" THEN hlinked \cup w.arg
                    ELSE IF w.op = "unlink" THEN hlinked \ w.arg ELSE hlinked
      /\ hw' = IF w.op \in {"link", "unlink"} \/ Lost(hw, w) THEN hw ELSE Written1(hw, w)
  BY <1>2 DEF WriteOne
<1>7. hw' \in Registers
  <2>1. hw \in Registers  BY DEF HalTypes
  <2>2. w.op \notin {"link", "unlink"} => Written1(hw, w) \in Registers  BY <1>2, <2>1, Written1Is
  <2> QED  BY <1>6, <2>1, <2>2
<1> QED  BY <1>2, <1>3, <1>4, <1>5, <1>6, <1>7

(* The writes to come move up by one. *)
LEMMA ComingIs ==
  ASSUME HalTypes, WriteOne, NEW op
  PROVE  /\ \A j \in Coming(op)' : j + 1 \in Coming(op) /\ calls'[j] = calls[j + 1] /\ j \in Nat
         /\ \A j \in Coming(op) : j # 1 => j - 1 \in Coming(op)' /\ calls'[j - 1] = calls[j]
         /\ calls[1].op # op => 1 \notin Coming(op)
<1>1. /\ Len(calls) \in Nat /\ Len(calls) >= 1 /\ Len(calls') = Len(calls) - 1
      /\ \A j \in 1 .. Len(calls') : calls'[j] = calls[j + 1]
  BY WriteIs
<1>2. ASSUME NEW j \in Coming(op)'
      PROVE  j + 1 \in Coming(op) /\ calls'[j] = calls[j + 1] /\ j \in Nat
  <2>1. j \in 1 .. Len(calls') /\ calls'[j].op = op  BY DEF Coming
  <2> QED  BY <1>1, <2>1 DEF Coming
<1>3. ASSUME NEW j \in Coming(op), j # 1
      PROVE  j - 1 \in Coming(op)' /\ calls'[j - 1] = calls[j]
  <2>1. j \in 1 .. Len(calls) /\ calls[j].op = op  BY DEF Coming
  <2>2. j - 1 \in 1 .. Len(calls') /\ (j - 1) + 1 = j  BY <1>1, <1>3, <2>1
  <2>3. calls'[j - 1] = calls[j]  BY <1>1, <2>2
  <2> QED  BY <2>1, <2>2, <2>3 DEF Coming
<1>4. calls[1].op # op => 1 \notin Coming(op)  BY DEF Coming
<1> QED  BY <1>2, <1>3, <1>4

(* What the step leaves in each register, lost writes included. *)
LEMMA WriteFields ==
  ASSUME HalTypes, WriteOne, NEW w, w = calls[1]
  PROVE  /\ hw'.clk = IF w.op = "clk_en" THEN hw.clk \cup w.arg
                      ELSE IF w.op = "clk_dis" THEN hw.clk \ w.arg ELSE hw.clk
         /\ hw'.ie \subseteq IF w.op = "ie" THEN hw.ie \cup w.arg ELSE hw.ie
         /\ w.op = "id" /\ w.unit \in hw.clk => hw'.ie = hw.ie \ w.arg
         /\ w.op \notin AdmuxOps => hw'.admux = hw.admux /\ hw'.conv = hw.conv
         /\ w.unit = "adc" /\ "adc" \in hw.clk =>
              /\ hw'.admux = IF w.op = "admux_or" THEN hw.admux \cup w.arg
                             ELSE IF w.op = "admux_and" THEN hw.admux \ w.arg
                             ELSE IF w.op = "admux" THEN w.arg ELSE hw.admux
              /\ hw'.conv = IF w.op = "start" THEN hw.admux ELSE hw.conv
         /\ w.op # "slot" => hw'.slots = hw.slots
         /\ w.op = "slot" /\ hw.key =>
              hw'.slots =
                [hw.slots EXCEPT ![w.arg[1]] = [hw.slots[w.arg[1]] EXCEPT ![w.arg[2]] = w.arg[3]]]
         /\ w.op = "key" => hw'.key
         /\ w.op # "sleep" => hw'.asleep = hw.asleep
<1>1. hw \in Registers /\ w \in Writes  BY WriteIs DEF HalTypes
<1>2. hw' = IF w.op \in {"link", "unlink"} \/ Lost(hw, w) THEN hw ELSE Written1(hw, w)
  BY WriteIs
<1>3. CASE w.op \in {"link", "unlink"}
  <2>1. hw' = hw  BY <1>2, <1>3
  <2> QED  BY <1>3, <2>1 DEF AdmuxOps
<1>4. CASE w.op \notin {"link", "unlink"} /\ Lost(hw, w)
  <2>1. hw' = hw  BY <1>2, <1>4
  <2>2. \/ w.unit \in {"tmr", "adc", "uart"} /\ w.unit \notin hw.clk
        \/ w.op \in PmuOps /\ ~hw.key
    BY <1>4 DEF Lost, PmuOps
  <2>3. w.op \in {"clk_en", "clk_dis"} => w.unit = "cpu"  BY <1>1 DEF Writes
  <2>4. w.op \in PmuOps \cup {"key"} => w.unit = "pmu"  BY <1>1 DEF Writes
  <2> QED  BY <2>1, <2>2, <2>3, <2>4 DEF AdmuxOps, PmuOps
<1>5. CASE w.op \notin {"link", "unlink"} /\ ~Lost(hw, w)
  <2>1. hw' = Written1(hw, w)  BY <1>2, <1>5
  <2>2. /\ hw'.clk = IF w.op = "clk_en" THEN hw.clk \cup w.arg
                     ELSE IF w.op = "clk_dis" THEN hw.clk \ w.arg ELSE hw.clk
        /\ hw'.ie = IF w.op = "ie" THEN hw.ie \cup w.arg
                    ELSE IF w.op = "id" THEN hw.ie \ w.arg ELSE hw.ie
    BY <1>1, <1>5, <2>1, Written1Is
  <2>3. /\ hw'.admux = IF w.op = "admux_or" THEN hw.admux \cup w.arg
                       ELSE IF w.op = "admux_and" THEN hw.admux \ w.arg
                       ELSE IF w.op = "admux" THEN w.arg ELSE hw.admux
        /\ hw'.conv = IF w.op = "start" THEN hw.admux ELSE hw.conv
    BY <1>1, <1>5, <2>1, Written1Is
  <2>4. /\ w.op # "slot" => hw'.slots = hw.slots
        /\ w.op = "slot" =>
              hw'.slots =
                [hw.slots EXCEPT ![w.arg[1]] = [hw.slots[w.arg[1]] EXCEPT ![w.arg[2]] = w.arg[3]]]
        /\ w.op # "sleep" => hw'.asleep = hw.asleep
    BY <1>1, <1>5, <2>1, Written1Is
  <2>5. w.op = "key" => hw'.key  BY <1>1, <1>5, <2>1, Written1Is
  <2>6. hw'.ie \subseteq IF w.op = "ie" THEN hw.ie \cup w.arg ELSE hw.ie  BY <2>2
  <2>7. w.op = "id" => hw'.ie = hw.ie \ w.arg  BY <2>2
  <2>8. w.op \notin AdmuxOps => hw'.admux = hw.admux /\ hw'.conv = hw.conv  BY <2>3 DEF AdmuxOps
  <2> QED  BY <2>2, <2>3, <2>4, <2>5, <2>6, <2>7, <2>8
<1> QED  BY <1>3, <1>4, <1>5

(* A write that links, enables, disables or unlinks keeps the order of the rest. *)
LEMMA WriteHandlers ==
  ASSUME HalInv, WriteOne
  PROVE  HandlersLinked'
<1> DEFINE w == calls[1]
<1>0. HalTypes /\ HandlersLinked /\ Clocked  BY DEF HalInv
<1>1. crossed' = crossed  BY <1>0, WriteIs
<1>2. hlinked' = IF w.op = "link" THEN hlinked \cup w.arg
                 ELSE IF w.op = "unlink" THEN hlinked \ w.arg ELSE hlinked
  BY <1>0, WriteIs
<1>3. /\ hw'.ie \subseteq IF w.op = "ie" THEN hw.ie \cup w.arg ELSE hw.ie
      /\ w.op = "id" /\ w.unit \in hw.clk => hw'.ie = hw.ie \ w.arg
      /\ hw'.clk = IF w.op = "clk_en" THEN hw.clk \cup w.arg
                   ELSE IF w.op = "clk_dis" THEN hw.clk \ w.arg ELSE hw.clk
  BY <1>0, WriteFields
<1>4. Len(calls) \in Nat /\ Len(calls) >= 1 /\ Len(calls') = Len(calls) - 1  BY <1>0, WriteIs
<1>5. \A op : (w.op = op => 1 \in Coming(op))  BY <1>4 DEF Coming
<1>6. \A op : Coming(op) \subseteq Nat \ {0} /\ Coming(op)' \subseteq 1 .. Len(calls')
  BY <1>4 DEF Coming
<1> HIDE DEF w
<1>7. crossed \/ hw'.ie \subseteq hlinked'
  <2>1. SUFFICES ASSUME ~crossed, NEW i \in hw'.ie PROVE i \in hlinked'  OBVIOUS
  <2>2. hw.ie \subseteq hlinked  BY <1>0, <2>1 DEF HandlersLinked
  <2>3. CASE w.op = "ie"
    <3>1. \A x \in w.arg : x \in hlinked  BY <1>0, <1>5, <1>6, <2>3 DEF HandlersLinked, w
    <3> QED  BY <1>2, <1>3, <2>1, <2>2, <2>3, <3>1
  <2>4. CASE w.op = "unlink"
    <3>1. \A x \in w.arg : x \notin hw.ie
      BY <1>0, <1>5, <1>6, <2>1, <2>4 DEF HandlersLinked, w
    <3> QED  BY <1>2, <1>3, <2>1, <2>2, <2>4, <3>1
  <2> QED  BY <1>2, <1>3, <2>1, <2>2, <2>3, <2>4
<1>8. Coming("ie")' = {} \/ Coming("unlink")' = {}
  BY <1>0, ComingIs DEF HandlersLinked
<1>9. ASSUME NEW j \in Coming("ie")', NEW i \in calls'[j].arg
      PROVE  i \in hlinked' \/ \E k \in Coming("link")' : k < j /\ i \in calls'[k].arg
  <2>1. j + 1 \in Coming("ie") /\ calls'[j] = calls[j + 1] /\ j \in Nat  BY <1>0, ComingIs
  <2>2. w.op # "unlink"  BY <1>0, <1>5, <2>1 DEF HandlersLinked
  <2>3. CASE i \in hlinked  BY <1>2, <2>2, <2>3
  <2>4. CASE \E k \in Coming("link") : k < j + 1 /\ i \in calls[k].arg
    <3>1. PICK k \in Coming("link") : k < j + 1 /\ i \in calls[k].arg  BY <2>4
    <3>2. CASE k = 1
      <4>1. w.op = "link" /\ i \in w.arg  BY <3>1, <3>2 DEF Coming, w
      <4> QED  BY <1>2, <4>1
    <3>3. CASE k # 1
      <4>1. k - 1 \in Coming("link")' /\ calls'[k - 1] = calls[k]  BY <1>0, <3>3, ComingIs
      <4>2. k \in Nat /\ k - 1 < j  BY <1>6, <2>1, <3>1
      <4> QED  BY <3>1, <4>1, <4>2
    <3> QED  BY <3>2, <3>3
  <2> QED  BY <1>0, <2>1, <2>3, <2>4 DEF HandlersLinked
<1>10. ASSUME ~crossed, NEW j \in Coming("unlink")', NEW i \in calls'[j].arg
       PROVE  i \notin hw'.ie \/ \E k \in Coming("id")' : k < j /\ i \in calls'[k].arg
  <2>1. j + 1 \in Coming("unlink") /\ calls'[j] = calls[j + 1] /\ j \in Nat  BY <1>0, ComingIs
  <2>2. w.op # "ie"  BY <1>0, <1>5, <2>1 DEF HandlersLinked
  <2>3. CASE i \notin hw.ie  BY <1>3, <2>2, <2>3
  <2>4. CASE \E k \in Coming("id") : k < j + 1 /\ i \in calls[k].arg
    <3>1. PICK k \in Coming("id") : k < j + 1 /\ i \in calls[k].arg  BY <2>4
    <3>2. CASE k = 1
      <4>1. w.op = "id" /\ i \in w.arg  BY <3>1, <3>2 DEF Coming, w
      <4>2. w.unit \in hw.clk  BY <1>0, <1>10, <3>1, <3>2 DEF HandlersLinked, w
      <4> QED  BY <1>3, <4>1, <4>2
    <3>3. CASE k # 1
      <4>1. k - 1 \in Coming("id")' /\ calls'[k - 1] = calls[k]  BY <1>0, <3>3, ComingIs
      <4>2. k \in Nat /\ k - 1 < j  BY <1>6, <2>1, <3>1
      <4> QED  BY <3>1, <4>1, <4>2
    <3> QED  BY <3>2, <3>3
  <2> QED  BY <1>0, <1>10, <2>1, <2>3, <2>4 DEF HandlersLinked
<1>11. ASSUME ~crossed, NEW j \in Coming("id")' PROVE calls'[j].unit \in hw'.clk
  <2>1. j + 1 \in Coming("id") /\ calls'[j] = calls[j + 1] /\ j \in Nat  BY <1>0, ComingIs
  <2>2. calls[j + 1].unit \in hw.clk  BY <1>0, <1>11, <2>1 DEF HandlersLinked
  <2>3. w.op # "clk_dis"
    <3>1. ASSUME w.op = "clk_dis" PROVE Len(calls) = 1  BY <1>0, <1>5, <3>1 DEF Clocked
    <3>2. j \in 1 .. Len(calls')  BY <1>6
    <3> QED  BY <1>4, <2>1, <3>1, <3>2
  <2> QED  BY <1>3, <2>1, <2>2, <2>3
<1> QED  BY <1>1, <1>7, <1>8, <1>9, <1>10, <1>11 DEF HandlersLinked

(* A clock goes off with the last write of the call. *)
LEMMA WriteClocked ==
  ASSUME HalInv, WriteOne
  PROVE  Clocked'
<1> DEFINE w == calls[1]
<1>0. HalTypes /\ Clocked  BY DEF HalInv
<1>1. up' = up  BY <1>0, WriteIs
<1>2. hw'.clk = IF w.op = "clk_en" THEN hw.clk \cup w.arg
                ELSE IF w.op = "clk_dis" THEN hw.clk \ w.arg ELSE hw.clk
  BY <1>0, WriteFields
<1>3. Len(calls) \in Nat /\ Len(calls) >= 1 /\ Len(calls') = Len(calls) - 1  BY <1>0, WriteIs
<1>4. \A op : (w.op = op => 1 \in Coming(op))  BY <1>3 DEF Coming
<1>5. ASSUME NEW u \in {"uart", "adc"} \cap up
      PROVE  u \in hw'.clk \/ \E j \in Coming("clk_en")' : u \in calls'[j].arg
  <2>1. w.op = "clk_dis" => u \notin w.arg  BY <1>0, <1>4 DEF Clocked
  <2>2. CASE u \in hw.clk  BY <1>2, <2>1, <2>2
  <2>3. CASE \E j \in Coming("clk_en") : u \in calls[j].arg
    <3>1. PICK j \in Coming("clk_en") : u \in calls[j].arg  BY <2>3
    <3>2. CASE j = 1
      <4>1. w.op = "clk_en" /\ u \in w.arg  BY <3>1, <3>2 DEF Coming
      <4> QED  BY <1>2, <4>1
    <3>3. CASE j # 1  BY <1>0, <3>1, <3>3, ComingIs
    <3> QED  BY <3>2, <3>3
  <2> QED  BY <1>0, <2>2, <2>3 DEF Clocked
<1>6. \A u \in {"uart", "adc"} \cap up : \A j \in Coming("clk_dis")' : u \notin calls'[j].arg
  BY <1>0, ComingIs DEF Clocked
<1>7. ASSUME NEW j \in Coming("clk_dis")' PROVE j = Len(calls')
  <2>1. j + 1 \in Coming("clk_dis") /\ j \in Nat  BY <1>0, ComingIs
  <2>2. j + 1 = Len(calls)  BY <1>0, <2>1 DEF Clocked
  <2> QED  BY <1>3, <2>1, <2>2
<1> QED  BY <1>1, <1>5, <1>6, <1>7 DEF Clocked

(* Each write of a configuration brings ADMUX one write closer to what was asked. *)
LEMMA WriteSampling ==
  ASSUME HalInv, WriteOne
  PROVE  Sampling'
<1> DEFINE w == calls[1]
           n == Len(calls)
<1>0. HalTypes /\ Clocked /\ Sampling  BY DEF HalInv
<1>1. wanted' = wanted /\ fresh' = fresh  BY <1>0, WriteIs
<1>2. n \in Nat /\ n >= 1 /\ Len(calls') = n - 1  BY <1>0, WriteIs
<1>3. \A j \in 1 .. n - 1 : calls'[j] = calls[j + 1] /\ j + 1 \in 1 .. n  BY <1>0, <1>2, WriteIs
<1>4. \A op : (w.op = op <=> 1 \in Coming(op))  BY <1>2 DEF Coming
<1>5. hw'.clk = IF w.op = "clk_en" THEN hw.clk \cup w.arg
                ELSE IF w.op = "clk_dis" THEN hw.clk \ w.arg ELSE hw.clk
  BY <1>0, WriteFields
<1>6. w.op \in AdmuxOps =>
        /\ hw'.admux = IF w.op = "admux_or" THEN hw.admux \cup w.arg
                       ELSE IF w.op = "admux_and" THEN hw.admux \ w.arg
                       ELSE IF w.op = "admux" THEN w.arg ELSE hw.admux
        /\ hw'.conv = IF w.op = "start" THEN hw.admux ELSE hw.conv
  <2>1. w.op \in AdmuxOps => w.unit = "adc" /\ "adc" \in hw.clk  BY <1>0, <1>2 DEF Sampling
  <2> QED  BY <1>0, <2>1, WriteFields
<1>7. w.op \notin AdmuxOps => hw'.admux = hw.admux /\ hw'.conv = hw.conv  BY <1>0, WriteFields
<1>8. w.op = "clk_dis" => n = 1  BY <1>0, <1>4 DEF Clocked
<1> HIDE DEF w
<1>9. \A j \in 1 .. Len(calls') : calls'[j].op \in AdmuxOps => calls'[j].unit = "adc" /\ "adc" \in hw'.clk
  <2>1. SUFFICES ASSUME NEW j \in 1 .. n - 1, calls'[j].op \in AdmuxOps
                 PROVE  calls'[j].unit = "adc" /\ "adc" \in hw'.clk
    BY <1>2
  <2>2. calls'[j].unit = "adc" /\ "adc" \in hw.clk  BY <1>0, <1>3, <2>1 DEF Sampling
  <2>3. w.op # "clk_dis"  BY <1>2, <1>8, <2>1
  <2> QED  BY <1>5, <2>2, <2>3
<1>10. \A j \in Coming("admux_and")' : calls'[j].arg = AdmuxBits
  BY <1>0, ComingIs DEF Sampling
<1>11. \A j \in 1 .. Len(calls') : calls'[j].op \in {"admux_or", "admux"} => ~fresh
  BY <1>0, <1>2, <1>3 DEF Sampling
<1>12. fresh /\ Coming("admux_and")' = {} => hw'.admux \cap AdmuxBits = {}
  <2>1. SUFFICES ASSUME fresh, Coming("admux_and")' = {} PROVE hw'.admux \cap AdmuxBits = {}
    OBVIOUS
  <2>2. w.op \notin {"admux_or", "admux"}  BY <1>0, <1>2, <2>1 DEF Sampling, w
  <2>3. CASE w.op = "admux_and"
    <3>1. w.arg = AdmuxBits  BY <1>0, <1>4, <2>3 DEF Sampling, w
    <3> QED  BY <1>6, <2>3, <3>1 DEF AdmuxOps
  <2>4. CASE w.op # "admux_and"
    <3>1. Coming("admux_and") = {}  BY <1>0, <1>4, <2>1, <2>4, ComingIs
    <3>2. hw.admux \cap AdmuxBits = {}  BY <1>0, <2>1, <3>1 DEF Sampling
    <3>3. hw'.admux = hw.admux  BY <1>6, <1>7, <2>2, <2>4
    <3> QED  BY <3>2, <3>3
  <2> QED  BY <2>3, <2>4
<1>13. CASE Coming("start") = {}
  <2>1. Coming("start")' = {}  BY <1>0, <1>13, ComingIs
  <2>2. w.op # "start"  BY <1>4, <1>13
  <2>3. hw'.conv = hw.conv  BY <1>6, <1>7, <2>2
  <2>4. \A j \in 1 .. Len(calls') : calls'[j].op \notin {"admux_or", "admux"}
    BY <1>0, <1>2, <1>3, <1>13 DEF Sampling
  <2>5. /\ wanted.res = 8 => hw'.conv = {"adlar"} \cup wanted.pin
        /\ wanted.res = 10 => "adlar" \notin hw'.conv /\ hw'.conv \cap RefBits = wanted.ref
    BY <1>0, <1>13, <2>3 DEF Sampling
  <2>6. wanted.pin \cap AdmuxBits = {} /\ wanted.ref \subseteq RefBits  BY <1>0 DEF Sampling
  <2> QED  BY <1>1, <1>9, <1>10, <1>11, <1>12, <2>1, <2>4, <2>5, <2>6 DEF Sampling
<1>14. CASE Coming("start") # {}
  <2>1. /\ wanted.res \in {8, 10} /\ n <= (IF wanted.res = 8 THEN 4 ELSE 3)
        /\ calls[n].op = "start"
        /\ n >= 2 => calls[n - 1].op = "admux_or" /\ calls[n - 1].arg = wanted.pin
        /\ wanted.pin \cap AdmuxBits = {} /\ wanted.ref \subseteq RefBits
    BY <1>0, <1>14 DEF Sampling
  <2>2. wanted.res = 10 =>
          /\ n = 3 => /\ calls[1].op = "admux_or" /\ calls[1].arg = wanted.ref
                      /\ hw.admux \cap AdmuxBits = {}
          /\ n <= 2 => hw.admux \cap AdmuxBits = wanted.ref
    BY <1>0, <1>14 DEF Sampling
  <2>3. wanted.res = 8 =>
          /\ n = 4 => calls[1].op = "admux_or"
          /\ n >= 3 => calls[n - 2].op = "admux" /\ calls[n - 2].arg = {"adlar"}
          /\ n = 2 => hw.admux = {"adlar"}
          /\ n = 1 => hw.admux = {"adlar"} \cup wanted.pin
    BY <1>0, <1>14 DEF Sampling
  <2>4. CASE n = 1
    <3>1. w.op = "start"  BY <2>1, <2>4 DEF w
    <3>2. hw'.conv = hw.admux  BY <1>6, <3>1 DEF AdmuxOps
    <3>3. Coming("start")' = {} /\ \A j \in 1 .. Len(calls') : FALSE  BY <1>2, <2>4 DEF Coming
    <3>4. wanted.res = 8 => hw'.conv = {"adlar"} \cup wanted.pin
      BY <2>1, <2>3, <2>4, <3>2 DEF AdmuxBits
    <3>5. wanted.res = 10 => "adlar" \notin hw'.conv /\ hw'.conv \cap RefBits = wanted.ref
      BY <2>1, <2>2, <2>4, <3>2 DEF AdmuxBits, RefBits
    <3> QED  BY <1>1, <1>9, <1>10, <1>11, <1>12, <2>1, <3>3, <3>4, <3>5 DEF Sampling
  <2>5. CASE n >= 2
    <3>1. n - 1 \in 1 .. n - 1 /\ calls'[n - 1] = calls[n]
      <4>1. n - 1 \in 1 .. n - 1 /\ (n - 1) + 1 = n  BY <1>2, <2>5
      <4> QED  BY <1>3, <4>1
    <3>2. Coming("start")' # {} /\ calls'[Len(calls')].op = "start"
      BY <1>2, <2>1, <3>1 DEF Coming
    <3>3. n >= 3 => calls'[Len(calls') - 1] = calls[n - 1]
      <4>1. ASSUME n >= 3 PROVE n - 2 \in 1 .. n - 1 /\ (n - 2) + 1 = n - 1 /\ Len(calls') - 1 = n - 2
        BY <1>2, <4>1
      <4> QED  BY <1>3, <4>1
    <3>4. n >= 4 => calls'[Len(calls') - 2] = calls[n - 2]
      <4>1. ASSUME n >= 4 PROVE n - 3 \in 1 .. n - 1 /\ (n - 3) + 1 = n - 2 /\ Len(calls') - 2 = n - 3
        BY <1>2, <4>1
      <4> QED  BY <1>3, <4>1
    <3>5. CASE wanted.res = 10
      <4>1. n = 3 => hw'.admux = hw.admux \cup wanted.ref  BY <1>6, <2>2, <3>5 DEF AdmuxOps, w
      <4>2. n = 2 => hw'.admux = hw.admux \cup wanted.pin
        <5>1. n = 2 => w.op = "admux_or" /\ w.arg = wanted.pin  BY <2>1 DEF w
        <5> QED  BY <1>6, <5>1 DEF AdmuxOps
      <4>3. hw'.admux \cap AdmuxBits = wanted.ref /\ n - 1 <= 2
        BY <1>2, <2>1, <2>2, <2>5, <3>5, <4>1, <4>2 DEF AdmuxBits
      <4> QED
        BY <1>1, <1>2, <1>9, <1>10, <1>11, <1>12, <2>1, <2>5, <3>2, <3>3, <3>5, <4>3 DEF Sampling
    <3>6. CASE wanted.res = 8
      <4>1. n = 3 => hw'.admux = {"adlar"}
        <5>1. n = 3 => w.op = "admux" /\ w.arg = {"adlar"}  BY <2>3, <3>6 DEF w
        <5> QED  BY <1>6, <5>1 DEF AdmuxOps
      <4>2. n = 2 => hw'.admux = {"adlar"} \cup wanted.pin
        <5>1. n = 2 => w.op = "admux_or" /\ w.arg = wanted.pin  BY <2>1 DEF w
        <5> QED  BY <1>6, <2>3, <3>6, <5>1 DEF AdmuxOps
      <4>3. /\ Len(calls') <= 3
            /\ Len(calls') >= 2 =>
                 calls'[Len(calls') - 1].op = "admux_or" /\ calls'[Len(calls') - 1].arg = wanted.pin
            /\ Len(calls') >= 3 =>
                 calls'[Len(calls') - 2].op = "admux" /\ calls'[Len(calls') - 2].arg = {"adlar"}
            /\ Len(calls') = 2 => hw'.admux = {"adlar"}
            /\ Len(calls') = 1 => hw'.admux = {"adlar"} \cup wanted.pin
        BY <1>2, <2>1, <2>3, <3>3, <3>4, <3>6, <4>1, <4>2
      <4> QED
        BY <1>1, <1>2, <1>9, <1>10, <1>11, <1>12, <2>1, <3>2, <3>6, <4>3 DEF Sampling
    <3> QED  BY <2>1, <3>5, <3>6
  <2> QED  BY <1>2, <2>4, <2>5
<1> QED  BY <1>13, <1>14

(* A slot that is written is as asked, and was written behind its key. *)
LEMMA WriteProgrammed ==
  ASSUME HalInv, WriteOne
  PROVE  Programmed'
<1> DEFINE w == calls[1]
<1>0. HalTypes /\ Programmed  BY DEF HalInv
<1>1. prog' = prog /\ w \in Writes  BY <1>0, WriteIs
<1>2. Len(calls) \in Nat /\ Len(calls) >= 1 /\ Len(calls') = Len(calls) - 1  BY <1>0, WriteIs
<1>3. \A op : (w.op = op <=> 1 \in Coming(op))  BY <1>2 DEF Coming
<1>4. /\ w.op # "slot" => hw'.slots = hw.slots
      /\ w.op = "slot" /\ hw.key =>
           hw'.slots =
             [hw.slots EXCEPT ![w.arg[1]] = [hw.slots[w.arg[1]] EXCEPT ![w.arg[2]] = w.arg[3]]]
      /\ w.op = "key" => hw'.key
      /\ w.op # "sleep" => hw'.asleep = hw.asleep
  BY <1>0, WriteFields
<1>5. hw.slots \in Slots /\ prog \in Slots  BY <1>0 DEF HalTypes, Registers
<1> HIDE DEF w
<1>6. ASSUME NEW k \in Kinds, NEW i \in 1 .. PmuSize
      PROVE  hw'.slots[k][i] = prog[k][i]
             \/ \E j \in Coming("slot")' : calls'[j].arg = <<k, i, prog[k][i]>>
  <2>1. CASE \E j \in Coming("slot") : j # 1 /\ calls[j].arg = <<k, i, prog[k][i]>>
    BY <1>0, <2>1, ComingIs
  <2>2. CASE w.op = "slot"
    <3>1. hw.key /\ \E k2 \in Kinds, i2 \in 1 .. PmuSize : w.arg = <<k2, i2, prog[k2][i2]>>
      BY <1>0, <1>3, <2>2 DEF Programmed, w
    <3>2. PICK k2 \in Kinds, i2 \in 1 .. PmuSize : w.arg = <<k2, i2, prog[k2][i2]>>  BY <3>1
    <3>3. hw'.slots = [hw.slots EXCEPT ![k2] = [hw.slots[k2] EXCEPT ![i2] = prog[k2][i2]]]
      BY <1>4, <2>2, <3>1, <3>2
    <3>4. hw'.slots[k][i] = IF k = k2 /\ i = i2 THEN prog[k][i] ELSE hw.slots[k][i]
      BY <1>5, <3>3, ZenonT(60) DEF Slots
    <3>5. CASE hw.slots[k][i] = prog[k][i]  BY <3>4, <3>5
    <3>6. CASE calls[1].arg = <<k, i, prog[k][i]>>
      <4>1. k = k2 /\ i = i2  BY <3>2, <3>6 DEF w
      <4> QED  BY <3>4, <4>1
    <3> QED  BY <1>0, <2>1, <3>5, <3>6 DEF Programmed
  <2>3. CASE w.op # "slot"
    <3>1. 1 \notin Coming("slot")  BY <1>3, <2>3
    <3>2. hw'.slots = hw.slots  BY <1>4, <2>3
    <3> QED  BY <1>0, <2>1, <3>1, <3>2 DEF Programmed
  <2> QED  BY <2>2, <2>3
<1>7. ASSUME NEW j \in Coming("slot")'
      PROVE  /\ \E k \in Kinds, i \in 1 .. PmuSize : calls'[j].arg = <<k, i, prog[k][i]>>
             /\ IF j = 1 THEN hw'.key ELSE calls'[j - 1].op = "key"
  <2>1. j + 1 \in Coming("slot") /\ calls'[j] = calls[j + 1] /\ j \in Nat  BY <1>0, ComingIs
  <2>2. j \in 1 .. Len(calls')  BY DEF Coming
  <2>3. calls[j].op = "key"
    <3>1. j + 1 # 1 /\ (j + 1) - 1 = j  BY <1>2, <2>1, <2>2
    <3> QED  BY <1>0, <2>1, <3>1 DEF Programmed
  <2>4. CASE j = 1  BY <1>0, <1>4, <2>1, <2>3, <2>4 DEF Programmed, w
  <2>5. CASE j # 1
    <3>1. j - 1 \in 1 .. Len(calls') /\ (j - 1) + 1 = j  BY <1>2, <2>1, <2>2, <2>5
    <3>2. calls'[j - 1] = calls[j]  BY <1>0, <3>1, WriteIs
    <3> QED  BY <1>0, <2>1, <2>3, <2>5, <3>2 DEF Programmed
  <2> QED  BY <2>4, <2>5
<1>8. hw'.asleep \/ Coming("sleep")' # {} => Coming("slot")' = {}
  <2>1. hw'.asleep \/ Coming("sleep")' # {} => hw.asleep \/ Coming("sleep") # {}
    BY <1>0, <1>3, <1>4, ComingIs
  <2>2. Coming("slot") = {} => Coming("slot")' = {}  BY <1>0, ComingIs
  <2> QED  BY <1>0, <2>1, <2>2 DEF Programmed
<1> QED  BY <1>1, <1>6, <1>7, <1>8 DEF Programmed

-----------------------------------------------------------------------------
(* The calls.  Before one starts nothing is to come.                       *)

(* What holds between two calls. *)
LEMMA Between ==
  ASSUME HalInv, calls = <<>>
  PROVE  /\ crossed \/ hw.ie \subseteq hlinked
         /\ \A u \in {"uart", "adc"} \cap up : u \in hw.clk
         /\ fresh => hw.admux \cap AdmuxBits = {}
         /\ wanted.pin \cap AdmuxBits = {} /\ wanted.ref \subseteq RefBits
         /\ wanted.res = 8 => hw.conv = {"adlar"} \cup wanted.pin
         /\ wanted.res = 10 => "adlar" \notin hw.conv /\ hw.conv \cap RefBits = wanted.ref
         /\ \A k \in Kinds, i \in 1 .. PmuSize : hw.slots[k][i] = prog[k][i]
<1>1. Len(calls) = 0  OBVIOUS
<1>2. \A op : Coming(op) = {}  BY <1>1 DEF Coming
<1>3. crossed \/ hw.ie \subseteq hlinked  BY DEF HalInv, HandlersLinked
<1>4. \A u \in {"uart", "adc"} \cap up : u \in hw.clk  BY <1>2 DEF HalInv, Clocked
<1>5. /\ fresh => hw.admux \cap AdmuxBits = {}
      /\ wanted.pin \cap AdmuxBits = {} /\ wanted.ref \subseteq RefBits
      /\ wanted.res = 8 => hw.conv = {"adlar"} \cup wanted.pin
      /\ wanted.res = 10 => "adlar" \notin hw.conv /\ hw.conv \cap RefBits = wanted.ref
  BY <1>2 DEF HalInv, Sampling
<1>6. \A k \in Kinds, i \in 1 .. PmuSize : hw.slots[k][i] = prog[k][i]
  BY <1>2 DEF HalInv, Programmed
<1> QED  BY <1>3, <1>4, <1>5, <1>6

(* No write of the call is one of ops. *)
None(ops) == \A j \in 1 .. Len(calls) : calls[j].op \notin ops

(* A call that has no part in a clause of the invariant keeps it. *)
LEMMA KeepsHandlers ==
  ASSUME HalInv, calls = <<>>, UNCHANGED <<hw, hlinked, crossed>>, None({"ie", "unlink", "id"})'
  PROVE  HandlersLinked'
<1>1. Coming("ie")' = {} /\ Coming("unlink")' = {} /\ Coming("id")' = {}  BY DEF Coming, None
<1> QED  BY <1>1, Between DEF HandlersLinked

(* The clocks. *)
LEMMA KeepsClocked ==
  ASSUME HalInv, calls = <<>>, UNCHANGED hw, up' \cap {"uart", "adc"} \subseteq up, None({"clk_dis"})'
  PROVE  Clocked'
<1>1. Coming("clk_dis")' = {}  BY DEF Coming, None
<1> QED  BY <1>1, Between DEF Clocked

(* The ADC's multiplexer and its last conversion. *)
LEMMA KeepsSampling ==
  ASSUME HalInv, calls = <<>>, UNCHANGED <<hw, wanted, fresh>>, None(AdmuxOps)'
  PROVE  Sampling'
<1>1. Coming("start")' = {} /\ Coming("admux_and")' = {}
  BY DEF Coming, None, AdmuxOps
<1>2. \A j \in 1 .. Len(calls') : calls'[j].op \notin AdmuxOps  BY DEF None
<1>3. \A j \in 1 .. Len(calls') : calls'[j].op \notin {"admux_or", "admux"}  BY <1>2 DEF AdmuxOps
<1> QED  BY <1>1, <1>2, <1>3, Between DEF Sampling

(* The PMU's slots. *)
LEMMA KeepsProgrammed ==
  ASSUME HalInv, calls = <<>>, UNCHANGED <<hw, prog>>, None({"slot"})'
  PROVE  Programmed'
<1>1. Coming("slot")' = {}  BY DEF Coming, None
<1> QED  BY <1>1, Between DEF Programmed

(* A row of writes, each well-formed, is a call. *)
LEMMA CallTypes ==
  ASSUME HalInv, calls' \in Seq(Writes), UNCHANGED <<hw, prog>>, crossed' \in BOOLEAN, fresh' \in BOOLEAN
  PROVE  HalTypes'
BY DEF HalInv, HalTypes

(* The well-formed writes. *)
LEMMA WrIs ==
  ASSUME NEW u \in HalUnits \cup {"cpu", "pmu"}, NEW op \in HalOps \ {"slot"}, NEW a \in SUBSET ArgBits,
         op \in {"link", "unlink", "clk_en", "clk_dis"} => u = "cpu",
         op \in PmuOps \cup {"key"} => u = "pmu"
  PROVE  Wr(u, op, a) \in Writes /\ Wr(u, op, a).op = op /\ Wr(u, op, a).arg = a /\ Wr(u, op, a).unit = u
BY DEF Wr, Writes

(* A setup links a handler right before it enables the interrupt. *)
LEMMA SetupHandlers ==
  ASSUME HalInv, calls = <<>>, UNCHANGED <<hw, hlinked, crossed>>, None({"unlink", "id"})',
         calls' \in Seq(Writes),
         \A j \in 1 .. Len(calls') : calls'[j].op = "ie" =>
           j >= 2 /\ calls'[j - 1].op = "link" /\ calls'[j - 1].arg = calls'[j].arg
  PROVE  HandlersLinked'
<1>1. Coming("unlink")' = {} /\ Coming("id")' = {}  BY DEF Coming, None
<1>2. crossed' \/ hw'.ie \subseteq hlinked'  BY Between
<1>3. Len(calls') \in Nat  OBVIOUS
<1>4. ASSUME NEW j \in Coming("ie")', NEW i \in calls'[j].arg
      PROVE  \E k \in Coming("link")' : k < j /\ i \in calls'[k].arg
  <2>1. j \in 1 .. Len(calls') /\ calls'[j].op = "ie"  BY DEF Coming
  <2>2. j - 1 \in 1 .. Len(calls') /\ j - 1 < j  BY <1>3, <2>1
  <2>3. j - 1 \in Coming("link")' /\ i \in calls'[j - 1].arg  BY <2>1, <2>2 DEF Coming
  <2> QED  BY <2>2, <2>3
<1> QED  BY <1>1, <1>2, <1>4 DEF HandlersLinked

(* A setup turns its unit's clock on. *)
LEMMA OpensClocked ==
  ASSUME HalInv, calls = <<>>, UNCHANGED hw, None({"clk_dis"})', NEW u, up' = up \cup {u},
         \E j \in 1 .. Len(calls') : calls'[j].op = "clk_en" /\ u \in calls'[j].arg
  PROVE  Clocked'
<1>1. Coming("clk_dis")' = {}  BY DEF Coming, None
<1>2. \E j \in Coming("clk_en")' : u \in calls'[j].arg  BY DEF Coming
<1>3. \A v \in {"uart", "adc"} \cap up : v \in hw.clk  BY Between
<1> QED  BY <1>1, <1>2, <1>3 DEF Clocked

(* uart_setup of the mega_avr. *)
LEMMA UartUpKeeps ==
  ASSUME HalInv, NEW d \in {"tx", "rx", "trx"}, UartUp(d)
  PROVE  HalInv'
<1>1. /\ calls = <<>> /\ calls' = AvrUartSetup(d) /\ up' = up \cup {"uart"}
      /\ UNCHANGED <<uses, hw, hlinked, wanted, fresh, crossed, setups, prog>>
  BY DEF UartUp, HalCall, HalStart, Opens, NoAdc, NoTimer
<1> DEFINE e == Wr("uart", "en_or", IF d = "trx" THEN {"tx", "rx"} ELSE {d})
           a == Wr("uart", "nop", {})
<1>2. /\ a \in Writes /\ ClkEn("uart") \in Writes /\ e \in Writes
      /\ Link("utx") \in Writes /\ Wr("uart", "ie", {"utx"}) \in Writes
      /\ Link("urx") \in Writes /\ Wr("uart", "ie", {"urx"}) \in Writes
  BY DEF Wr, Writes, ClkEn, Link, HalOps, HalUnits, ArgBits, HalIrqs, PmuOps, AdmuxOps
<1>3. /\ a.op = "nop" /\ ClkEn("uart").op = "clk_en" /\ ClkEn("uart").arg = {"uart"} /\ e.op = "en_or"
      /\ Link("utx").op = "link" /\ Link("utx").arg = {"utx"}
      /\ Link("urx").op = "link" /\ Link("urx").arg = {"urx"}
      /\ Wr("uart", "ie", {"utx"}).op = "ie" /\ Wr("uart", "ie", {"utx"}).arg = {"utx"}
      /\ Wr("uart", "ie", {"urx"}).op = "ie" /\ Wr("uart", "ie", {"urx"}).arg = {"urx"}
  BY DEF Wr, Link, ClkEn
<1> HIDE DEF e, a
<1>4. calls' \in Seq(Writes)  BY <1>1, <1>2 DEF AvrUartSetup, UartTx, UartRx, e, a
<1>5. Len(calls') >= 2 /\ calls'[2] = ClkEn("uart")  BY <1>1 DEF AvrUartSetup, UartTx, UartRx
<1>6. \A j \in 1 .. Len(calls') : 
        /\ calls'[j].op \in {"nop", "clk_en", "link", "ie", "en_or"}
        /\ calls'[j].op = "ie" => j >= 2 /\ calls'[j - 1].op = "link" /\ calls'[j - 1].arg = calls'[j].arg
  <2>1. CASE d = "tx"
    <3>1. /\ Len(calls') = 5 /\ calls'[1] = a /\ calls'[2] = ClkEn("uart")
          /\ calls'[3] = Link("utx") /\ calls'[4] = Wr("uart", "ie", {"utx"}) /\ calls'[5] = e
      BY <1>1, <2>1 DEF AvrUartSetup, UartTx, e, a
    <3>2. /\ calls'[1].op = "nop" /\ calls'[2].op = "clk_en" /\ calls'[3].op = "link"
          /\ calls'[4].op = "ie" /\ calls'[5].op = "en_or" /\ calls'[3].arg = calls'[4].arg
      BY <1>3, <3>1
    <3>3. Len(calls') = 5  BY <3>1
    <3>4. \A j \in 1 .. Len(calls') : calls'[j].op \in {"nop", "clk_en", "link", "ie", "en_or"}
      BY <3>2, <3>3
    <3>5. \A j \in 1 .. Len(calls') : calls'[j].op = "ie" => j = 4 /\ j - 1 = 3 /\ j >= 2
      BY <3>2, <3>3
    <3> QED  BY <3>2, <3>4, <3>5
  <2>2. CASE d = "rx"
    <3>1. /\ Len(calls') = 5 /\ calls'[1] = a /\ calls'[2] = ClkEn("uart")
          /\ calls'[3] = Link("urx") /\ calls'[4] = Wr("uart", "ie", {"urx"}) /\ calls'[5] = e
      BY <1>1, <2>2 DEF AvrUartSetup, UartRx, e, a
    <3>2. /\ calls'[1].op = "nop" /\ calls'[2].op = "clk_en" /\ calls'[3].op = "link"
          /\ calls'[4].op = "ie" /\ calls'[5].op = "en_or" /\ calls'[3].arg = calls'[4].arg
      BY <1>3, <3>1
    <3>3. Len(calls') = 5  BY <3>1
    <3>4. \A j \in 1 .. Len(calls') : calls'[j].op \in {"nop", "clk_en", "link", "ie", "en_or"}
      BY <3>2, <3>3
    <3>5. \A j \in 1 .. Len(calls') : calls'[j].op = "ie" => j = 4 /\ j - 1 = 3 /\ j >= 2
      BY <3>2, <3>3
    <3> QED  BY <3>2, <3>4, <3>5
  <2>3. CASE d = "trx"
    <3>1. /\ Len(calls') = 7 /\ calls'[1] = a /\ calls'[2] = ClkEn("uart")
          /\ calls'[3] = Link("utx") /\ calls'[4] = Wr("uart", "ie", {"utx"})
          /\ calls'[5] = Link("urx") /\ calls'[6] = Wr("uart", "ie", {"urx"}) /\ calls'[7] = e
      BY <1>1, <2>3 DEF AvrUartSetup, UartTx, UartRx, e, a
    <3>2. /\ calls'[1].op = "nop" /\ calls'[2].op = "clk_en" /\ calls'[3].op = "link"
          /\ calls'[4].op = "ie" /\ calls'[5].op = "link" /\ calls'[6].op = "ie" /\ calls'[7].op = "en_or"
          /\ calls'[3].arg = calls'[4].arg /\ calls'[5].arg = calls'[6].arg
      BY <1>3, <3>1
    <3>3. Len(calls') = 7  BY <3>1
    <3>4. \A j \in 1 .. Len(calls') : calls'[j].op \in {"nop", "clk_en", "link", "ie", "en_or"}
      BY <3>2, <3>3
    <3>5. \A j \in 1 .. Len(calls') :
            calls'[j].op = "ie" => j >= 2 /\ ((j = 4 /\ j - 1 = 3) \/ (j = 6 /\ j - 1 = 5))
      BY <3>2, <3>3
    <3> QED  BY <3>2, <3>4, <3>5
  <2> QED  BY <2>1, <2>2, <2>3
<1>7. HandlersLinked'
  <2>1. None({"unlink", "id"})'  BY <1>6 DEF None
  <2> QED  BY <1>1, <1>4, <1>6, <2>1, SetupHandlers
<1>8. Clocked'
  <2>1. None({"clk_dis"})'  BY <1>6 DEF None
  <2>2. 2 \in 1 .. Len(calls')  BY <1>4, <1>5
  <2> QED  BY <1>1, <1>3, <1>5, <2>1, <2>2, OpensClocked, SMTT(30)
<1>9. Sampling'
  <2>1. None(AdmuxOps)'  BY <1>6 DEF None, AdmuxOps
  <2> QED  BY <1>1, <2>1, KeepsSampling
<1>10. Programmed'
  <2>1. None({"slot"})'  BY <1>6 DEF None
  <2> QED  BY <1>1, <2>1, KeepsProgrammed
<1>11. HalTypes'  BY <1>1, <1>4, CallTypes DEF HalInv, HalTypes
<1> QED  BY <1>7, <1>8, <1>9, <1>10, <1>11 DEF HalInv

(* A shutdown disables an interrupt right before it unlinks the handler. *)
LEMMA ShutdownHandlers ==
  ASSUME HalInv, calls = <<>>, UNCHANGED <<hw, hlinked>>, crossed => crossed', None({"ie"})',
         calls' \in Seq(Writes),
         \A j \in 1 .. Len(calls') : calls'[j].op = "unlink" =>
           j >= 2 /\ calls'[j - 1].op = "id" /\ calls'[j - 1].arg = calls'[j].arg,
         \A j \in 1 .. Len(calls') : calls'[j].op = "id" => crossed' \/ calls'[j].unit \in hw.clk
  PROVE  HandlersLinked'
<1>1. Coming("ie")' = {}  BY DEF Coming, None
<1>2. crossed' \/ hw'.ie \subseteq hlinked'  BY Between
<1>3. Len(calls') \in Nat  OBVIOUS
<1>4. ASSUME NEW j \in Coming("unlink")', NEW i \in calls'[j].arg
      PROVE  \E k \in Coming("id")' : k < j /\ i \in calls'[k].arg
  <2>1. j \in 1 .. Len(calls') /\ calls'[j].op = "unlink"  BY DEF Coming
  <2>2. j - 1 \in 1 .. Len(calls') /\ j - 1 < j  BY <1>3, <2>1
  <2>3. j - 1 \in Coming("id")' /\ i \in calls'[j - 1].arg  BY <2>1, <2>2 DEF Coming
  <2> QED  BY <2>2, <2>3
<1>5. crossed' \/ \A j \in Coming("id")' : calls'[j].unit \in hw'.clk  BY DEF Coming
<1> QED  BY <1>1, <1>2, <1>4, <1>5 DEF HandlersLinked

(* A shutdown turns the clock of its own unit off, with its last write. *)
LEMMA ClosesClocked ==
  ASSUME HalInv, calls = <<>>, UNCHANGED hw, NEW u, up' = up \ {u},
         \A j \in 1 .. Len(calls') : calls'[j].op = "clk_dis" =>
           j = Len(calls') /\ calls'[j].arg \cap {"uart", "adc"} \subseteq {u}
  PROVE  Clocked'
<1>1. \A j \in Coming("clk_dis")' : j = Len(calls') /\ calls'[j].arg \cap {"uart", "adc"} \subseteq {u}
  BY DEF Coming
<1>2. \A v \in {"uart", "adc"} \cap up : v \in hw.clk  BY Between
<1> QED  BY <1>1, <1>2 DEF Clocked

(* uart_shutdown of the mega_avr. *)
LEMMA UartDownKeeps ==
  ASSUME HalInv, UartDown
  PROVE  HalInv'
<1>1. /\ calls = <<>> /\ calls' = AvrUartShutdown /\ up' = up \ {"uart"} /\ "uart" \in up
      /\ UNCHANGED <<uses, hw, hlinked, wanted, fresh, crossed, setups, prog>>
  BY DEF UartDown, HalCall, HalStart, Closes, NoAdc, NoTimer
<1>2. /\ Wr("uart", "id", {"utx"}) \in Writes /\ Unlink("utx") \in Writes
      /\ Wr("uart", "id", {"urx"}) \in Writes /\ Unlink("urx") \in Writes /\ ClkDis("uart") \in Writes
  BY DEF Wr, Writes, ClkDis, Unlink, HalOps, HalUnits, ArgBits, HalIrqs, PmuOps, AdmuxOps
<1>3. /\ Len(calls') = 5 /\ calls'[1] = Wr("uart", "id", {"utx"}) /\ calls'[2] = Unlink("utx")
      /\ calls'[3] = Wr("uart", "id", {"urx"}) /\ calls'[4] = Unlink("urx") /\ calls'[5] = ClkDis("uart")
      /\ calls' \in Seq(Writes)
  BY <1>1, <1>2 DEF AvrUartShutdown
<1>4. "uart" \in hw.clk  BY <1>1, Between
<1>5. \A j \in 1 .. Len(calls') :
        /\ calls'[j].op \in {"id", "unlink", "clk_dis"}
        /\ calls'[j].op = "unlink" => j >= 2 /\ calls'[j - 1].op = "id" /\ calls'[j - 1].arg = calls'[j].arg
        /\ calls'[j].op = "id" => calls'[j].unit = "uart"
        /\ calls'[j].op = "clk_dis" => j = Len(calls') /\ calls'[j].arg = {"uart"}
  <2>1. /\ calls'[1].op = "id" /\ calls'[1].unit = "uart" /\ calls'[1].arg = {"utx"}
        /\ calls'[2].op = "unlink" /\ calls'[2].arg = {"utx"}
        /\ calls'[3].op = "id" /\ calls'[3].unit = "uart" /\ calls'[3].arg = {"urx"}
        /\ calls'[4].op = "unlink" /\ calls'[4].arg = {"urx"}
        /\ calls'[5].op = "clk_dis" /\ calls'[5].arg = {"uart"}
    BY <1>3 DEF Wr, Unlink, ClkDis
  <2>2. Len(calls') = 5  BY <1>3
  <2>3. \A j \in 1 .. Len(calls') :
          calls'[j].op = "unlink" => j >= 2 /\ calls'[j - 1].op = "id" /\ calls'[j - 1].arg = calls'[j].arg
    <3>1. \A j \in 1 .. Len(calls') :
            calls'[j].op = "unlink" => j >= 2 /\ ((j = 2 /\ j - 1 = 1) \/ (j = 4 /\ j - 1 = 3))
      BY <2>1, <2>2
    <3> QED  BY <2>1, <3>1
  <2>4. \A j \in 1 .. Len(calls') : calls'[j].op \in {"id", "unlink", "clk_dis"}  BY <2>1, <2>2
  <2>5. \A j \in 1 .. Len(calls') : calls'[j].op = "id" => calls'[j].unit = "uart"  BY <2>1, <2>2
  <2>6. \A j \in 1 .. Len(calls') : calls'[j].op = "clk_dis" => j = Len(calls') /\ calls'[j].arg = {"uart"}
    BY <2>1, <2>2
  <2> QED  BY <2>3, <2>4, <2>5, <2>6
<1>7. HandlersLinked'
  <2>1. None({"ie"})'  BY <1>5 DEF None
  <2> QED  BY <1>1, <1>3, <1>4, <1>5, <2>1, ShutdownHandlers
<1>8. Clocked'
  <2>1. \A j \in 1 .. Len(calls') : calls'[j].op = "clk_dis" =>
          j = Len(calls') /\ calls'[j].arg \cap {"uart", "adc"} \subseteq {"uart"}
    BY <1>5
  <2> QED  BY <1>1, <2>1, ClosesClocked
<1>9. Sampling'
  <2>1. None(AdmuxOps)'  BY <1>5 DEF None, AdmuxOps
  <2> QED  BY <1>1, <2>1, KeepsSampling
<1>10. Programmed'
  <2>1. None({"slot"})'  BY <1>5 DEF None
  <2> QED  BY <1>1, <2>1, KeepsProgrammed
<1>11. HalTypes'  BY <1>1, <1>3, CallTypes DEF HalInv, HalTypes
<1> QED  BY <1>7, <1>8, <1>9, <1>10, <1>11 DEF HalInv

(* adc_setup. *)
LEMMA AdcUpKeeps ==
  ASSUME HalInv, NEW b \in BOOLEAN, AdcUp(b)
  PROVE  HalInv'
<1>1. /\ calls = <<>> /\ calls' = AdcSetup(b) /\ up' = up \cup {"adc"}
      /\ UNCHANGED <<uses, hw, hlinked, wanted, fresh, crossed, setups, prog>>
  BY DEF AdcUp, HalCall, HalStart, Opens, NoAdc, NoTimer
<1>2. /\ ClkEn("adc") \in Writes /\ Wr("adc", "aden", {}) \in Writes
      /\ Link("adc") \in Writes /\ Wr("adc", "ie", {"adc"}) \in Writes
  BY DEF Wr, Writes, ClkEn, Link, HalOps, HalUnits, ArgBits, HalIrqs, PmuOps, AdmuxOps
<1>3. /\ Len(calls') \in {2, 4} /\ calls'[1] = ClkEn("adc") /\ calls'[2] = Wr("adc", "aden", {})
      /\ Len(calls') = 4 => calls'[3] = Link("adc") /\ calls'[4] = Wr("adc", "ie", {"adc"})
      /\ calls' \in Seq(Writes)
  <2>1. CASE b  BY <1>1, <1>2, <2>1 DEF AdcSetup
  <2>2. CASE ~b  BY <1>1, <1>2, <2>2 DEF AdcSetup
  <2> QED  BY <2>1, <2>2
<1>5. \A j \in 1 .. Len(calls') :
        /\ calls'[j].op \in {"clk_en", "aden", "link", "ie"}
        /\ calls'[j].op = "ie" => j >= 2 /\ calls'[j - 1].op = "link" /\ calls'[j - 1].arg = calls'[j].arg
  <2>1. /\ calls'[1].op = "clk_en" /\ calls'[2].op = "aden"
        /\ Len(calls') = 4 => /\ calls'[3].op = "link" /\ calls'[3].arg = {"adc"}
                              /\ calls'[4].op = "ie" /\ calls'[4].arg = {"adc"}
    BY <1>3 DEF Wr, Link, ClkEn
  <2>2. Len(calls') \in {2, 4}  BY <1>3
  <2>3. CASE Len(calls') = 2  BY <2>1, <2>3
  <2>4. CASE Len(calls') = 4
    <3>1. \A j \in 1 .. Len(calls') : calls'[j].op \in {"clk_en", "aden", "link", "ie"}  BY <2>1, <2>4
    <3>2. \A j \in 1 .. Len(calls') :
            calls'[j].op = "ie" => j >= 2 /\ calls'[j - 1].op = "link" /\ calls'[j - 1].arg = calls'[j].arg
      BY <2>1, <2>4
    <3> QED  BY <3>1, <3>2
  <2> QED  BY <2>2, <2>3, <2>4
<1>7. HandlersLinked'
  <2>1. None({"unlink", "id"})'  BY <1>5 DEF None
  <2> QED  BY <1>1, <1>3, <1>5, <2>1, SetupHandlers
<1>8. Clocked'
  <2>1. None({"clk_dis"})'  BY <1>5 DEF None
  <2>2. 1 \in 1 .. Len(calls') /\ calls'[1].op = "clk_en" /\ "adc" \in calls'[1].arg
    BY <1>3 DEF ClkEn, Wr
  <2> QED  BY <1>1, <2>1, <2>2, OpensClocked
<1>9. Sampling'
  <2>1. None(AdmuxOps)'  BY <1>5 DEF None, AdmuxOps
  <2> QED  BY <1>1, <2>1, KeepsSampling
<1>10. Programmed'
  <2>1. None({"slot"})'  BY <1>5 DEF None
  <2> QED  BY <1>1, <2>1, KeepsProgrammed
<1>11. HalTypes'  BY <1>1, <1>3, CallTypes DEF HalInv, HalTypes
<1> QED  BY <1>7, <1>8, <1>9, <1>10, <1>11 DEF HalInv

(* adc_shutdown. *)
LEMMA AdcDownKeeps ==
  ASSUME HalInv, AdcDown
  PROVE  HalInv'
<1>1. /\ calls = <<>> /\ calls' = AdcShutdown /\ up' = up \ {"adc"} /\ "adc" \in up
      /\ UNCHANGED <<uses, hw, hlinked, wanted, fresh, crossed, setups, prog>>
  BY DEF AdcDown, HalCall, HalStart, Closes, NoAdc, NoTimer
<1>2. /\ Wr("adc", "id", {"adc"}) \in Writes /\ Wr("adc", "adoff", {}) \in Writes
      /\ ClkDis("adc") \in Writes
  BY DEF Wr, Writes, ClkDis, HalOps, HalUnits, ArgBits, HalIrqs, PmuOps, AdmuxOps
<1>3. /\ Len(calls') = 3 /\ calls'[1] = Wr("adc", "id", {"adc"})
      /\ calls'[2] = Wr("adc", "adoff", {}) /\ calls'[3] = ClkDis("adc")
      /\ calls' \in Seq(Writes)
  BY <1>1, <1>2 DEF AdcShutdown
<1>4. "adc" \in hw.clk  BY <1>1, Between
<1>5. \A j \in 1 .. Len(calls') :
        /\ calls'[j].op \in {"id", "adoff", "clk_dis"}
        /\ calls'[j].op = "id" => calls'[j].unit = "adc"
        /\ calls'[j].op = "clk_dis" => j = Len(calls') /\ calls'[j].arg = {"adc"}
  BY <1>3 DEF Wr, ClkDis
<1>7. HandlersLinked'
  <2>1. None({"ie"})'  BY <1>5 DEF None
  <2> QED  BY <1>1, <1>3, <1>4, <1>5, <2>1, ShutdownHandlers
<1>8. Clocked'
  <2>1. \A j \in 1 .. Len(calls') : calls'[j].op = "clk_dis" =>
          j = Len(calls') /\ calls'[j].arg \cap {"uart", "adc"} \subseteq {"adc"}
    BY <1>5
  <2> QED  BY <1>1, <2>1, ClosesClocked
<1>9. Sampling'
  <2>1. None(AdmuxOps)'  BY <1>5 DEF None, AdmuxOps
  <2> QED  BY <1>1, <2>1, KeepsSampling
<1>10. Programmed'
  <2>1. None({"slot"})'  BY <1>5 DEF None
  <2> QED  BY <1>1, <2>1, KeepsProgrammed
<1>11. HalTypes'  BY <1>1, <1>3, CallTypes DEF HalInv, HalTypes
<1> QED  BY <1>7, <1>8, <1>9, <1>10, <1>11 DEF HalInv

(* timer_setup, on its own or through pwm_setup. *)
LEMMA TimerUpKeeps ==
  ASSUME HalInv, NEW c \in Channels, NEW mode \in Modes, NEW b \in BOOLEAN, TimerUp(c, mode, b)
  PROVE  HalInv'
<1>1. /\ calls = <<>> /\ calls' = TimerSetup(c, mode, b) /\ up' = up \cup {c}
      /\ UNCHANGED <<uses, hw, hlinked, wanted, fresh, crossed, prog>>
  BY DEF TimerUp, HalCall, HalStart, Opens, NoAdc
<1>2. /\ ClkEn("tmr") \in Writes /\ ConfigMode(mode) \in Writes
      /\ Link(c) \in Writes /\ Wr("tmr", "ie", {c}) \in Writes
  <2>1. mode \in SUBSET ArgBits
    <3>1. mode \subseteq UNION Modes  OBVIOUS
    <3>2. UNION Modes \subseteq ArgBits  BY DEF ArgBits
    <3> QED  BY <3>1, <3>2
  <2>4. {c} \in SUBSET ArgBits /\ {"tmr"} \in SUBSET ArgBits  BY DEF ArgBits, HalIrqs, HalUnits
  <2>2. /\ {"tmr", "cpu"} \subseteq HalUnits \cup {"cpu", "pmu"}
        /\ {"clk_en", "link", "ie", "mode_or"} \subseteq HalOps \ {"slot"}
    BY DEF HalUnits, HalOps, AdmuxOps, PmuOps
  <2>3. {"clk_en", "link", "ie", "mode_or"} \cap (PmuOps \cup {"key"}) = {}  BY DEF PmuOps
  <2> QED  BY <2>1, <2>2, <2>3, <2>4, WrIs DEF ClkEn, Link, ConfigMode
<1>3. /\ Len(calls') \in {2, 4} /\ calls'[1] = ClkEn("tmr")
      /\ Len(calls') = 2 => calls'[2] = ConfigMode(mode)
      /\ Len(calls') = 4 =>
           calls'[2] = Link(c) /\ calls'[3] = Wr("tmr", "ie", {c}) /\ calls'[4] = ConfigMode(mode)
      /\ calls' \in Seq(Writes)
  <2>1. CASE b  BY <1>1, <1>2, <2>1 DEF TimerSetup
  <2>2. CASE ~b  BY <1>1, <1>2, <2>2 DEF TimerSetup
  <2> QED  BY <2>1, <2>2
<1>5. \A j \in 1 .. Len(calls') :
        /\ calls'[j].op \in {"clk_en", "mode_or", "link", "ie"}
        /\ calls'[j].op = "ie" => j >= 2 /\ calls'[j - 1].op = "link" /\ calls'[j - 1].arg = calls'[j].arg
  <2>1. /\ calls'[1].op = "clk_en"
        /\ Len(calls') = 2 => calls'[2].op = "mode_or"
        /\ Len(calls') = 4 => /\ calls'[2].op = "link" /\ calls'[2].arg = {c}
                              /\ calls'[3].op = "ie" /\ calls'[3].arg = {c}
                              /\ calls'[4].op = "mode_or"
    BY <1>3 DEF Wr, Link, ClkEn, ConfigMode
  <2>2. Len(calls') \in {2, 4}  BY <1>3
  <2>3. CASE Len(calls') = 2  BY <2>1, <2>3
  <2>4. CASE Len(calls') = 4
    <3>1. \A j \in 1 .. Len(calls') : calls'[j].op \in {"clk_en", "mode_or", "link", "ie"}  BY <2>1, <2>4
    <3>2. \A j \in 1 .. Len(calls') :
            calls'[j].op = "ie" => j >= 2 /\ calls'[j - 1].op = "link" /\ calls'[j - 1].arg = calls'[j].arg
      <4>1. /\ calls'[1].op = "clk_en" /\ calls'[2].op = "link" /\ calls'[2].arg = {c}
            /\ calls'[3].op = "ie" /\ calls'[3].arg = {c} /\ calls'[4].op = "mode_or"
        BY <2>1, <2>4
      <4>2. \A j \in 1 .. Len(calls') : calls'[j].op = "ie" => j = 3 /\ j - 1 = 2 /\ j >= 2  BY <2>4, <4>1
      <4> QED  BY <4>1, <4>2
    <3> QED  BY <3>1, <3>2
  <2> QED  BY <2>2, <2>3, <2>4
<1>7. HandlersLinked'
  <2>1. None({"unlink", "id"})'  BY <1>5 DEF None
  <2> QED  BY <1>1, <1>3, <1>5, <2>1, SetupHandlers
<1>8. Clocked'
  <2>1. None({"clk_dis"})'  BY <1>5 DEF None
  <2>2. up' \cap {"uart", "adc"} \subseteq up  BY <1>1 DEF Channels
  <2> QED  BY <1>1, <2>1, <2>2, KeepsClocked
<1>9. Sampling'
  <2>1. None(AdmuxOps)'  BY <1>5 DEF None, AdmuxOps
  <2> QED  BY <1>1, <2>1, KeepsSampling
<1>10. Programmed'
  <2>1. None({"slot"})'  BY <1>5 DEF None
  <2> QED  BY <1>1, <2>1, KeepsProgrammed
<1>11. HalTypes'  BY <1>1, <1>3, CallTypes DEF HalInv, HalTypes
<1> QED  BY <1>7, <1>8, <1>9, <1>10, <1>11 DEF HalInv

(* timer_shutdown: where the clock is off, crossed says so. *)
LEMMA TimerDownKeeps ==
  ASSUME HalInv, NEW c \in Channels, TimerDown(c)
  PROVE  HalInv'
<1>1. /\ calls = <<>> /\ calls' = TimerShutdown(c) /\ up' = up \ {c}
      /\ UNCHANGED <<uses, hw, hlinked, wanted, fresh, setups, prog>>
      /\ crossed' = (crossed \/ "tmr" \notin hw.clk)
  BY DEF TimerDown, HalCall, HalStart, Closes, NoAdc
<1>2. /\ ConfigMode({}) \in Writes /\ Wr("tmr", "id", {c}) \in Writes
      /\ Unlink(c) \in Writes /\ ClkDis("tmr") \in Writes
  BY DEF Wr, Writes, ClkDis, Unlink, ConfigMode, HalOps, HalUnits, ArgBits, HalIrqs, PmuOps, AdmuxOps
<1>3. /\ Len(calls') = 4 /\ calls'[1] = ConfigMode({}) /\ calls'[2] = Wr("tmr", "id", {c})
      /\ calls'[3] = Unlink(c) /\ calls'[4] = ClkDis("tmr")
      /\ calls' \in Seq(Writes)
  BY <1>1, <1>2 DEF TimerShutdown
<1>5. \A j \in 1 .. Len(calls') :
        /\ calls'[j].op \in {"mode_or", "id", "unlink", "clk_dis"}
        /\ calls'[j].op = "unlink" => j >= 2 /\ calls'[j - 1].op = "id" /\ calls'[j - 1].arg = calls'[j].arg
        /\ calls'[j].op = "id" => calls'[j].unit = "tmr"
        /\ calls'[j].op = "clk_dis" => j = Len(calls') /\ calls'[j].arg = {"tmr"}
  <2>1. /\ calls'[1].op = "mode_or" /\ calls'[2].op = "id" /\ calls'[2].unit = "tmr" /\ calls'[2].arg = {c}
        /\ calls'[3].op = "unlink" /\ calls'[3].arg = {c}
        /\ calls'[4].op = "clk_dis" /\ calls'[4].arg = {"tmr"}
    BY <1>3 DEF Wr, Unlink, ClkDis, ConfigMode
  <2>2. Len(calls') = 4  BY <1>3
  <2> QED  BY <2>1, <2>2
<1>6. crossed' \in BOOLEAN /\ (crossed => crossed') /\ (crossed' \/ "tmr" \in hw.clk)  BY <1>1
<1>7. HandlersLinked'
  <2>1. None({"ie"})'  BY <1>5 DEF None
  <2> QED  BY <1>1, <1>3, <1>5, <1>6, <2>1, ShutdownHandlers
<1>8. Clocked'
  <2>1. \A j \in 1 .. Len(calls') : calls'[j].op = "clk_dis" =>
          j = Len(calls') /\ calls'[j].arg \cap {"uart", "adc"} \subseteq {c}
    BY <1>5
  <2> QED  BY <1>1, <2>1, ClosesClocked
<1>9. Sampling'
  <2>1. None(AdmuxOps)'  BY <1>5 DEF None, AdmuxOps
  <2> QED  BY <1>1, <2>1, KeepsSampling
<1>10. Programmed'
  <2>1. None({"slot"})'  BY <1>5 DEF None
  <2> QED  BY <1>1, <2>1, KeepsProgrammed
<1>11. HalTypes'  BY <1>1, <1>3, <1>6, CallTypes DEF HalInv, HalTypes
<1> QED  BY <1>7, <1>8, <1>9, <1>10, <1>11 DEF HalInv

(* pwm_set: one write. *)
LEMMA PwmValueKeeps ==
  ASSUME HalInv, NEW c \in Channels, PwmValue(c)
  PROVE  HalInv'
<1>1. /\ calls = <<>> /\ calls' = PwmSet(c)
      /\ UNCHANGED <<uses, hw, hlinked, up, wanted, fresh, crossed, setups, prog>>
  BY DEF PwmValue, HalCall, HalStart, NoAdc, NoTimer
<1>2. Wr("tmr", "com_or", {c}) \in Writes
  BY DEF Wr, Writes, HalOps, HalUnits, ArgBits, HalIrqs, PmuOps, AdmuxOps
<1>3. /\ Len(calls') = 1 /\ calls'[1] = Wr("tmr", "com_or", {c}) /\ calls' \in Seq(Writes)
  BY <1>1, <1>2 DEF PwmSet
<1>5. \A j \in 1 .. Len(calls') : calls'[j].op = "com_or"  BY <1>3 DEF Wr
<1>7. HandlersLinked'
  <2>1. None({"ie", "unlink", "id"})'  BY <1>5 DEF None
  <2> QED  BY <1>1, <2>1, KeepsHandlers
<1>8. Clocked'
  <2>1. None({"clk_dis"})'  BY <1>5 DEF None
  <2> QED  BY <1>1, <2>1, KeepsClocked
<1>9. Sampling'
  <2>1. None(AdmuxOps)'  BY <1>5 DEF None, AdmuxOps
  <2> QED  BY <1>1, <2>1, KeepsSampling
<1>10. Programmed'
  <2>1. None({"slot"})'  BY <1>5 DEF None
  <2> QED  BY <1>1, <2>1, KeepsProgrammed
<1>11. HalTypes'  BY <1>1, <1>3, CallTypes DEF HalInv, HalTypes
<1> QED  BY <1>7, <1>8, <1>9, <1>10, <1>11 DEF HalInv

(* adc_config_pin. *)
LEMMA AdcConfigKeeps ==
  ASSUME HalInv, NEW pin \in AdcPins, NEW res \in {8, 10}, NEW ref \in Refs, AdcConfig(pin, res, ref)
  PROVE  HalInv'
<1>1. /\ calls = <<>> /\ calls' = AdcConfigPin(pin, res, ref) /\ "adc" \in up /\ fresh
      /\ UNCHANGED <<uses, hw, hlinked, up, crossed, setups, prog>>
      /\ wanted' = [pin |-> pin, res |-> res, ref |-> ref] /\ fresh' = FALSE
  BY DEF AdcConfig, HalCall, HalStart, NoTimer
<1>2. wanted'.pin = pin /\ wanted'.res = res /\ wanted'.ref = ref  BY <1>1
<1>3. pin \cap AdmuxBits = {} /\ ref \subseteq RefBits  BY HalConstants DEF AdmuxBits, Refs, RefBits
<1>4. /\ Wr("adc", "admux_or", ref) \in Writes /\ Wr("adc", "admux", {"adlar"}) \in Writes
      /\ Wr("adc", "admux_or", pin) \in Writes /\ Wr("adc", "start", {}) \in Writes
  <2>1. pin \in SUBSET ArgBits /\ ref \in SUBSET ArgBits /\ {"adlar"} \in SUBSET ArgBits
        /\ {} \in SUBSET ArgBits
    BY <1>3 DEF ArgBits, AdmuxBits
  <2>2. /\ "adc" \in HalUnits \cup {"cpu", "pmu"}
        /\ {"admux_or", "admux", "start"} \subseteq HalOps \ {"slot"}
    BY DEF HalUnits, HalOps, AdmuxOps, PmuOps
  <2>3. {"admux_or", "admux", "start"} \cap (PmuOps \cup {"key"}) = {}  BY DEF PmuOps
  <2> QED  BY <2>1, <2>2, <2>3, WrIs
<1>5. /\ calls' \in Seq(Writes)
      /\ res = 8 => /\ Len(calls') = 4
                    /\ calls'[1] = Wr("adc", "admux_or", ref)
                    /\ calls'[2] = Wr("adc", "admux", {"adlar"})
                    /\ calls'[3] = Wr("adc", "admux_or", pin) /\ calls'[4] = Wr("adc", "start", {})
      /\ res = 10 => /\ Len(calls') = 3
                     /\ calls'[1] = Wr("adc", "admux_or", ref)
                     /\ calls'[2] = Wr("adc", "admux_or", pin) /\ calls'[3] = Wr("adc", "start", {})
  BY <1>1, <1>4 DEF AdcConfigPin
<1>6. \A j \in 1 .. Len(calls') :
        calls'[j].unit = "adc" /\ calls'[j].op \in {"admux_or", "admux", "start"}
  <2>1. res = 8 => /\ calls'[1].op = "admux_or" /\ calls'[1].unit = "adc"
                   /\ calls'[2].op = "admux" /\ calls'[2].unit = "adc"
                   /\ calls'[3].op = "admux_or" /\ calls'[3].unit = "adc"
                   /\ calls'[4].op = "start" /\ calls'[4].unit = "adc"
    BY <1>5 DEF Wr
  <2>2. res = 10 => /\ calls'[1].op = "admux_or" /\ calls'[1].unit = "adc"
                    /\ calls'[2].op = "admux_or" /\ calls'[2].unit = "adc"
                    /\ calls'[3].op = "start" /\ calls'[3].unit = "adc"
    BY <1>5 DEF Wr
  <2> QED  BY <1>5, <2>1, <2>2
<1>7. HandlersLinked'
  <2>1. None({"ie", "unlink", "id"})'  BY <1>6 DEF None
  <2> QED  BY <1>1, <2>1, KeepsHandlers
<1>8. Clocked'
  <2>1. None({"clk_dis"})'  BY <1>6 DEF None
  <2> QED  BY <1>1, <2>1, KeepsClocked
<1>9. Sampling'
  <2>1. "adc" \in hw.clk /\ hw.admux \cap AdmuxBits = {}  BY <1>1, Between
  <2>2. Coming("admux_and")' = {}  BY <1>6 DEF Coming
  <2>3. Coming("start")' # {}
    <3>1. Len(calls') \in 1 .. Len(calls') /\ calls'[Len(calls')].op = "start"  BY <1>5 DEF Wr
    <3> QED  BY <3>1 DEF Coming
  <2>4. CASE res = 8
    <3>1. /\ Len(calls') = 4 /\ calls'[1].op = "admux_or"
          /\ calls'[2].op = "admux" /\ calls'[2].arg = {"adlar"}
          /\ calls'[3].op = "admux_or" /\ calls'[3].arg = pin /\ calls'[4].op = "start"
      BY <1>5, <2>4 DEF Wr
    <3> QED  BY <1>1, <1>2, <1>3, <1>6, <2>1, <2>2, <2>3, <2>4, <3>1 DEF Sampling
  <2>5. CASE res = 10
    <3>1. /\ Len(calls') = 3 /\ calls'[1].op = "admux_or" /\ calls'[1].arg = ref
          /\ calls'[2].op = "admux_or" /\ calls'[2].arg = pin /\ calls'[3].op = "start"
      BY <1>5, <2>5 DEF Wr
    <3> QED  BY <1>1, <1>2, <1>3, <1>6, <2>1, <2>2, <2>3, <2>5, <3>1 DEF Sampling
  <2> QED  BY <2>4, <2>5
<1>10. Programmed'
  <2>1. None({"slot"})'  BY <1>6 DEF None
  <2> QED  BY <1>1, <2>1, KeepsProgrammed
<1>11. HalTypes'  BY <1>1, <1>5, CallTypes DEF HalInv, HalTypes
<1> QED  BY <1>7, <1>8, <1>9, <1>10, <1>11 DEF HalInv

(* adc_read: ADMUX is cleared for the next pin. *)
LEMMA AdcResultKeeps ==
  ASSUME HalInv, AdcResult
  PROVE  HalInv'
<1>1. /\ calls = <<>> /\ calls' = AdcRead /\ "adc" \in up
      /\ UNCHANGED <<uses, hw, hlinked, up, wanted, crossed, setups, prog>> /\ fresh' = TRUE
  BY DEF AdcResult, HalCall, HalStart, NoTimer
<1>2. Wr("adc", "admux_and", AdmuxBits) \in Writes
  BY DEF Wr, Writes, HalOps, HalUnits, ArgBits, PmuOps, AdmuxOps
<1>3. /\ Len(calls') = 1 /\ calls'[1] = Wr("adc", "admux_and", AdmuxBits) /\ calls' \in Seq(Writes)
  BY <1>1, <1>2 DEF AdcRead, AdmuxBits
<1>5. \A j \in 1 .. Len(calls') :
        calls'[j].op = "admux_and" /\ calls'[j].unit = "adc" /\ calls'[j].arg = AdmuxBits
  BY <1>3 DEF Wr
<1>7. HandlersLinked'
  <2>1. None({"ie", "unlink", "id"})'  BY <1>5 DEF None
  <2> QED  BY <1>1, <2>1, KeepsHandlers
<1>8. Clocked'
  <2>1. None({"clk_dis"})'  BY <1>5 DEF None
  <2> QED  BY <1>1, <2>1, KeepsClocked
<1>9. Sampling'
  <2>1. Coming("start")' = {} /\ Coming("admux_and")' # {}  BY <1>3, <1>5 DEF Coming
  <2>2. \A j \in Coming("admux_and")' : calls'[j].arg = AdmuxBits  BY <1>5 DEF Coming
  <2>3. \A j \in 1 .. Len(calls') : calls'[j].op \notin {"admux_or", "admux"}  BY <1>5
  <2>4. /\ "adc" \in hw.clk /\ wanted.pin \cap AdmuxBits = {} /\ wanted.ref \subseteq RefBits
        /\ wanted.res = 8 => hw.conv = {"adlar"} \cup wanted.pin
        /\ wanted.res = 10 => "adlar" \notin hw.conv /\ hw.conv \cap RefBits = wanted.ref
    BY <1>1, Between
  <2> QED  BY <1>1, <1>5, <2>1, <2>2, <2>3, <2>4 DEF Sampling
<1>10. Programmed'
  <2>1. None({"slot"})'  BY <1>5 DEF None
  <2> QED  BY <1>1, <2>1, KeepsProgrammed
<1>11. HalTypes'  BY <1>1, <1>3, CallTypes DEF HalInv, HalTypes
<1> QED  BY <1>7, <1>8, <1>9, <1>10, <1>11 DEF HalInv
(* aon_pmusleep_program and aon_pmuwake_program: every slot of the program has *)
(* its write, and every write its key.                                         *)
LEMMA ProgramKeeps ==
  ASSUME HalInv, NEW p \in Programs, NEW k \in Kinds, Program(k, p)
  PROVE  HalInv'
<1>1. /\ calls = <<>> /\ calls' = PmuProgram(k, p) /\ ~hw.asleep
      /\ UNCHANGED <<uses, hw, hlinked, up, wanted, fresh, crossed, setups>>
      /\ prog' = [prog EXCEPT ![k] = p]
  BY DEF Program, PmuCall, HalStart, NoAdc, NoTimer
<1>2. PmuSize \in Nat /\ p = [i \in 1 .. PmuSize |-> p[i]]  BY HalConstants
<1>3. prog \in Slots /\ \A i \in 1 .. PmuSize : p[i] \in Values  BY DEF HalInv, HalTypes, Values
<1>4. p \in [1 .. PmuSize -> Values]  BY <1>2, <1>3
<1>5. prog' \in Slots /\ prog'[k] = p /\ \A k2 \in Kinds : k2 # k => prog'[k2] = prog[k2]
  BY <1>1, <1>3, <1>4 DEF Slots
<1>6. PmuUnlock \in Writes /\ PmuUnlock.op = "key"
  BY DEF PmuUnlock, Wr, Writes, HalOps, HalUnits, PmuOps, AdmuxOps
<1>7. ASSUME NEW i \in 1 .. PmuSize
      PROVE  /\ Wr("pmu", "slot", <<k, i, p[i]>>) \in Writes
             /\ Wr("pmu", "slot", <<k, i, p[i]>>).op = "slot"
             /\ Wr("pmu", "slot", <<k, i, p[i]>>).arg = <<k, i, p[i]>>
  <2>1. <<k, i, p[i]>> \in Kinds \X (1 .. PmuSize) \X Values  BY <1>3
  <2>2. "slot" \in HalOps /\ "pmu" \in HalUnits \cup {"cpu", "pmu"}  BY DEF HalOps, PmuOps
  <2>3. Wr("pmu", "slot", <<k, i, p[i]>>) = [unit |-> "pmu", op |-> "slot", arg |-> <<k, i, p[i]>>]  BY DEF Wr
  <2>4. ASSUME NEW a \in Kinds \X (1 .. PmuSize) \X Values
        PROVE  [unit |-> "pmu", op |-> "slot", arg |-> a] \in Writes
    <3>1. a \in (SUBSET ArgBits) \cup (Kinds \X (1 .. PmuSize) \X Values)  OBVIOUS
    <3>2. [unit |-> "pmu", op |-> "slot", arg |-> a] \in
            [unit : HalUnits \cup {"cpu", "pmu"}, op : HalOps,
             arg : (SUBSET ArgBits) \cup (Kinds \X (1 .. PmuSize) \X Values)]
      BY <2>2, <3>1
    <3> QED  BY <3>2 DEF Writes
  <2> QED  BY <2>1, <2>3, <2>4
<1> DEFINE n == 2 * PmuSize
<1>8. \A j \in 1 .. n : j % 2 # 1 => /\ j \div 2 \in 1 .. PmuSize /\ j = 2 * (j \div 2)
                                     /\ j # 1 /\ (j - 1) % 2 = 1 /\ j - 1 \in 1 .. n
  BY <1>2
<1>9. n \in Nat /\ calls' \in [1 .. n -> Writes]  BY <1>1, <1>2, <1>6, <1>7, <1>8 DEF PmuProgram
<1>10. calls' \in Seq(Writes) /\ Len(calls') = n  BY <1>9
<1>11. \A j \in 1 .. n :
         calls'[j] = IF j % 2 = 1 THEN PmuUnlock ELSE Wr("pmu", "slot", <<k, j \div 2, p[j \div 2]>>)
  BY <1>1 DEF PmuProgram
<1> HIDE DEF n
<1>12. \A j \in 1 .. Len(calls') : calls'[j].op \in {"key", "slot"}
  <2>1. SUFFICES ASSUME NEW j \in 1 .. n PROVE calls'[j].op \in {"key", "slot"}  BY <1>10
  <2>2. CASE j % 2 = 1  BY <1>6, <1>11, <2>2
  <2>3. CASE j % 2 # 1
    <3>1. calls'[j] = Wr("pmu", "slot", <<k, j \div 2, p[j \div 2]>>)  BY <1>11, <2>3
    <3>2. j \div 2 \in 1 .. PmuSize  BY <1>8, <2>3
    <3> QED  BY <1>7, <3>1, <3>2
  <2> QED  BY <2>2, <2>3
<1>13. ASSUME NEW i \in 1 .. PmuSize
       PROVE  2 * i \in Coming("slot")' /\ calls'[2 * i].arg = <<k, i, p[i]>>
  <2>1. 2 * i \in 1 .. n /\ (2 * i) % 2 # 1 /\ (2 * i) \div 2 = i  BY <1>2 DEF n
  <2>2. calls'[2 * i] = Wr("pmu", "slot", <<k, i, p[i]>>)  BY <1>11, <2>1
  <2> QED  BY <1>7, <1>10, <2>1, <2>2 DEF Coming
<1>14. ASSUME NEW j \in Coming("slot")'
       PROVE  /\ \E i \in 1 .. PmuSize : calls'[j].arg = <<k, i, p[i]>>
              /\ j # 1 /\ calls'[j - 1].op = "key"
  <2>1. j \in 1 .. n /\ calls'[j].op = "slot"  BY <1>10 DEF Coming
  <2>2. j % 2 # 1  BY <1>6, <1>11, <2>1
  <2>3. j \div 2 \in 1 .. PmuSize /\ j # 1 /\ (j - 1) % 2 = 1 /\ j - 1 \in 1 .. n  BY <1>8, <2>1, <2>2
  <2>4. calls'[j] = Wr("pmu", "slot", <<k, j \div 2, p[j \div 2]>>)  BY <1>11, <2>1, <2>2
  <2>5. calls'[j - 1] = PmuUnlock  BY <1>11, <2>3
  <2> QED  BY <1>6, <1>7, <2>3, <2>4, <2>5
<1>15. HandlersLinked'
  <2>1. None({"ie", "unlink", "id"})'  BY <1>12 DEF None
  <2> QED  BY <1>1, <2>1, KeepsHandlers
<1>16. Clocked'
  <2>1. None({"clk_dis"})'  BY <1>12 DEF None
  <2> QED  BY <1>1, <2>1, KeepsClocked
<1>17. Sampling'
  <2>1. None(AdmuxOps)'  BY <1>12 DEF None, AdmuxOps
  <2> QED  BY <1>1, <2>1, KeepsSampling
<1>18. Programmed'
  <2>1. \A k2 \in Kinds, i \in 1 .. PmuSize : hw.slots[k2][i] = prog[k2][i]  BY <1>1, Between
  <2>2. ASSUME NEW k2 \in Kinds, NEW i \in 1 .. PmuSize
        PROVE  hw'.slots[k2][i] = prog'[k2][i]
               \/ \E j \in Coming("slot")' : calls'[j].arg = <<k2, i, prog'[k2][i]>>
    <3>1. CASE k2 = k  BY <1>5, <1>13, <3>1
    <3>2. CASE k2 # k  BY <1>1, <1>5, <2>1, <3>2
    <3> QED  BY <3>1, <3>2
  <2>3. ASSUME NEW j \in Coming("slot")'
        PROVE  /\ \E k2 \in Kinds, i \in 1 .. PmuSize : calls'[j].arg = <<k2, i, prog'[k2][i]>>
               /\ IF j = 1 THEN hw'.key ELSE calls'[j - 1].op = "key"
    BY <1>5, <1>14
  <2>4. ~hw'.asleep /\ Coming("sleep")' = {}  BY <1>1, <1>12 DEF Coming
  <2> QED  BY <2>2, <2>3, <2>4 DEF Programmed
<1>19. HalTypes'  BY <1>1, <1>5, <1>10 DEF HalInv, HalTypes
<1> QED  BY <1>15, <1>16, <1>17, <1>18, <1>19 DEF HalInv

(* The other calls of pmu.c write no slot. *)
LEMMA PmuKeeps ==
  ASSUME HalInv, (\E i \in 1 .. 2 : Irq(i)) \/ Sleep
  PROVE  HalInv'
<1>1. /\ calls = <<>>
      /\ UNCHANGED <<uses, hw, hlinked, up, wanted, fresh, crossed, setups, prog>>
  BY DEF Irq, Sleep, PmuCall, HalStart, NoAdc, NoTimer
<1>2. \E w \in Writes : calls' = <<PmuUnlock, w>> /\ w.op \in {"pmuie", "sleep"}
  <2>1. CASE Sleep
    <3>1. calls' = <<PmuUnlock, Wr("pmu", "sleep", {})>>
      BY <2>1 DEF Sleep, PmuCall, HalStart, PmuSleepTrigger
    <3>2. Wr("pmu", "sleep", {}) \in Writes /\ Wr("pmu", "sleep", {}).op = "sleep"
      BY DEF Wr, Writes, HalOps, HalUnits, PmuOps, AdmuxOps
    <3> QED  BY <3>1, <3>2
  <2>2. ASSUME NEW i \in 1 .. 2, Irq(i)
        PROVE  \E w \in Writes : calls' = <<PmuUnlock, w>> /\ w.op \in {"pmuie", "sleep"}
    <3>1. calls' = <<PmuUnlock, Wr("pmu", "pmuie", {i})>>  BY <2>2 DEF Irq, PmuCall, HalStart, PmuIe
    <3>2. i = 1 \/ i = 2  OBVIOUS
    <3>3. {i} \in SUBSET ArgBits  BY <3>2 DEF ArgBits
    <3>4. Wr("pmu", "pmuie", {i}) \in Writes /\ Wr("pmu", "pmuie", {i}).op = "pmuie"
      BY <3>3 DEF Wr, Writes, HalOps, HalUnits, PmuOps, AdmuxOps
    <3> QED  BY <3>1, <3>4
  <2> QED  BY <2>1, <2>2
<1>3. PICK w \in Writes : calls' = <<PmuUnlock, w>> /\ w.op \in {"pmuie", "sleep"}  BY <1>2
<1>4. PmuUnlock \in Writes /\ PmuUnlock.op = "key"
  BY DEF PmuUnlock, Wr, Writes, HalOps, HalUnits, PmuOps, AdmuxOps
<1>5. Len(calls') = 2 /\ calls'[1] = PmuUnlock /\ calls'[2] = w /\ calls' \in Seq(Writes)  BY <1>3, <1>4
<1>6. \A j \in 1 .. Len(calls') : calls'[j].op \in {"key", "pmuie", "sleep"}  BY <1>3, <1>4, <1>5
<1>7. HandlersLinked'
  <2>1. None({"ie", "unlink", "id"})'  BY <1>6 DEF None
  <2> QED  BY <1>1, <2>1, KeepsHandlers
<1>8. Clocked'
  <2>1. None({"clk_dis"})'  BY <1>6 DEF None
  <2> QED  BY <1>1, <2>1, KeepsClocked
<1>9. Sampling'
  <2>1. None(AdmuxOps)'  BY <1>6 DEF None, AdmuxOps
  <2> QED  BY <1>1, <2>1, KeepsSampling
<1>10. Programmed'
  <2>1. None({"slot"})'  BY <1>6 DEF None
  <2> QED  BY <1>1, <2>1, KeepsProgrammed
<1>11. HalTypes'  BY <1>1, <1>5, CallTypes DEF HalInv, HalTypes
<1> QED  BY <1>7, <1>8, <1>9, <1>10, <1>11 DEF HalInv

(* The PMU wakes the core: only the one bit changes. *)
LEMMA PmuWakeKeeps ==
  ASSUME HalInv, PmuWake
  PROVE  HalInv'
<1>1. /\ calls = <<>> /\ calls' = calls /\ hw' = [hw EXCEPT !.asleep = FALSE]
      /\ UNCHANGED <<uses, hlinked, up, wanted, fresh, crossed, setups, prog>>
  BY DEF PmuWake
<1>2. hw \in Registers  BY DEF HalInv, HalTypes
<1>3. /\ hw' \in Registers /\ ~hw'.asleep /\ hw'.clk = hw.clk /\ hw'.ie = hw.ie /\ hw'.admux = hw.admux
      /\ hw'.conv = hw.conv /\ hw'.slots = hw.slots
  BY <1>1, <1>2 DEF Registers
<1>4. Len(calls') = 0  BY <1>1
<1>5. \A op : Coming(op)' = {}  BY <1>4 DEF Coming
<1>6. HandlersLinked'
  <2>1. crossed' \/ hw'.ie \subseteq hlinked'  BY <1>1, <1>3, Between
  <2> QED  BY <1>5, <2>1 DEF HandlersLinked
<1>7. Clocked'
  <2>1. \A u \in {"uart", "adc"} \cap up' : u \in hw'.clk  BY <1>1, <1>3, Between
  <2> QED  BY <1>5, <2>1 DEF Clocked
<1>8. Sampling'
  <2>1. /\ fresh' => hw'.admux \cap AdmuxBits = {}
        /\ wanted'.pin \cap AdmuxBits = {} /\ wanted'.ref \subseteq RefBits
        /\ wanted'.res = 8 => hw'.conv = {"adlar"} \cup wanted'.pin
        /\ wanted'.res = 10 => "adlar" \notin hw'.conv /\ hw'.conv \cap RefBits = wanted'.ref
    BY <1>1, <1>3, Between
  <2>2. \A j \in 1 .. Len(calls') : FALSE  BY <1>4
  <2> QED  BY <1>5, <2>1, <2>2 DEF Sampling
<1>9. Programmed'
  <2>1. \A k \in Kinds, i \in 1 .. PmuSize : hw'.slots[k][i] = prog'[k][i]  BY <1>1, <1>3, Between
  <2> QED  BY <1>5, <2>1 DEF Programmed
<1>10. HalTypes'  BY <1>1, <1>3 DEF HalInv, HalTypes
<1> QED  BY <1>6, <1>7, <1>8, <1>9, <1>10 DEF HalInv

(* Nothing is set up and no call is under way at first. *)
LEMMA HalInitInv ==
  ASSUME HalInit
  PROVE  HalInv
<1>1. /\ hw = [clk |-> {}, ie |-> {}, admux |-> {}, aden |-> FALSE, conv |-> {}, mode |-> {},
               com |-> {}, en |-> {}, key |-> FALSE, pmuie |-> {}, asleep |-> FALSE,
               slots |-> [k \in {"sleep", "wake"} |-> [i \in 1 .. PmuSize |-> 0]]]
      /\ hlinked = {} /\ calls = <<>> /\ up = {} /\ prog = hw.slots
      /\ wanted = [pin |-> {}, res |-> 0, ref |-> {}]
      /\ fresh = TRUE /\ crossed = FALSE
  BY DEF HalInit
<1>2. [k \in {"sleep", "wake"} |-> [i \in 1 .. PmuSize |-> 0]] \in Slots  BY DEF Slots, Kinds, Values
<1>3. hw \in Registers  BY <1>1, <1>2 DEF Registers
<1>4. prog \in Slots  BY <1>1, <1>2
<1>5. Len(calls) = 0 /\ calls \in Seq(Writes)  BY <1>1
<1>6. \A op : Coming(op) = {}  BY <1>5 DEF Coming
<1>7. HandlersLinked
  <2>1. hw.ie \subseteq hlinked  BY <1>1
  <2> QED  BY <1>6, <2>1 DEF HandlersLinked
<1>8. Clocked  BY <1>1, <1>6 DEF Clocked
<1>9. Sampling
  <2>1. /\ hw.admux = {} /\ wanted.pin = {} /\ wanted.ref = {} /\ wanted.res # 8 /\ wanted.res # 10
    BY <1>1
  <2>2. \A j \in 1 .. Len(calls) : FALSE  BY <1>5
  <2> QED  BY <1>6, <2>1, <2>2 DEF Sampling
<1>10. Programmed  BY <1>1, <1>6 DEF Programmed
<1>11. HalTypes  BY <1>1, <1>3, <1>4, <1>5 DEF HalTypes
<1> QED  BY <1>7, <1>8, <1>9, <1>10, <1>11 DEF HalInv

(* One write of a call. *)
LEMMA WriteKeeps ==
  ASSUME HalInv, WriteOne
  PROVE  HalInv'
<1>1. HalTypes  BY DEF HalInv
<1>2. HalTypes'
  <2>1. calls' \in Seq(Writes) /\ hw' \in Registers /\ UNCHANGED <<crossed, fresh, prog>>  BY <1>1, WriteIs
  <2> QED  BY <1>1, <2>1 DEF HalTypes
<1> QED  BY <1>2, WriteHandlers, WriteClocked, WriteSampling, WriteProgrammed DEF HalInv

(* Every step of a call of uart.c, adc.c, timer.c, pwm.c and pmu.c. *)
LEMMA HalNextInv ==
  ASSUME HalInv, [HalNext]_halVars
  PROVE  HalInv'
<1>1. CASE WriteOne  BY <1>1, WriteKeeps
<1>2. CASE UartDown  BY <1>2, UartDownKeeps
<1>3. CASE AdcDown  BY <1>3, AdcDownKeeps
<1>4. CASE AdcResult  BY <1>4, AdcResultKeeps
<1>5. ASSUME NEW d \in {"tx", "rx", "trx"}, UartUp(d) PROVE HalInv'  BY <1>5, UartUpKeeps
<1>6. ASSUME NEW b \in BOOLEAN, AdcUp(b) PROVE HalInv'  BY <1>6, AdcUpKeeps
<1>7. ASSUME NEW pin \in AdcPins, NEW res \in {8, 10}, NEW ref \in Refs, AdcConfig(pin, res, ref)
      PROVE  HalInv'
  BY <1>7, AdcConfigKeeps
<1>8. ASSUME NEW c \in Channels, TimerDown(c) \/ PwmValue(c) PROVE HalInv'
  BY <1>8, TimerDownKeeps, PwmValueKeeps
<1>9. CASE UNCHANGED halVars
  BY <1>9 DEF halVars, HalInv, HalTypes, HandlersLinked, Clocked, Sampling, Programmed, Coming
<1>10. ASSUME NEW c \in Channels, NEW mode \in Modes, NEW b \in BOOLEAN, TimerUp(c, mode, b)
       PROVE  HalInv'
  BY <1>10, TimerUpKeeps
<1>11. ASSUME NEW c \in Channels, NEW mode \in Modes, NEW b \in BOOLEAN, PwmUp(c, mode, b)
       PROVE  HalInv'
  <2>1. TimerUp(c, mode, FALSE) \/ UNCHANGED halVars  BY <1>11 DEF PwmUp
  <2> QED  BY <1>9, <1>10, <2>1
<1>12. ASSUME NEW p \in Programs, NEW k \in {"sleep", "wake"}, Program(k, p) PROVE HalInv'
  BY <1>12, ProgramKeeps DEF Kinds
<1>13. CASE (\E i \in 1 .. 2 : Irq(i)) \/ Sleep  BY <1>13, PmuKeeps
<1>14. CASE PmuWake  BY <1>14, PmuWakeKeeps
<1> QED
  BY <1>1, <1>2, <1>3, <1>4, <1>5, <1>6, <1>7, <1>8, <1>9, <1>10, <1>11, <1>12, <1>13, <1>14 DEF HalNext

(* What the invariant says of the registers. *)
LEMMA HalInvSafe ==
  ASSUME HalInv
  PROVE  HalSafe
<1>1. crossed \/ \A i \in hw.ie : UnitOf[i] \in hw.clk => i \in hlinked
  BY DEF HalInv, HandlersLinked
<1>2. ASSUME HalDone PROVE /\ wanted.res = 8 => hw.conv = {"adlar"} \cup wanted.pin
                           /\ wanted.res = 10 => "adlar" \notin hw.conv /\ hw.conv \cap RefBits = wanted.ref
  BY <1>2, Between DEF HalDone
<1>4. ASSUME HalDone, wanted.res = 8
      PROVE  "adlar" \in hw.conv /\ hw.conv \ (RefBits \cup {"adlar"}) = wanted.pin
  <2>1. wanted.pin \cap AdmuxBits = {} /\ hw.conv = {"adlar"} \cup wanted.pin
    BY <1>4, Between DEF HalDone
  <2> QED  BY <2>1 DEF AdmuxBits
<1>3. ASSUME HalDone \/ hw.asleep PROVE hw.slots = prog
  <2>1. hw.slots \in Slots /\ prog \in Slots  BY DEF HalInv, HalTypes, Registers
  <2>2. \A k \in Kinds, i \in 1 .. PmuSize : hw.slots[k][i] = prog[k][i]
    <3>1. CASE HalDone  BY <3>1, Between DEF HalDone
    <3>2. CASE hw.asleep  BY <3>2 DEF HalInv, Programmed
    <3> QED  BY <1>3, <3>1, <3>2
  <2>3. ASSUME NEW k \in Kinds PROVE hw.slots[k] = prog[k]
    <3>1. hw.slots[k] \in [1 .. PmuSize -> Values] /\ prog[k] \in [1 .. PmuSize -> Values]
      BY <2>1 DEF Slots
    <3>2. \A i \in 1 .. PmuSize : hw.slots[k][i] = prog[k][i]  BY <2>2
    <3> DEFINE f == hw.slots[k]
               g == prog[k]
               D == 1 .. PmuSize
    <3>3. f \in [D -> Values] /\ g \in [D -> Values] /\ \A i \in D : f[i] = g[i]  BY <3>1, <3>2
    <3> HIDE DEF f, g, D
    <3>4. f = g  BY <3>3
    <3> QED  BY <3>4 DEF f, g
  <2> QED  BY <2>1, <2>3 DEF Slots
<1> QED  BY <1>1, <1>2, <1>3, <1>4 DEF HalSafe

(* The units behind uart.c, adc.c, timer.c, pwm.c and pmu.c, for every set of   *)
(* pins, modes and programs and every length of a program: an interrupt that    *)
(* can come has a handler whichever write of a call it interrupts, until a      *)
(* channel of the timer is shut down with the timer's clock off; an 8 bit       *)
(* conversion is of the pin asked for and a 10 bit one against the reference    *)
(* asked for; and the core sleeps with the programs asked for.                  *)
THEOREM HalCorrect == HalSpec => []HalSafe
<1>1. HalInit => HalInv  BY HalInitInv
<1>2. HalInv /\ [HalNext]_halVars => HalInv'  BY HalNextInv
<1>3. HalInv => HalSafe  BY HalInvSafe
<1> QED  BY <1>1, <1>2, <1>3, PTL DEF HalSpec
=============================================================================
