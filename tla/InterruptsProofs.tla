--------------------------- MODULE InterruptsProofs ---------------------------
(***************************************************************************)
(* Proofs about what runs against interrupts: the PLIC driver with the     *)
(* interrupt controller device, the traps and critical sections of the     *)
(* three ports, and the boot with the watchdog that may start it again.    *)
(*                                                                         *)
(* And proofs about the consoles: the receive ring of the serial driver    *)
(* for every ring length, width of occ and FIFO depth; the console device  *)
(* with its drivers and the log buffer, for every size of the buffer; and  *)
(* the reads of mega_avr's serial console.                                 *)
(***************************************************************************)
EXTENDS Plic, Traps, Watchdog, ConsoleRing, Stdcon, AvrConsole,
        FiniteSetTheorems, SequenceTheorems, WellFoundedInduction, TLAPS

-----------------------------------------------------------------------------
(* The PLIC driver. *)

PTypes ==
  /\ port \in {"null", "live", "freed"} /\ plicTab \in {"null", "live", "freed"}
  /\ started \subseteq {"plic", "pcpu"}
  /\ ic \in BOOLEAN /\ mei \in BOOLEAN /\ plicLink \in BOOLEAN /\ refused \in BOOLEAN
  /\ enabled \subseteq Devs /\ latched \subseteq Devs
  /\ prio \in [Devs -> 0..1] /\ handler \in [Devs -> {"driver", "panic"}]
  /\ thr \in {Idle} \cup ({"enable", "ie", "off", "unlink"} \X Devs)
  /\ hpc \in {Idle, <<"claim", 0>>} \cup ({"complete", "call"} \X Devs)
  /\ harm \in {"none", "dangling"}

(* What the steps of the thread keep between an id and its handler: an id  *)
(* that is enabled has a driver's handler, also half way through           *)
(* uart_setup and uart_shutdown.                                           *)
HandlersLinked ==
  /\ \A d \in enabled : handler[d] = "driver"
  /\ ic /\ thr[1] = "enable" => handler[thr[2]] = "driver"
  /\ ic /\ thr[1] \in {"off", "unlink"} => thr[2] \notin enabled

(* plic_irqhandler runs only when it was linked, finds something to claim, *)
(* and what it claimed has a driver's handler until it calls it.           *)
HandlerServes ==
  /\ mei => plicLink
  /\ hpc[1] = "claim" => Claimable # {}
  /\ hpc[1] \in {"complete", "call"} => handler[hpc[2]] = "driver"

(* As long as memory is not refused, the port is live exactly while the    *)
(* driver is set up, and interrupts come only in between.                  *)
PortLive ==
  /\ "pcpu" \in started => "plic" \in started
  /\ ~refused =>
       /\ "plic" \in started => port = "live" /\ plicTab = "live"
       /\ "plic" \notin started => port # "live"
       /\ mei => "pcpu" \in started
       /\ hpc[1] = "claim" => port = "live"
  /\ harm = "dangling" => refused

PlicInv == PTypes /\ HandlersLinked /\ HandlerServes /\ PortLive

(* A set of natural numbers has a least element: the claim register has an *)
(* answer whenever something is pending.                                   *)
LEMMA LeastExists ==
  ASSUME NEW S \in SUBSET Nat, S # {}
  PROVE  MinId(S) \in S
<1> DEFINE R == StrictSubsetOrdering(Nat)
           T == {0 .. n : n \in S}
<1>1. T \subseteq FiniteSubsetsOf(Nat) /\ T # {}
  <2>1. \A n \in S : 0 .. n \subseteq Nat /\ IsFiniteSet(0 .. n)
    BY FS_Interval
  <2> QED
    BY <2>1 DEF FiniteSubsetsOf
<1>2. PICK U \in T : \A V \in T : ~(<<V, U>> \in R)
  <2>1. IsWellFoundedOn(R, FiniteSubsetsOf(Nat))
    BY FS_StrictSubsetOrderingWellFounded
  <2> HIDE DEF R, T
  <2> QED
    BY <1>1, <2>1, WFMin
<1>3. PICK x \in S : U = 0 .. x
  OBVIOUS
<1>4. \A y \in S : x <= y
  <2> SUFFICES ASSUME NEW y \in S, y < x PROVE FALSE
    OBVIOUS
  <2>1. 0 .. y \subseteq 0 .. x /\ 0 .. y # 0 .. x /\ 0 .. x \subseteq Nat /\ 0 .. y \in T
    OBVIOUS
  <2> QED
    BY <1>2, <1>3, <2>1 DEF StrictSubsetOrdering
<1> QED
  BY <1>4 DEF MinId

(* What the claim register answers is a pending id that is enabled. *)
LEMMA ClaimAnswers ==
  ASSUME PTypes, Claimable # {}
  PROVE  PlicGetInterrupt \in Claimable
<1> DEFINE Best == {d \in Claimable : \A e \in Claimable : prio[e] <= prio[d]}
<1>1. \A d \in Claimable : d \in Devs /\ prio[d] = 1
  BY DEF Claimable, PTypes
<1>2. Best = Claimable
  BY <1>1
<1>3. MinId(Best) \in Best
  <2> HIDE DEF Best
  <2>1. Best \in SUBSET Nat /\ Best # {}
    BY <1>1, <1>2, PlicAssumption
  <2> QED
    BY <2>1, LeastExists
<1> QED
  BY <1>2, <1>3 DEF PlicGetInterrupt

(* The initial state satisfies the inductive invariant. *)
LEMMA PlicInit == PInit => PlicInv
<1> SUFFICES ASSUME PInit PROVE PlicInv
  OBVIOUS
<1> USE DEF PInit, Idle
<1>1. PTypes
  <2>1. prio \in [Devs -> 0..1] /\ handler \in [Devs -> {"driver", "panic"}]
    OBVIOUS
  <2>2. ic \in BOOLEAN /\ mei \in BOOLEAN /\ plicLink \in BOOLEAN /\ refused \in BOOLEAN
    OBVIOUS
  <2> QED
    BY <2>1, <2>2 DEF PTypes
<1>2. HandlersLinked /\ HandlerServes /\ PortLive
  BY DEF HandlersLinked, HandlerServes, PortLive
<1> QED
  BY <1>1, <1>2 DEF PlicInv

(* Every step of the hart, the PLIC and the thread keeps it. *)
LEMMA PlicStepKeeps ==
  ASSUME PlicInv, [PNext]_pvars
  PROVE  PlicInv'
<1> USE DEF PlicInv, PTypes, plicSw, plicHw, levels, devs
<1>1. ASSUME NEW d \in Devs, Latch(d) PROVE PlicInv'
  BY <1>1 DEF Latch, HandlersLinked, HandlerServes, PortLive, Claimable
<1>2. ASSUME NEW d \in Devs, Ask(d) PROVE PlicInv'
  BY <1>2 DEF Ask, HandlersLinked, HandlerServes, PortLive, Claimable
<1>3. ASSUME NEW d \in Devs, UartSetup(d) PROVE PlicInv'
  BY <1>3 DEF UartSetup, IcRegister, IcEnIrq, PlicRegisterIrqHandler, PlicIntEn, Idle,
              HandlersLinked, HandlerServes, PortLive, Claimable
<1>4. ASSUME NEW d \in Devs, UartShutdown(d) PROVE PlicInv'
  BY <1>4 DEF UartShutdown, IcRegister, IcDisIrq, PlicRegisterIrqHandler, PlicIntDis, Idle,
              HandlersLinked, HandlerServes, PortLive, Claimable
<1>5. ASSUME NEW p \in 0..1, NEW d \in Devs, IcSetPriorityOfIrq(d, p) PROVE PlicInv'
  BY <1>5 DEF IcSetPriorityOfIrq, PlicSetPriority, ThreadFree, Idle,
              HandlersLinked, HandlerServes, PortLive, Claimable
<1>6. ASSUME NEW p \in 0..1, IcSetAffinityOfCore(p) PROVE PlicInv'
  BY <1>6 DEF IcSetAffinityOfCore, PlicSetThreshold, HandlersLinked, HandlerServes, PortLive, Claimable
<1>7. CASE TakeExternal
  BY <1>7 DEF TakeExternal, Raised, Idle, HandlersLinked, HandlerServes, PortLive, Claimable
<1>8. CASE Claim
  <2>1. Claimable # {} /\ PlicGetInterrupt \in Claimable
    BY <1>8, ClaimAnswers DEF Claim, HandlerServes
  <2>2. PlicGetInterrupt \in Devs /\ PlicGetInterrupt \in enabled
    BY <2>1 DEF Claimable
  <2>3. PTypes'
    BY <1>8, <2>2 DEF Claim
  <2>4. HandlersLinked' /\ HandlerServes'
    BY <1>8, <2>2 DEF Claim, HandlersLinked, HandlerServes
  <2>5. PortLive'
    BY <1>8 DEF Claim, PortLive
  <2> QED
    BY <2>3, <2>4, <2>5
<1>9. CASE Complete
  BY <1>9 DEF Complete, PlicClrInterrupt, HandlersLinked, HandlerServes, PortLive, Claimable, Idle
<1>10. CASE CallHandler
  BY <1>10 DEF CallHandler, HandlersLinked, HandlerServes, PortLive, Claimable, Idle
<1>11. CASE PlicDriverSetup
  <2> USE DEF ThreadFree, Idle
  <2>1. CASE /\ port' = "live" /\ plicTab' = "live" /\ ic' = TRUE
             /\ enabled' = {} /\ prio' = [d \in Devs |-> 1] /\ UNCHANGED <<refused, harm>>
    <3>1. /\ prio' \in [Devs -> 0..1]
          /\ ic' \in BOOLEAN /\ mei' \in BOOLEAN
      <4>1. prio' \in [Devs -> 0..1]
        BY <2>1
      <4> QED
        BY <1>11, <2>1, <4>1 DEF PlicDriverSetup
    <3>2. PTypes' /\ HandlersLinked'
      BY <1>11, <2>1, <3>1 DEF PlicDriverSetup, HandlersLinked
    <3>3. HandlerServes' /\ PortLive'
      BY <1>11, <2>1 DEF PlicDriverSetup, HandlerServes, PortLive
    <3> QED
      BY <3>2, <3>3
  <2>2. CASE /\ port' \in {"null", "freed"} /\ plicTab' \in {"null", "freed"} /\ ic' = FALSE
             /\ harm' \in {harm, "dangling"} /\ refused' = TRUE /\ UNCHANGED <<enabled, prio>>
    BY <1>11, <2>2 DEF PlicDriverSetup, HandlersLinked, HandlerServes, PortLive
  <2> QED
    BY <1>11, <2>1, <2>2
       DEF PlicDriverSetup, PlicSetup, PlicDriverExit, Freed, IcAttachDevice, IcReleaseDevice
<1>12. CASE PlicDriverSetupPcpu
  BY <1>12 DEF PlicDriverSetupPcpu, ThreadFree, Idle, HandlersLinked, HandlerServes, PortLive
<1>13. CASE PlicDriverExitPcpu
  BY <1>13 DEF PlicDriverExitPcpu, ThreadFree, Idle, HandlersLinked, HandlerServes, PortLive, Claimable
<1>14. CASE ExitPlic
  BY <1>14 DEF ExitPlic, PlicDriverExit, Freed, IcReleaseDevice, ThreadFree, Idle,
               HandlersLinked, HandlerServes, PortLive, Claimable
<1>15. CASE UNCHANGED pvars
  BY <1>15 DEF pvars, HandlersLinked, HandlerServes, PortLive, Claimable
<1> QED
  BY <1>1, <1>2, <1>3, <1>4, <1>5, <1>6, <1>7, <1>8, <1>9, <1>10, <1>11, <1>12, <1>13, <1>14, <1>15
     DEF PNext, Panicked

(* For every set of devices: no external interrupt ends in the panic       *)
(* handler, whenever it comes while uart_setup, uart_shutdown and the two  *)
(* PLIC drivers are half way, and plic.c uses its port after the free only *)
(* when malloc had refused it memory.                                      *)
THEOREM PlicCorrect == PSpec => []PlicSafe
<1>1. PlicInv => PlicSafe
  BY DEF PlicInv, PTypes, PortLive, PlicSafe
<1> QED
  BY PlicInit, PlicStepKeeps, <1>1, PTL DEF PSpec

-----------------------------------------------------------------------------
(* Traps and critical sections. *)

(* What arch_di_save_state stores. *)
Saves == CASE arch = "riscv" -> SUBSET Irqs [] arch = "avr" -> BOOLEAN [] arch = "arm" -> {"nothing"}
Hart == [gie : BOOLEAN, prev : BOOLEAN, lie : SUBSET Irqs]
Act == [kind : {"thread", "irq", "vcall"}, pc : {"run", "epilogue"}, saved : Seq(Saves),
        home : Nat \X {"run", "epilogue"}, prev : BOOLEAN, frame : Nat, ops : Nat,
        ret : {"none", "own"}]

TTypes ==
  /\ arch \in {"riscv", "avr", "arm"} /\ hart \in Hart
  /\ acts \in Seq(Act) /\ acts # <<>>
  /\ answer \in {"none", "own"} /\ reopened \in BOOLEAN /\ halted \in {"no", "panic", "astray"}

(* riscv: while a section is open anywhere on the stack mie is empty, and  *)
(* only the outermost section saved anything, so an inner one that ends    *)
(* puts nothing back into mie.                                             *)
RvSections ==
  arch = "riscv" =>
    \A d \in DOMAIN acts :
      /\ acts[d].saved # <<>> => hart.lie = {}
      /\ \A k \in 1 .. Len(acts[d].saved) :
           acts[d].saved[k] # {} => k = 1 /\ \A e \in 1 .. d - 1 : acts[e].saved = <<>>

(* avr: only the running activation has sections, SREG.I is clear while it *)
(* has, and only its outermost one may have found it set.                  *)
AvrSections ==
  arch = "avr" =>
    /\ \A d \in DOMAIN acts : d < Len(acts) => acts[d].saved = <<>>
    /\ Top.saved # <<>> => ~hart.gie
    /\ \A k \in 1 .. Len(Top.saved) : Top.saved[k] => k = 1

(* Every trap keeps its own frame, and a visor call that returns has       *)
(* written its answer there.                                               *)
Frames ==
  \A d \in DOMAIN acts :
    /\ acts[d].kind = "vcall" => acts[d].frame = d
    /\ acts[d].pc = "epilogue" =>
         d > 1 /\ arch = "riscv" /\ (acts[d].kind = "vcall" => acts[d].ret = "own")

(* riscv, as long as no handler opened interrupts: they are off in every   *)
(* handler, so only the running one can be in EPILOGUE, with mepc its own. *)
Returns ==
  /\ arch = "riscv" /\ ~reopened =>
       /\ Len(acts) > 1 => ~hart.gie
       /\ \A d \in DOMAIN acts :
            /\ d > 2 => ~acts[d].prev
            /\ d < Len(acts) => acts[d].pc = "run"
       /\ Top.pc = "epilogue" => mepc = Top.home
  /\ halted = "astray" => arch = "riscv" /\ reopened

TrapsInv == TTypes /\ RvSections /\ AvrSections /\ Frames /\ Returns

(* What SetTop changes. *)
LEMMA SetTopIs ==
  ASSUME acts \in Seq(Act), acts # <<>>, NEW a \in Act
  PROVE  /\ Len(acts) \in Nat \ {0} /\ Top \in Act
         /\ SetTop(a) \in Seq(Act) /\ Len(SetTop(a)) = Len(acts)
         /\ SetTop(a)[Len(acts)] = a
         /\ \A d \in 1 .. Len(acts) : d # Len(acts) => SetTop(a)[d] = acts[d]
  BY DEF SetTop, Top

(* What arch_di_save_state stores and leaves. *)
LEMMA SaveIs ==
  ASSUME TTypes
  PROVE  /\ DiSaveState(hart)[1] \in Saves /\ DiSaveState(hart)[2] \in Hart
         /\ arch = "riscv" => /\ DiSaveState(hart)[1] = hart.lie
                              /\ DiSaveState(hart)[2].lie = {} /\ ~DiSaveState(hart)[2].gie
         /\ arch = "avr" => DiSaveState(hart)[1] = hart.gie /\ ~DiSaveState(hart)[2].gie
  BY DEF TTypes, DiSaveState, RvSave, AvrSave, ArmSave, RvDi, ArchDi, Saves, Hart

(* What arch_ei_restore_state makes of it. *)
LEMMA RestoreIs ==
  ASSUME TTypes, NEW s \in Saves
  PROVE  /\ EiRestoreState(hart, s) \in Hart
         /\ arch = "riscv" => EiRestoreState(hart, s).lie = hart.lie \cup s
         /\ arch = "avr" => EiRestoreState(hart, s).gie = (hart.gie \/ s)
  BY DEF TTypes, EiRestoreState, RvRestore, AvrRestore, ArmRestore, RvEi, Saves, Hart

(* What entering a trap does to the stack and to the switches. *)
LEMMA EnterIs ==
  ASSUME TTypes, NEW k \in {"irq", "vcall"}, Enter(k)
  PROVE  /\ acts' \in Seq(Act) /\ Len(acts) \in Nat \ {0} /\ Len(acts') = Len(acts) + 1
         /\ \A d \in 1 .. Len(acts) :
              /\ acts'[d].kind = acts[d].kind /\ acts'[d].pc = acts[d].pc
              /\ acts'[d].saved = acts[d].saved /\ acts'[d].prev = acts[d].prev
              /\ acts'[d].frame = acts[d].frame /\ acts'[d].ret = acts[d].ret
         /\ LET a == acts'[Len(acts) + 1] IN
              /\ a.kind = k /\ a.pc = "run" /\ a.saved = <<>> /\ a.prev = hart.gie
              /\ a.frame = Len(acts) + 1 /\ a.ret = "none"
         /\ hart' \in Hart /\ hart'.lie = hart.lie /\ (arch # "arm" => ~hart'.gie)
<1> DEFINE low == [Top EXCEPT !.ops = IF k = "vcall" THEN Ops ELSE @]
           new == Prologue(k)
<1>1. Top \in Act /\ Len(acts) \in Nat \ {0}
  BY DEF TTypes, Top
<1>2. low \in Act /\ \A f \in {"kind", "pc", "saved", "prev", "frame", "ret"} : low[f] = Top[f]
  BY <1>1 DEF Act, Ops
<1>3. new \in Act
  <2>1. Place \in Nat \X {"run", "epilogue"} /\ hart.gie \in BOOLEAN /\ <<>> \in Seq(Saves)
    BY <1>1 DEF Place, Act, TTypes, Hart
  <2> QED
    BY <1>1, <2>1 DEF Prologue, Act
<1>4. acts' = Append(SetTop(low), new)
  BY DEF Enter, ContextSave
<1> HIDE DEF low
<1>5. /\ SetTop(low) \in Seq(Act) /\ Len(SetTop(low)) = Len(acts) /\ SetTop(low)[Len(acts)] = low
      /\ \A d \in 1 .. Len(acts) : d # Len(acts) => SetTop(low)[d] = acts[d]
  BY <1>2, SetTopIs DEF TTypes
<1>6. /\ acts' \in Seq(Act) /\ Len(acts') = Len(acts) + 1
      /\ \A d \in 1 .. Len(acts) : acts'[d] = SetTop(low)[d]
      /\ acts'[Len(acts) + 1] = new
  <2> HIDE DEF new
  <2> QED
    BY <1>1, <1>3, <1>4, <1>5
<1>7. hart' \in Hart /\ hart'.lie = hart.lie /\ (arch # "arm" => ~hart'.gie)
  BY DEF Enter, TTypes, Hart
<1>8. \A d \in 1 .. Len(acts) :
        /\ acts'[d].kind = acts[d].kind /\ acts'[d].pc = acts[d].pc
        /\ acts'[d].saved = acts[d].saved /\ acts'[d].prev = acts[d].prev
        /\ acts'[d].frame = acts[d].frame /\ acts'[d].ret = acts[d].ret
  BY <1>1, <1>2, <1>5, <1>6 DEF Top
<1>9. LET a == acts'[Len(acts) + 1] IN
        /\ a.kind = k /\ a.pc = "run" /\ a.saved = <<>> /\ a.prev = hart.gie
        /\ a.frame = Len(acts) + 1 /\ a.ret = "none"
  BY <1>6 DEF Prologue
<1> QED
  BY <1>1, <1>6, <1>7, <1>8, <1>9

(* Entering a trap keeps the inductive invariant when no section of avr is *)
(* open and riscv is not between the halves of EPILOGUE.                   *)
LEMMA EnterKeeps ==
  ASSUME TrapsInv, NEW k \in {"irq", "vcall"}, Enter(k), UNCHANGED <<arch, reopened>>,
         arch = "avr" => Top.saved = <<>>,
         arch = "riscv" /\ ~reopened => Top.pc = "run",
         answer' \in {"none", "own"}, halted' \in {"no", "panic"}
  PROVE  TrapsInv'
<1> USE EnterIs DEF TrapsInv
<1>1. TTypes'
  <2>1. Act' = Act /\ Hart' = Hart
    BY DEF Act, Saves, Hart
  <2> QED
    BY <2>1 DEF TTypes
<1>2. DOMAIN acts = 1 .. Len(acts) /\ DOMAIN acts' = 1 .. Len(acts) + 1 /\ Len(acts) \in Nat \ {0}
  BY DEF TTypes
<1>3. RvSections'
  BY <1>2 DEF RvSections
<1>4. AvrSections'
  BY <1>2 DEF AvrSections, Top
<1>5. Frames'
  BY <1>2 DEF Frames
<1>6. Returns'
  BY <1>2 DEF Returns, Top
<1> QED
  BY <1>1, <1>3, <1>4, <1>5, <1>6

(* What leaving a trap does to the stack. *)
LEMMA PopIs ==
  ASSUME TTypes, Len(acts) > 1, acts' = SubSeq(acts, 1, Len(acts) - 1)
  PROVE  /\ acts' \in Seq(Act) /\ acts' # <<>> /\ Len(acts') = Len(acts) - 1 /\ Len(acts) \in Nat
         /\ \A d \in 1 .. Len(acts) - 1 : acts'[d] = acts[d]
<1>1. acts \in Seq(Act) /\ Len(acts) \in Nat /\ Len(acts) - 1 \in 1 .. Len(acts)
  BY DEF TTypes
<1>2. acts' \in Seq(Act) /\ Len(acts') = Len(acts) - 1
  BY <1>1
<1>3. \A d \in 1 .. Len(acts) - 1 : acts'[d] = acts[d]
  BY <1>1
<1>4. acts' # <<>>
  <2>1. Len(acts') # 0
    BY <1>1, <1>2
  <2> QED
    BY <2>1, EmptySeq, Zenon
<1> QED
  BY <1>1, <1>2, <1>3, <1>4

(* Leaving one keeps the inductive invariant. *)
LEMMA LeaveKeeps ==
  ASSUME TrapsInv, Len(acts) > 1, acts' = SubSeq(acts, 1, Len(acts) - 1),
         UNCHANGED <<arch, reopened>>, hart' \in Hart,
         arch = "riscv" => hart'.lie = hart.lie,
         arch = "riscv" /\ ~reopened => hart'.gie = Top.prev,
         arch = "riscv" => Top.pc = "epilogue",
         answer' \in {"none", "own"}, halted' \in {"no", "astray"},
         halted' = "astray" => arch = "riscv" /\ reopened
  PROVE  TrapsInv'
<1> USE PopIs DEF TrapsInv
<1>1. TTypes'
  <2>1. Act' = Act /\ Hart' = Hart
    BY DEF Act, Saves, Hart
  <2> QED
    BY <2>1 DEF TTypes
<1>2. DOMAIN acts = 1 .. Len(acts) /\ DOMAIN acts' = 1 .. Len(acts) - 1 /\ Len(acts) \in Nat
  BY DEF TTypes
<1>3. RvSections'
  BY <1>2 DEF RvSections
<1>4. AvrSections'
  BY <1>2 DEF AvrSections, Top
<1>5. Frames'
  BY <1>2 DEF Frames
<1>6. Returns'
  BY <1>2 DEF Returns, Top
<1> QED
  BY <1>1, <1>3, <1>4, <1>5, <1>6

(* The first state satisfies the inductive invariant. *)
LEMMA TrapsInit == TInit => TrapsInv
<1> SUFFICES ASSUME TInit PROVE TrapsInv
  OBVIOUS
<1>1. acts = <<Thread>> /\ Len(acts) = 1 /\ DOMAIN acts = {1} /\ acts[1] = Thread /\ Top = Thread
  BY DEF TInit, Top
<1>2. Thread \in Act
  <2>1. <<>> \in Seq(Saves) /\ <<0, "run">> \in Nat \X {"run", "epilogue"}
    OBVIOUS
  <2> QED
    BY <2>1 DEF Thread, Act
<1>3. TTypes
  <2>1. hart \in Hart /\ reopened \in BOOLEAN
    BY DEF TInit, Hart
  <2>2. acts \in Seq(Act) /\ acts # <<>>
    BY <1>1, <1>2
  <2> QED
    BY <2>1, <2>2, TrapsAssumption DEF TInit, TTypes
<1>4. Thread.saved = <<>> /\ Thread.pc = "run" /\ Thread.kind = "thread" /\ Len(Thread.saved) = 0
  BY DEF Thread
<1>5. RvSections /\ AvrSections /\ Frames
  BY <1>1, <1>4 DEF RvSections, AvrSections, Frames
<1>6. Returns
  BY <1>1, <1>4 DEF TInit, Returns
<1> QED
  BY <1>3, <1>5, <1>6 DEF TrapsInv

(* An interrupt is taken only where no section is open. *)
LEMMA NoSectionOpen ==
  ASSUME TrapsInv, NEW i \in Irqs, CanTake(i), arch # "arm"
  PROVE  \A d \in DOMAIN acts : acts[d].saved = <<>>
<1>1. CASE arch = "riscv"
  BY <1>1 DEF TrapsInv, RvSections, CanTake
<1>2. CASE arch = "avr"
  <2>1. DOMAIN acts = 1 .. Len(acts) /\ Len(acts) \in Nat
    BY DEF TrapsInv, TTypes
  <2> QED
    BY <1>2, <2>1 DEF TrapsInv, AvrSections, CanTake, Top
<1> QED
  BY <1>1, <1>2 DEF TrapsInv, TTypes

(* Steps that change neither the stack nor the switches keep the invariant. *)
LEMMA StackUntouched ==
  ASSUME TrapsInv, UNCHANGED <<arch, acts, hart, mepc, reopened>>,
         halted' \in {"no", halted}, answer' \in {"none", "own"}
  PROVE  TrapsInv'
<1>1. TTypes'
  <2>1. Act' = Act /\ Hart' = Hart
    BY DEF Act, Saves, Hart
  <2> QED
    BY <2>1 DEF TTypes, TrapsInv
<1>2. RvSections' /\ AvrSections' /\ Frames' /\ Returns'
  BY DEF TrapsInv, RvSections, AvrSections, Frames, Returns, Top
<1> QED
  BY <1>1, <1>2 DEF TrapsInv

(* A section opens: mie, or SREG.I, is cleared, and what is saved is empty *)
(* when another one is open already.                                       *)
LEMMA OpenKeeps == ASSUME TrapsInv, OpenSection PROVE TrapsInv'
<1> USE DEF TrapsInv
<1> DEFINE v == DiSaveState(hart)[1]
           new == [Top EXCEPT !.saved = Append(@, v), !.ops = Ops]
<1>0. DOMAIN acts = 1 .. Len(acts)
  BY DEF TTypes
<1>1. Top \in Act /\ Len(acts) \in Nat \ {0}
  BY DEF TTypes, Top
<1>2. /\ v \in Saves /\ hart' \in Hart
      /\ arch = "riscv" => v = hart.lie /\ hart'.lie = {} /\ ~hart'.gie
      /\ arch = "avr" => v = hart.gie /\ ~hart'.gie
  BY SaveIs DEF OpenSection
<1> HIDE DEF v
<1>3. /\ Append(Top.saved, v) \in Seq(Saves) /\ Len(Append(Top.saved, v)) = Len(Top.saved) + 1
      /\ Len(Top.saved) \in Nat /\ Append(Top.saved, v) # <<>>
      /\ Append(Top.saved, v)[Len(Top.saved) + 1] = v
      /\ \A k \in 1 .. Len(Top.saved) : Append(Top.saved, v)[k] = Top.saved[k]
  <2>1. Top.saved \in Seq(Saves)
    BY <1>1 DEF Act
  <2> QED
    BY <1>2, <2>1
<1>4. new \in Act /\ new.saved = Append(Top.saved, v)
      /\ \A f \in {"kind", "pc", "prev", "frame", "ret", "home"} : new[f] = Top[f]
  <2>1. Ops \in Nat
    BY <1>1 DEF Act, Ops
  <2> DEFINE w == Append(Top.saved, v)
  <2>2. new = [Top EXCEPT !.saved = w, !.ops = Ops] /\ w \in Seq(Saves)
    BY <1>3
  <2> HIDE DEF w, new
  <2>3. new \in Act /\ new.saved = w
    BY <1>1, <2>1, <2>2 DEF Act
  <2>4. \A f \in {"kind", "pc", "prev", "frame", "ret", "home"} : new[f] = Top[f]
    BY <1>1, <2>2 DEF Act
  <2> QED
    BY <2>3, <2>4 DEF w
<1>5. acts' = SetTop(new)
  BY DEF OpenSection, v
<1> HIDE DEF new
<1>6. /\ acts' \in Seq(Act) /\ Len(acts') = Len(acts) /\ acts'[Len(acts)] = new
      /\ \A d \in 1 .. Len(acts) : d # Len(acts) => acts'[d] = acts[d]
  BY <1>4, <1>5, SetTopIs DEF TTypes
<1>7. DOMAIN acts' = 1 .. Len(acts) /\ acts' # <<>>
  <2>1. Len(acts') # 0
    BY <1>1, <1>6
  <2>2. DOMAIN acts' = 1 .. Len(acts)
    BY <1>6, LenProperties
  <2> QED
    BY <2>1, <2>2, EmptySeq, Zenon
<1>8. TTypes'
  <2>1. Act' = Act /\ Hart' = Hart
    BY DEF OpenSection, Act, Saves, Hart
  <2> QED
    BY <1>2, <1>6, <1>7, <2>1 DEF OpenSection, TTypes
<1>9. RvSections'
  <2> SUFFICES ASSUME arch = "riscv", NEW d \in 1 .. Len(acts)
               PROVE  /\ hart'.lie = {}
                      /\ \A k \in 1 .. Len(acts'[d].saved) : acts'[d].saved[k] # {} =>
                            k = 1 /\ \A e \in 1 .. d - 1 : acts'[e].saved = <<>>
    BY <1>7 DEF RvSections, OpenSection
  <2>1. \A e \in 1 .. Len(acts) : acts'[e].saved = IF e = Len(acts) THEN Append(Top.saved, v)
                                                   ELSE acts[e].saved
    BY <1>1, <1>4, <1>6
  <2>2. CASE d # Len(acts)
    <3>1. \A e \in 1 .. d : e \in 1 .. Len(acts) /\ e # Len(acts)
      BY <1>1, <2>2
    <3>2. \A e \in 1 .. d : acts'[e].saved = acts[e].saved
      BY <2>1, <3>1
    <3>3. \A k \in 1 .. Len(acts[d].saved) : acts[d].saved[k] # {} =>
            k = 1 /\ \A e \in 1 .. d - 1 : acts[e].saved = <<>>
      BY <1>0 DEF RvSections
    <3>4. d \in 1 .. d /\ \A e \in 1 .. d - 1 : e \in 1 .. d
      BY <1>1
    <3> QED
      BY <1>2, <3>2, <3>3, <3>4
  <2>3. CASE d = Len(acts)
    <3>0. \A e \in 1 .. d - 1 : e \in 1 .. Len(acts) /\ e # Len(acts)
      BY <1>1, <2>3
    <3>1. \A e \in 1 .. d - 1 : acts'[e].saved = acts[e].saved
      BY <2>1, <3>0
    <3>2. ASSUME NEW k \in 1 .. Len(Top.saved) + 1, Append(Top.saved, v)[k] # {}
          PROVE  k = 1 /\ \A e \in 1 .. d - 1 : acts[e].saved = <<>>
      <4>1. CASE k = Len(Top.saved) + 1
        <5>1. hart.lie # {}
          BY <1>2, <1>3, <3>2, <4>1
        <5>2. \A e \in 1 .. Len(acts) : acts[e].saved = <<>>
          BY <1>0, <1>1, <5>1 DEF RvSections
        <5>3. Len(Top.saved) = 0
          BY <1>1, <5>2, EmptySeq DEF Top
        <5> QED
          BY <1>1, <2>3, <4>1, <5>2, <5>3
      <4>2. CASE k # Len(Top.saved) + 1
        <5>1. k \in 1 .. Len(acts[d].saved) /\ acts[d].saved[k] # {}
          BY <1>3, <2>3, <3>2, <4>2 DEF Top
        <5> QED
          BY <1>0, <1>1, <5>1 DEF RvSections
      <4> QED
        BY <4>1, <4>2
    <3>3. acts'[d].saved = Append(Top.saved, v) /\ Len(acts'[d].saved) = Len(Top.saved) + 1
      BY <1>3, <2>1, <2>3
    <3> QED
      BY <1>2, <3>1, <3>2, <3>3
  <2> QED
    BY <2>2, <2>3
<1>10. AvrSections'
  BY <1>0, <1>1, <1>2, <1>3, <1>4, <1>6, <1>7, SMTT(30) DEF AvrSections, Top, OpenSection
<1>11. Frames'
  BY <1>0, <1>1, <1>4, <1>6, <1>7 DEF Frames, Top, OpenSection
<1>12. Returns'
  BY <1>0, <1>1, <1>2, <1>4, <1>6, <1>7 DEF Returns, Top, OpenSection
<1> QED
  BY <1>8, <1>9, <1>10, <1>11, <1>12

(* A section ends: what it puts back is empty unless it was the only one   *)
(* open.                                                                   *)
LEMMA CloseKeeps == ASSUME TrapsInv, CloseSection PROVE TrapsInv'
<1> USE DEF TrapsInv
<1> DEFINE n == Len(Top.saved)
           rest == SubSeq(Top.saved, 1, n - 1)
           new == [Top EXCEPT !.saved = rest]
<1>0. DOMAIN acts = 1 .. Len(acts)
  BY DEF TTypes
<1>1. Top \in Act /\ Len(acts) \in Nat \ {0} /\ Len(acts) \in 1 .. Len(acts)
  BY DEF TTypes, Top
<1>2. Top.saved \in Seq(Saves) /\ Top.saved # <<>>
  BY <1>1 DEF Act, CloseSection
<1>3. n \in Nat \ {0} /\ Top.saved[n] \in Saves
  BY <1>2
<1>4. /\ hart' \in Hart
      /\ arch = "riscv" => hart'.lie = hart.lie \cup Top.saved[n]
      /\ arch = "avr" => hart'.gie = (hart.gie \/ Top.saved[n])
  BY <1>3, RestoreIs DEF CloseSection
<1>5. rest \in Seq(Saves) /\ Len(rest) = n - 1 /\ \A k \in 1 .. n - 1 : rest[k] = Top.saved[k]
  BY <1>2, <1>3
<1>6. rest # <<>> => n > 1
  BY <1>2, <1>3
<1>7. acts' = SetTop(new)
  BY DEF CloseSection
<1>8. new \in Act /\ new.saved = rest
      /\ \A f \in {"kind", "pc", "prev", "frame", "ret", "home"} : new[f] = Top[f]
  <2> HIDE DEF rest
  <2> QED
    BY <1>1, <1>5 DEF Act
<1> HIDE DEF new, rest, n
<1>9. /\ acts' \in Seq(Act) /\ Len(acts') = Len(acts) /\ acts'[Len(acts)] = new
      /\ \A d \in 1 .. Len(acts) : d # Len(acts) => acts'[d] = acts[d]
  BY <1>7, <1>8, SetTopIs DEF TTypes
<1>10. DOMAIN acts' = 1 .. Len(acts) /\ acts' # <<>>
  <2>1. Len(acts') # 0
    BY <1>1, <1>9
  <2>2. DOMAIN acts' = 1 .. Len(acts)
    BY <1>9, LenProperties
  <2> QED
    BY <2>1, <2>2, EmptySeq, Zenon
<1>11. TTypes'
  <2>1. Act' = Act /\ Hart' = Hart
    BY DEF CloseSection, Act, Saves, Hart
  <2>2. reopened' \in BOOLEAN
    BY DEF CloseSection
  <2> QED
    BY <1>4, <1>9, <1>10, <2>1, <2>2 DEF CloseSection, TTypes
<1>12. RvSections'
  <2> SUFFICES ASSUME arch = "riscv", NEW d \in 1 .. Len(acts)
               PROVE  /\ acts'[d].saved # <<>> => hart'.lie = {}
                      /\ \A k \in 1 .. Len(acts'[d].saved) : acts'[d].saved[k] # {} =>
                            k = 1 /\ \A e \in 1 .. d - 1 : acts'[e].saved = <<>>
    BY <1>10 DEF RvSections, CloseSection
  <2>1. \A k \in 1 .. n : Top.saved[k] # {} =>
          k = 1 /\ \A e \in 1 .. Len(acts) - 1 : acts[e].saved = <<>>
    BY <1>0, <1>1 DEF RvSections, Top, n
  <2>2. hart.lie = {}
    BY <1>0, <1>1, <1>2 DEF RvSections, Top
  <2>3. CASE d # Len(acts)
    <3>1. d \in 1 .. d /\ \A e \in 1 .. d - 1 : e \in 1 .. d
      BY <1>1
    <3>2. \A e \in 1 .. d : e \in 1 .. Len(acts) - 1 /\ e \in 1 .. Len(acts) /\ e # Len(acts)
      BY <1>1, <2>3
    <3>3. \A e \in 1 .. d : acts'[e].saved = acts[e].saved
      BY <1>9, <3>2
    <3>4. \A k \in 1 .. Len(acts[d].saved) : acts[d].saved[k] # {} =>
            k = 1 /\ \A e \in 1 .. d - 1 : acts[e].saved = <<>>
      BY <1>0 DEF RvSections
    <3>5. acts[d].saved # <<>> => Top.saved[n] = {}
      BY <1>3, <2>1, <3>1, <3>2
    <3> QED
      BY <1>4, <2>2, <3>1, <3>3, <3>4, <3>5
  <2>4. CASE d = Len(acts)
    <3>1. \A e \in 1 .. d - 1 : e \in 1 .. Len(acts) /\ e # Len(acts)
      BY <1>1, <2>4
    <3>2. \A e \in 1 .. d - 1 : acts'[e].saved = acts[e].saved
      BY <1>9, <3>1
    <3>3. acts'[d].saved = rest
      BY <1>8, <1>9, <2>4
    <3>4. rest # <<>> => hart'.lie = {}
      BY <1>3, <1>4, <1>6, <2>1, <2>2
    <3>5. \A k \in 1 .. n - 1 : rest[k] # {} => k = 1 /\ \A e \in 1 .. d - 1 : acts[e].saved = <<>>
      BY <1>3, <1>5, <2>1, <2>4
    <3> QED
      BY <1>5, <3>2, <3>3, <3>4, <3>5
  <2> QED
    BY <2>3, <2>4
<1>13. AvrSections'
  <2> SUFFICES ASSUME arch = "avr" PROVE AvrSections'
    BY DEF AvrSections, CloseSection
  <2>1. ~hart.gie /\ \A k \in 1 .. n : Top.saved[k] => k = 1
    BY <1>2 DEF AvrSections, n
  <2>2. \A d \in 1 .. Len(acts) : d < Len(acts) => acts'[d].saved = <<>>
    <3>1. \A d \in DOMAIN acts : d < Len(acts) => acts[d].saved = <<>>
      BY DEF AvrSections
    <3> SUFFICES ASSUME NEW d \in 1 .. Len(acts), d < Len(acts) PROVE acts'[d].saved = <<>>
      OBVIOUS
    <3>2. d # Len(acts)
      BY <1>1
    <3>3. acts[d].saved = <<>>
      BY <1>0, <3>1, Zenon
    <3> QED
      BY <1>9, <3>2, <3>3
  <2>3. rest # <<>> => ~hart'.gie
    <3>1. n > 1 => n \in 1 .. n /\ n # 1
      BY <1>3
    <3>2. n > 1 => ~Top.saved[n]
      BY <2>1, <3>1, Zenon
    <3> QED
      BY <1>4, <1>6, <2>1, <3>2, Zenon
  <2>4. \A k \in 1 .. Len(rest) : rest[k] => k = 1
    <3>1. \A k \in 1 .. Len(rest) : k \in 1 .. n /\ rest[k] = Top.saved[k]
      BY <1>3, <1>5
    <3> QED
      BY <2>1, <3>1, Zenon
  <2>5. Top'.saved = rest
    BY <1>8, <1>9 DEF Top
  <2> QED
    BY <1>9, <1>10, <2>2, <2>3, <2>4, <2>5 DEF AvrSections
<1>14. Frames'
  <2>1. \A d \in 1 .. Len(acts) : /\ acts'[d].kind = acts[d].kind /\ acts'[d].pc = acts[d].pc
                                 /\ acts'[d].frame = acts[d].frame /\ acts'[d].ret = acts[d].ret
    BY <1>8, <1>9 DEF Top
  <2> QED
    BY <1>0, <1>10, <2>1 DEF Frames, CloseSection
<1>15. Returns'
  <2>1. ~reopened' => ~reopened /\ ~(Len(acts) > 1 /\ hart'.gie)
    BY DEF CloseSection
  <2>2. Top'.pc = "run" /\ halted' = "no" /\ arch' = arch
    BY <1>8, <1>9 DEF Top, CloseSection, Running
  <2>3. \A d \in 1 .. Len(acts) : acts'[d].prev = acts[d].prev /\ acts'[d].pc = acts[d].pc
    BY <1>8, <1>9 DEF Top
  <2> QED
    BY <1>0, <1>9, <1>10, <2>1, <2>2, <2>3 DEF Returns
<1> QED
  BY <1>11, <1>12, <1>13, <1>14, <1>15

(* Writing the answer of a visor call, or starting EPILOGUE, keeps it too: *)
(* the running activation changes in ret or pc only.                       *)
LEMMA TopKeeps ==
  ASSUME TrapsInv, NEW a \in Act, acts' = SetTop(a), UNCHANGED <<arch, hart, reopened>>,
         \A f \in {"kind", "saved", "prev", "frame", "home"} : a[f] = Top[f],
         a.pc = "epilogue" => /\ Len(acts) > 1 /\ arch = "riscv" /\ mepc' = a.home
                              /\ a.kind = "vcall" => a.ret = "own",
         answer' \in {"none", "own"}, halted' = "no"
  PROVE  TrapsInv'
<1> USE DEF TrapsInv
<1>0. DOMAIN acts = 1 .. Len(acts)
  BY DEF TTypes
<1>1. Top \in Act /\ Len(acts) \in Nat \ {0}
  BY DEF TTypes, Top
<1>2. /\ acts' \in Seq(Act) /\ Len(acts') = Len(acts) /\ acts'[Len(acts)] = a
      /\ \A d \in 1 .. Len(acts) : d # Len(acts) => acts'[d] = acts[d]
  BY SetTopIs DEF TTypes
<1>3. DOMAIN acts' = 1 .. Len(acts) /\ acts' # <<>>
  <2>1. Len(acts') # 0
    BY <1>1, <1>2
  <2>2. DOMAIN acts' = 1 .. Len(acts)
    BY <1>2, LenProperties
  <2> QED
    BY <2>1, <2>2, EmptySeq, Zenon
<1>4. \A d \in 1 .. Len(acts) :
        /\ acts'[d].kind = acts[d].kind /\ acts'[d].saved = acts[d].saved
        /\ acts'[d].prev = acts[d].prev /\ acts'[d].frame = acts[d].frame
        /\ acts'[d].home = acts[d].home
  BY <1>2 DEF Top
<1>5. TTypes'
  <2>1. Act' = Act /\ Hart' = Hart
    BY DEF Act, Saves, Hart
  <2> QED
    BY <1>2, <1>3, <2>1 DEF TTypes
<1>6. RvSections'
  <2> SUFFICES ASSUME arch = "riscv", NEW d \in 1 .. Len(acts)
               PROVE  /\ acts'[d].saved # <<>> => hart.lie = {}
                      /\ \A k \in 1 .. Len(acts'[d].saved) : acts'[d].saved[k] # {} =>
                            k = 1 /\ \A e \in 1 .. d - 1 : acts'[e].saved = <<>>
    BY <1>3 DEF RvSections
  <2>1. \A e \in 1 .. d - 1 : e \in 1 .. Len(acts)
    BY <1>1
  <2>2. /\ acts[d].saved # <<>> => hart.lie = {}
        /\ \A k \in 1 .. Len(acts[d].saved) : acts[d].saved[k] # {} =>
              k = 1 /\ \A e \in 1 .. d - 1 : acts[e].saved = <<>>
    BY <1>0 DEF RvSections
  <2> QED
    BY <1>4, <2>1, <2>2
<1>7. AvrSections'
  <2>1. Top'.saved = Top.saved
    BY <1>2 DEF Top
  <2>2. arch' = arch /\ hart' = hart
    OBVIOUS
  <2> QED
    BY <1>0, <1>2, <1>3, <1>4, <2>1, <2>2, Zenon DEF AvrSections
<1>8. Frames'
  <2> SUFFICES ASSUME NEW d \in 1 .. Len(acts)
               PROVE  /\ acts'[d].kind = "vcall" => acts'[d].frame = d
                      /\ acts'[d].pc = "epilogue" =>
                           d > 1 /\ arch = "riscv" /\ (acts'[d].kind = "vcall" => acts'[d].ret = "own")
    BY <1>3 DEF Frames
  <2>1. CASE d = Len(acts)
    <3>1. acts'[d] = a
      BY <1>2, <2>1
    <3>2. acts[d].kind = "vcall" => acts[d].frame = d
      BY <1>0 DEF Frames
    <3>3. Len(acts) > 1 => d > 1
      BY <1>1, <2>1
    <3> QED
      BY <1>4, <3>1, <3>2, <3>3
  <2>2. CASE d # Len(acts)
    BY <1>0, <1>2, <2>2 DEF Frames
  <2> QED
    BY <2>1, <2>2
<1>9. Returns'
  <2>1. Top' = a
    BY <1>2 DEF Top
  <2>2. \A d \in 1 .. Len(acts) : d < Len(acts) => acts'[d].pc = acts[d].pc
    BY <1>1, <1>2
  <2> QED
    BY <1>0, <1>2, <1>3, <1>4, <2>1, <2>2 DEF Returns
<1> QED
  BY <1>5, <1>6, <1>7, <1>8, <1>9

(* Every step of the core keeps the inductive invariant. *)
LEMMA TrapsStepKeeps ==
  ASSUME TrapsInv, [TNext]_tvars
  PROVE  TrapsInv'
<1>0. /\ Top \in Act /\ Len(acts) \in Nat \ {0} /\ Len(acts) \in DOMAIN acts
      /\ hart \in Hart /\ answer \in {"none", "own"}
  BY DEF TrapsInv, TTypes, Top
<1>1. ASSUME NEW i \in Irqs, TakeIrq(i) PROVE TrapsInv'
  <2>1. arch = "avr" => Top.saved = <<>>
    BY <1>0, <1>1, NoSectionOpen DEF TakeIrq, Top
  <2>2. arch = "riscv" /\ ~reopened => Top.pc = "run"
    <3>1. Top.pc = "epilogue" => Len(acts) > 1
      BY <1>0 DEF TrapsInv, Frames, Top
    <3>2. arch = "riscv" /\ ~reopened => ~(Len(acts) > 1)
      BY <1>1 DEF TrapsInv, Returns, TakeIrq, CanTake
    <3> QED
      BY <1>0, <3>1, <3>2 DEF Act
  <2>3. halted' \in {"no", "panic"}
    BY <1>1 DEF TakeIrq, CanTake, Running
  <2> QED
    BY <1>0, <1>1, <2>1, <2>2, <2>3, EnterKeeps DEF TakeIrq
<1>2. ASSUME NEW i \in Irqs, Raise(i) \/ LinkInterrupt(i) \/ UnlinkInterrupt(i) PROVE TrapsInv'
  BY <1>0, <1>2, StackUntouched DEF Raise, LinkInterrupt, UnlinkInterrupt
<1>3. CASE OpenSection
  BY <1>3, OpenKeeps
<1>4. CASE CloseSection
  BY <1>4, CloseKeeps
<1>5. CASE VisorCall
  <2>1. Top.pc = "run" /\ halted' \in {"no", "panic"} /\ UNCHANGED <<arch, reopened>>
    BY <1>5 DEF VisorCall, MayAct, Running
  <2>2. CASE arch = "avr"
    <3>1. halted' \in {"no", halted} /\ answer' = "own" /\ UNCHANGED <<acts, hart, mepc>>
      BY <1>5, <2>2 DEF VisorCall, AvrVisorCall
    <3> QED
      BY <2>1, <3>1, StackUntouched
  <2>3. CASE arch # "avr"
    <3>1. Enter("vcall") /\ answer' = "none"
      BY <1>5, <2>3 DEF VisorCall, RvVisorCall, ArmVisorCall, TrapsInv, TTypes
    <3> QED
      BY <2>1, <2>3, <3>1, EnterKeeps
  <2> QED
    BY <2>2, <2>3
<1>6. CASE VcallDone
  <2> DEFINE a == [Top EXCEPT !.ret = "own"]
  <2>1. Top.frame = Len(acts)
    BY <1>0, <1>6 DEF TrapsInv, Frames, VcallDone, Top
  <2>2. acts' = SetTop(a) /\ UNCHANGED <<arch, hart, reopened, answer>> /\ halted' = "no" /\ Top.pc = "run"
    BY <1>6, <2>1 DEF VcallDone, AnswerFrame, Running
  <2>3. a \in Act /\ \A f \in {"kind", "saved", "prev", "frame", "home", "pc"} : a[f] = Top[f]
    BY <1>0 DEF Act
  <2> HIDE DEF a
  <2>4. a.pc # "epilogue" /\ \A f \in {"kind", "saved", "prev", "frame", "home"} : a[f] = Top[f]
    BY <2>2, <2>3
  <2> QED
    BY <1>0, <2>2, <2>3, <2>4, TopKeeps
<1>7. CASE HandlerEnds
  <2>1. /\ Len(acts) > 1 /\ halted = "no" /\ UNCHANGED <<arch, reopened>>
        /\ Top.pc = "run" /\ (Top.kind = "vcall" => Top.ret # "none")
    BY <1>7 DEF HandlerEnds, Running
  <2>2. CASE arch = "riscv"
    <3> DEFINE a == [Top EXCEPT !.pc = "epilogue"]
    <3>1. acts' = SetTop(a) /\ UNCHANGED <<hart, answer, halted>> /\ mepc' = Top.home
      BY <1>7, <2>2 DEF HandlerEnds, RvEpilogueStart
    <3>2. a \in Act /\ \A f \in {"kind", "saved", "prev", "frame", "home", "ret"} : a[f] = Top[f]
      BY <1>0 DEF Act
    <3>3. Top.kind = "vcall" => Top.ret = "own"
      BY <1>0, <2>1 DEF Act
    <3> HIDE DEF a
    <3> QED
      BY <1>0, <2>1, <2>2, <3>1, <3>2, <3>3, TopKeeps
  <2>3. CASE arch # "riscv"
    <3>1. /\ acts' = SubSeq(acts, 1, Len(acts) - 1) /\ hart' \in Hart
          /\ UNCHANGED <<answer, halted>>
      BY <1>0, <1>7, <2>3
         DEF HandlerEnds, AvrReti, ArmReturn, ArchEi, Hart, TrapsInv, TTypes
    <3> QED
      BY <1>0, <2>1, <2>3, <3>1, LeaveKeeps
  <2> QED
    BY <2>2, <2>3
<1>8. CASE TrapReturns
  <2>1. /\ Len(acts) > 1 /\ arch = "riscv" /\ Top.pc = "epilogue" /\ halted = "no"
        /\ UNCHANGED <<arch, reopened>> /\ (Top.kind = "vcall" => Top.ret = "own")
    BY <1>0, <1>8 DEF TrapReturns, Running, TrapsInv, Frames, Top
  <2>2. /\ acts' = SubSeq(acts, 1, Len(acts) - 1)
        /\ hart' \in Hart /\ hart'.lie = hart.lie /\ hart'.gie = Top.prev
    BY <1>0, <1>8 DEF TrapReturns, RvMret, Hart, Act
  <2>3. answer' \in {"none", "own"}
    BY <1>0, <1>8, <2>1 DEF TrapReturns, RvMret
  <2>4. halted' \in {"no", "astray"} /\ (halted' = "astray" => arch = "riscv" /\ reopened)
    BY <1>8, <2>1 DEF TrapReturns, RvMret, TrapsInv, Returns
  <2> QED
    BY <2>1, <2>2, <2>3, <2>4, LeaveKeeps
<1>9. CASE UNCHANGED tvars
  BY <1>0, <1>9, StackUntouched DEF tvars
<1> QED
  BY <1>1, <1>2, <1>3, <1>4, <1>5, <1>6, <1>7, <1>8, <1>9 DEF TNext, Halted

(* For every number of activations, of nested sections and of sources: a   *)
(* visor call gets its own answer, and the code goes on where it was       *)
(* unless a handler of riscv opened interrupts at the end of a section.    *)
THEOREM TransparentTraps == TSpec => []TrapsTransparent
<1>1. TrapsInv => TrapsTransparent
  BY DEF TrapsInv, TTypes, Returns, TrapsTransparent
<1> QED
  BY TrapsInit, TrapsStepKeeps, <1>1, PTL DEF TSpec

(* No interrupt is taken while a critical section of arch_di_save_state is *)
(* open anywhere on the stack, on riscv and avr.                           *)
THEOREM SectionsKept == TSpec => CriticalKept
<1>1. ASSUME TrapsInv, [TNext]_tvars
      PROVE  [(\E i \in Irqs : TakeIrq(i)) /\ arch # "arm" =>
                 \A d \in DOMAIN acts : acts[d].saved = <<>>]_tvars
  BY <1>1, NoSectionOpen DEF TakeIrq
<1> QED
  BY TrapsInit, TrapsStepKeeps, <1>1, PTL DEF TSpec, CriticalKept
-----------------------------------------------------------------------------
(* The boot and the watchdog. *)

(* The step that clears the bss section, and what a step leaves behind. *)
BssAt == IF plat = "sifive" THEN 4 ELSE 3
Leaves(s) == IF s = "reseed" THEN "seed" ELSE s

(* While the boot goes on, all that it made from the bss section on is     *)
(* still there.                                                            *)
Booted ==
  /\ plat \in {"sifive", "ibex", "avr"}
  /\ ended \in {"booting", "up", "panic"}
  /\ ended = "booting" =>
       /\ step \in 1 .. Len(Steps)
       /\ \A i \in 1 .. step - 1 : i >= BssAt => Leaves(Steps[i]) \in have

(* The causes of a reset on mega_avr: MCUSR holds them until the eighth    *)
(* step of the boot, the syndrome from there on; the ninth one turns the   *)
(* dog off.  A bite leaves wdog_reset as the only one.                     *)
Causes ==
  /\ plat # "avr" => bites = "none"
  /\ plat = "avr" =>
       /\ (ended # "booting" \/ step > 8) => resets = {}
       /\ ended = "booting" /\ step > 9 => wd = Off
       /\ bites # "none" =>
            /\ ended = "panic" \/ (ended = "booting" /\ step <= 12)
            /\ ended = "booting" /\ step <= 8 => resets = {"wdog_reset"}
            /\ ended = "panic" \/ step > 8 => syndrome = {"wdog_reset"}

DogRegisters == [wde : BOOLEAN, wdie : BOOLEAN, wdif : BOOLEAN, gear : Nat]
DogCalls == [bite : BOOLEAN, gear : Nat, ok : BOOLEAN]
Guarding == {"cb2", "set", "check", "read", "write", "check2", "release"}

DogTypes ==
  /\ wd \in DogRegisters /\ val \in DogRegisters /\ asked \in DogCalls
  /\ wpc \in (Guarding \cup {"idle", "cb1", "hush"}) \X DogCalls
  /\ cb \in (0 .. 2) \X (0 .. 2)
  /\ wdogLock \in BOOLEAN /\ barked \in BOOLEAN /\ reguarded \in BOOLEAN /\ halved \in BOOLEAN
  /\ wpc[1] # "idle" => wdogLock
  /\ wpc[1] = "hush" => wpc[2] = Hushed
  /\ ~Up => wpc = Rest /\ asked = Hushed

(* WDE is on only when a bite was asked for, write by write. *)
BiteAsked ==
  /\ Up /\ wd.wde => asked.bite
  /\ wpc[1] \in Guarding /\ wpc[2].bite => asked.bite
  /\ wpc[1] \in {"write", "check2"} /\ val.wde => wpc[2].bite
  /\ wpc[1] \in {"check2", "release"} /\ wd.wde => wpc[2].bite

(* After a guard that returned success WDIE is on until the dog barks. *)
BarkFirst ==
  /\ Up /\ asked.ok /\ asked.gear > 0 /\ ~barked => wd.wdie
  /\ wpc[1] \in Guarding => ~asked.ok \/ asked.gear = 0
  /\ wpc[1] \in {"check", "read", "write", "check2", "release"} /\ wpc[2].ok /\ wpc[2].gear > 0
       /\ ~barked
     => wd.wdie /\ (wpc[1] \in {"write", "check2"} => val.wdie)

(* The callback is half written only between its two bytes, and the dog is *)
(* asleep then unless it was guarded anew.                                 *)
CallbackWhole ==
  /\ wpc[1] # "cb2" => cb[1] = cb[2]
  /\ wpc[1] \in {"cb1", "cb2", "set"} => reguarded \/ ~Awake
  /\ halved => reguarded

DogInv ==
  Booted /\ Causes /\ DogTypes /\ BiteAsked /\ BarkFirst /\ CallbackWhole /\ bites # "unasked"
(* The boot of each platform, step by step.                                *)
LEMMA SifiveSteps ==
  ASSUME plat = "sifive"
  PROVE  /\ Len(Steps) = 14
         /\ Steps[1] = "seed" /\ Steps[2] = "vector" /\ Steps[3] = "data"
         /\ Steps[4] = "bss" /\ Steps[5] = "heap" /\ Steps[6] = "resources"
         /\ Steps[7] = "reseed" /\ Steps[8] = "mslog" /\ Steps[9] = "vcall"
         /\ Steps[10] = "sysclk" /\ Steps[11] = "earlycon" /\ Steps[12] = "bootmsgs"
         /\ Steps[13] = "reset_handler" /\ Steps[14] = "ei"
BY DEF Steps, Bootstrap, RvEarly, SifiveEarly, RvArchSetup, SifiveSetup

(* The boot of ibex, step by step. *)
LEMMA IbexSteps ==
  ASSUME plat = "ibex"
  PROVE  /\ Len(Steps) = 12
         /\ Steps[1] = "seed" /\ Steps[2] = "vector" /\ Steps[3] = "bss"
         /\ Steps[4] = "heap" /\ Steps[5] = "resources" /\ Steps[6] = "reseed"
         /\ Steps[7] = "mslog" /\ Steps[8] = "vcall" /\ Steps[9] = "earlycon"
         /\ Steps[10] = "bootmsgs" /\ Steps[11] = "reset_handler" /\ Steps[12] = "ei"
BY DEF Steps, Bootstrap, RvEarly, IbexEarly, RvArchSetup, IbexSetup

(* The boot of mega_avr, step by step. *)
LEMMA AvrSteps ==
  ASSUME plat = "avr"
  PROVE  /\ Len(Steps) = 13
         /\ Steps[1] = "seed" /\ Steps[2] = "data" /\ Steps[3] = "bss"
         /\ Steps[4] = "heap" /\ Steps[5] = "resources" /\ Steps[6] = "reseed"
         /\ Steps[7] = "mslog" /\ Steps[8] = "syndrome" /\ Steps[9] = "wdt_reset"
         /\ Steps[10] = "earlycon" /\ Steps[11] = "bootmsgs" /\ Steps[12] = "reset_handler"
         /\ Steps[13] = "ei"
BY DEF Steps, Bootstrap, AvrEarlyArch, AvrEarly, AvrArchSetup, AvrSetup

(* Every step of the boot finds what it needs, on every platform.          *)
LEMMA NeedsMet ==
  ASSUME Booted, ended = "booting"
  PROVE  Needs(Steps[step]) \subseteq have
<1>k. \A i \in 1 .. step - 1 : i >= BssAt => Leaves(Steps[i]) \in have  BY DEF Booted
<1>s. step \in 1 .. Len(Steps)  BY DEF Booted
<1>1. CASE plat = "sifive"
  <2>1. step \in 1 .. 14  BY <1>1, <1>s, SifiveSteps
  <2>2. /\ step > 4 => "bss" \in have
        /\ step > 5 => "heap" \in have
        /\ step > 6 => "resources" \in have
        /\ step > 7 => "seed" \in have
        /\ step > 8 => "mslog" \in have
        /\ step > 9 => "vcall" \in have
        /\ step > 10 => "sysclk" \in have
        /\ step > 11 => "earlycon" \in have
    BY <1>k, <1>1, <2>1, SifiveSteps DEF BssAt, Leaves
  <2>3. CASE step = 1  BY <1>1, <2>2, <2>3, SifiveSteps DEF Needs, VisorCalls
  <2>4. CASE step = 2  BY <1>1, <2>2, <2>4, SifiveSteps DEF Needs, VisorCalls
  <2>5. CASE step = 3  BY <1>1, <2>2, <2>5, SifiveSteps DEF Needs, VisorCalls
  <2>6. CASE step = 4  BY <1>1, <2>2, <2>6, SifiveSteps DEF Needs, VisorCalls
  <2>7. CASE step = 5  BY <1>1, <2>2, <2>7, SifiveSteps DEF Needs, VisorCalls
  <2>8. CASE step = 6  BY <1>1, <2>2, <2>8, SifiveSteps DEF Needs, VisorCalls
  <2>9. CASE step = 7  BY <1>1, <2>2, <2>9, SifiveSteps DEF Needs, VisorCalls
  <2>10. CASE step = 8  BY <1>1, <2>2, <2>10, SifiveSteps DEF Needs, VisorCalls
  <2>11. CASE step = 9  BY <1>1, <2>2, <2>11, SifiveSteps DEF Needs, VisorCalls
  <2>12. CASE step = 10  BY <1>1, <2>2, <2>12, SifiveSteps DEF Needs, VisorCalls
  <2>13. CASE step = 11  BY <1>1, <2>2, <2>13, SifiveSteps DEF Needs, VisorCalls
  <2>14. CASE step = 12  BY <1>1, <2>2, <2>14, SifiveSteps DEF Needs, VisorCalls
  <2>15. CASE step = 13  BY <1>1, <2>2, <2>15, SifiveSteps DEF Needs, VisorCalls
  <2>16. CASE step = 14  BY <1>1, <2>2, <2>16, SifiveSteps DEF Needs, VisorCalls
  <2> QED
    BY <2>1, <2>3, <2>4, <2>5, <2>6, <2>7, <2>8, <2>9, <2>10, <2>11, <2>12, <2>13, <2>14, <2>15, <2>16
<1>2. CASE plat = "ibex"
  <2>1. step \in 1 .. 12  BY <1>2, <1>s, IbexSteps
  <2>2. /\ step > 3 => "bss" \in have
        /\ step > 4 => "heap" \in have
        /\ step > 5 => "resources" \in have
        /\ step > 6 => "seed" \in have
        /\ step > 7 => "mslog" \in have
        /\ step > 8 => "vcall" \in have
        /\ step > 9 => "earlycon" \in have
    BY <1>k, <1>2, <2>1, IbexSteps DEF BssAt, Leaves
  <2>3. CASE step = 1  BY <1>2, <2>2, <2>3, IbexSteps DEF Needs, VisorCalls
  <2>4. CASE step = 2  BY <1>2, <2>2, <2>4, IbexSteps DEF Needs, VisorCalls
  <2>5. CASE step = 3  BY <1>2, <2>2, <2>5, IbexSteps DEF Needs, VisorCalls
  <2>6. CASE step = 4  BY <1>2, <2>2, <2>6, IbexSteps DEF Needs, VisorCalls
  <2>7. CASE step = 5  BY <1>2, <2>2, <2>7, IbexSteps DEF Needs, VisorCalls
  <2>8. CASE step = 6  BY <1>2, <2>2, <2>8, IbexSteps DEF Needs, VisorCalls
  <2>9. CASE step = 7  BY <1>2, <2>2, <2>9, IbexSteps DEF Needs, VisorCalls
  <2>10. CASE step = 8  BY <1>2, <2>2, <2>10, IbexSteps DEF Needs, VisorCalls
  <2>11. CASE step = 9  BY <1>2, <2>2, <2>11, IbexSteps DEF Needs, VisorCalls
  <2>12. CASE step = 10  BY <1>2, <2>2, <2>12, IbexSteps DEF Needs, VisorCalls
  <2>13. CASE step = 11  BY <1>2, <2>2, <2>13, IbexSteps DEF Needs, VisorCalls
  <2>14. CASE step = 12  BY <1>2, <2>2, <2>14, IbexSteps DEF Needs, VisorCalls
  <2> QED
    BY <2>1, <2>3, <2>4, <2>5, <2>6, <2>7, <2>8, <2>9, <2>10, <2>11, <2>12, <2>13, <2>14
<1>3. CASE plat = "avr"
  <2>1. step \in 1 .. 13  BY <1>3, <1>s, AvrSteps
  <2>2. /\ step > 3 => "bss" \in have
        /\ step > 4 => "heap" \in have
        /\ step > 5 => "resources" \in have
        /\ step > 6 => "seed" \in have
        /\ step > 7 => "mslog" \in have
        /\ step > 10 => "earlycon" \in have
    BY <1>k, <1>3, <2>1, AvrSteps DEF BssAt, Leaves
  <2>3. CASE step = 1  BY <1>3, <2>2, <2>3, AvrSteps DEF Needs, VisorCalls
  <2>4. CASE step = 2  BY <1>3, <2>2, <2>4, AvrSteps DEF Needs, VisorCalls
  <2>5. CASE step = 3  BY <1>3, <2>2, <2>5, AvrSteps DEF Needs, VisorCalls
  <2>6. CASE step = 4  BY <1>3, <2>2, <2>6, AvrSteps DEF Needs, VisorCalls
  <2>7. CASE step = 5  BY <1>3, <2>2, <2>7, AvrSteps DEF Needs, VisorCalls
  <2>8. CASE step = 6  BY <1>3, <2>2, <2>8, AvrSteps DEF Needs, VisorCalls
  <2>9. CASE step = 7  BY <1>3, <2>2, <2>9, AvrSteps DEF Needs, VisorCalls
  <2>10. CASE step = 8  BY <1>3, <2>2, <2>10, AvrSteps DEF Needs, VisorCalls
  <2>11. CASE step = 9  BY <1>3, <2>2, <2>11, AvrSteps DEF Needs, VisorCalls
  <2>12. CASE step = 10  BY <1>3, <2>2, <2>12, AvrSteps DEF Needs, VisorCalls
  <2>13. CASE step = 11  BY <1>3, <2>2, <2>13, AvrSteps DEF Needs, VisorCalls
  <2>14. CASE step = 12  BY <1>3, <2>2, <2>14, AvrSteps DEF Needs, VisorCalls
  <2>15. CASE step = 13  BY <1>3, <2>2, <2>15, AvrSteps DEF Needs, VisorCalls
  <2> QED
    BY <2>1, <2>3, <2>4, <2>5, <2>6, <2>7, <2>8, <2>9, <2>10, <2>11, <2>12, <2>13, <2>14, <2>15
<1> QED  BY <1>1, <1>2, <1>3 DEF Booted

(* bss_clear comes once, at its place.                                     *)
LEMMA BssOnce ==
  ASSUME plat \in {"sifive", "ibex", "avr"}, NEW i \in 1 .. Len(Steps), Steps[i] = "bss"
  PROVE  i = BssAt
<1>1. CASE plat = "sifive"
  <2>1. i \in 1 .. 14  BY <1>1, SifiveSteps
  <2> QED  BY <1>1, <2>1, SifiveSteps DEF BssAt
<1>2. CASE plat = "ibex"
  <2>1. i \in 1 .. 12  BY <1>2, IbexSteps
  <2> QED  BY <1>2, <2>1, IbexSteps DEF BssAt
<1>3. CASE plat = "avr"
  <2>1. i \in 1 .. 13  BY <1>3, AvrSteps
  <2> QED  BY <1>3, <2>1, AvrSteps DEF BssAt
<1> QED  BY <1>1, <1>2, <1>3

(* Only mega_avr resets the watchdog on its way.                           *)
LEMMA DogResetAt ==
  ASSUME plat \in {"sifive", "ibex", "avr"}, NEW i \in 1 .. Len(Steps)
  PROVE  /\ Steps[i] = "wdt_reset" <=> (plat = "avr" /\ i = 9)
         /\ Steps[i] = "syndrome" <=> (plat = "avr" /\ i = 8)
         /\ plat = "avr" => (Steps[i] = "bss" <=> i = 3) /\ Len(Steps) = 13
                            /\ (Steps[i] = "reset_handler" <=> i = 12)
<1>1. CASE plat = "sifive"
  <2>1. i \in 1 .. 14  BY <1>1, SifiveSteps
  <2> QED  BY <1>1, <2>1, SifiveSteps
<1>2. CASE plat = "ibex"
  <2>1. i \in 1 .. 12  BY <1>2, IbexSteps
  <2> QED  BY <1>2, <2>1, IbexSteps
<1>3. CASE plat = "avr"
  <2>1. i \in 1 .. 13  BY <1>3, AvrSteps
  <2> QED  BY <1>3, <2>1, AvrSteps
<1> QED  BY <1>1, <1>2, <1>3

(* A watchdog reset alone is reported as one, and ends in a panic.         *)
LEMMA DogSyndrome ==
  ASSUME plat = "avr", syndrome = {"wdog_reset"}
  PROVE  Syndrome = "wdog_reset" /\ ~Handled(Syndrome)
<1> DEFINE order == <<"power_on_reset", "external_reset", "brownout_reset", "wdog_reset">>
           hits == {i \in DOMAIN order : order[i] \in syndrome}
<1>1. hits = {4}  OBVIOUS
<1>2. (CHOOSE i \in hits : \A j \in hits : i <= j) = 4  BY <1>1
<1>3. First(syndrome, order) = "wdog_reset"  BY <1>1, <1>2 DEF First
<1>4. syndrome # {}  OBVIOUS
<1>5. Syndrome = "wdog_reset"  BY <1>3, <1>4 DEF Syndrome, AvrSyndrome
<1> QED  BY <1>5 DEF Handled, AvrHandled

(* One step of the boot keeps what was made and ends in order.             *)
LEMMA BootKeeps ==
  ASSUME Booted, Causes, ended = "booting", Booting
  PROVE  Booted' /\ Causes'
<1> DEFINE s == Steps[step]
<1>p. plat \in {"sifive", "ibex", "avr"} /\ step \in 1 .. Len(Steps) /\ UNCHANGED <<plat, bites>>
  BY DEF Booted, Booting, BootStep
<1>l. Len(Steps) \in Nat  BY <1>p, SifiveSteps, IbexSteps, AvrSteps
<1>n. Steps' = Steps /\ BssAt' = BssAt  BY <1>p DEF Steps, BssAt
<1>d. ~(s = "wdt_reset" /\ WdtResetFails)
  <2>1. SUFFICES ASSUME s = "wdt_reset" PROVE resets = {}  BY DEF WdtResetFails
  <2>2. plat = "avr" /\ step = 9  BY <1>p, <2>1, DogResetAt
  <2> QED  BY <2>2 DEF Causes
<1>1. /\ step' = step + 1
      /\ have' = CASE s = "bss" -> (have \ InBss) \cup {"bss"}
                   [] s = "reseed" -> have \cup {"seed"}
                   [] OTHER -> have \cup {s}
      /\ syndrome' = CASE s = "bss" -> {} [] s = "syndrome" -> resets [] OTHER -> syndrome
      /\ resets' = IF s = "syndrome" THEN {} ELSE resets
      /\ ended' = CASE s = "reset_handler" /\ ~Handled(Syndrome) -> "panic"
                    [] ~(s = "reset_handler" /\ ~Handled(Syndrome)) /\ step = Len(Steps) -> "up"
                    [] OTHER -> "booting"
      /\ wd' = IF s = "wdt_reset" /\ ~WdtResetFails THEN Off ELSE wd
  <2>1. Needs(s) \subseteq have  BY NeedsMet
  <2> HIDE DEF s
  <2>2. BootStep(s, WdtResetFails)  BY DEF Booting, s
  <2>3. /\ step' = step + 1
        /\ have' = CASE s = "bss" -> (have \ InBss) \cup {"bss"}
                     [] s = "reseed" -> have \cup {"seed"}
                     [] OTHER -> have \cup {s}
        /\ syndrome' = CASE s = "bss" -> {} [] s = "syndrome" -> resets [] OTHER -> syndrome
        /\ resets' = IF s = "syndrome" THEN {} ELSE resets
        /\ ended' = CASE s = "wdt_reset" /\ WdtResetFails -> "exit"
                      [] s = "reset_handler" /\ ~Handled(Syndrome) -> "panic"
                      [] step = Len(Steps) -> "up"
                      [] OTHER -> "booting"
    BY <2>1, <2>2 DEF BootStep
  <2>4. wd' = IF s = "wdt_reset" /\ ~WdtResetFails THEN Off ELSE wd  BY DEF Booting, s
  <2>5. CASE s = "reset_handler" /\ ~Handled(Syndrome)
    <3>1. step # Len(Steps)
      BY <1>p, <2>5, SifiveSteps, IbexSteps, AvrSteps DEF s
    <3> QED  BY <1>d, <2>3, <2>4, <2>5, <3>1
  <2>6. CASE ~(s = "reset_handler" /\ ~Handled(Syndrome))
    BY <1>d, <2>3, <2>4, <2>6
  <2> QED  BY <2>5, <2>6
<1>2. Booted'
  <2>1. ended' \in {"booting", "up", "panic"}  BY <1>1
  <2>2. ASSUME ended' = "booting" PROVE step' \in 1 .. Len(Steps)
    <3>1. step # Len(Steps)  BY <1>1, <2>2
    <3> QED  BY <1>1, <1>l, <1>p, <3>1
  <2>3. ASSUME NEW i \in 1 .. step' - 1, i >= BssAt PROVE Leaves(Steps[i]) \in have'
    <3>1. i \in 1 .. step  BY <1>1, <1>p, <1>l, <2>3
    <3>2. CASE i = step  BY <1>1, <3>2 DEF Leaves
    <3>3. CASE i # step
      <4>1. i \in 1 .. step - 1 /\ i < step  BY <1>p, <1>l, <3>1, <3>3
      <4>2. Leaves(Steps[i]) \in have  BY <2>3, <4>1 DEF Booted
      <4>3. s # "bss"
        <5>1. BssAt \in Nat  BY DEF BssAt
        <5>2. step # BssAt  BY <1>p, <1>l, <2>3, <4>1, <5>1
        <5> QED  BY <1>p, <5>2, BssOnce
      <4> QED  BY <1>1, <4>2, <4>3
    <3> QED  BY <3>1, <3>2, <3>3
  <2> QED  BY <1>n, <1>p, <2>1, <2>2, <2>3 DEF Booted, Leaves
<1>3. Causes'
  <2>1. CASE plat # "avr"  BY <1>p, <2>1 DEF Causes
  <2>2. CASE plat = "avr"
    <3>1. /\ Len(Steps) = 13 /\ step \in 1 .. 13
          /\ s = "wdt_reset" <=> step = 9
          /\ s = "syndrome" <=> step = 8
          /\ s = "bss" <=> step = 3
          /\ s = "reset_handler" <=> step = 12
      BY <1>p, <2>2, DogResetAt
    <3> HIDE DEF s
    <3>2. step >= 8 => resets' = {}
      BY <1>1, <2>2, <3>1 DEF Causes
    <3>3. ended' # "booting" => step >= 12  BY <1>1, <3>1
    <3>4. step' > 9 => wd' = Off  BY <1>1, <1>d, <2>2, <3>1 DEF Causes
    <3>5. ASSUME bites # "none"
          PROVE  /\ ended' = "panic" \/ (ended' = "booting" /\ step' <= 12)
                 /\ ended' = "booting" /\ step' <= 8 => resets' = {"wdog_reset"}
                 /\ ended' = "panic" \/ step' > 8 => syndrome' = {"wdog_reset"}
      <4>1. step <= 12 /\ (step <= 8 => resets = {"wdog_reset"})
            /\ (step > 8 => syndrome = {"wdog_reset"})
        BY <2>2, <3>5 DEF Causes
      <4>2. step = 12 => ended' = "panic"
        BY <1>1, <2>2, <3>1, <4>1, DogSyndrome
      <4>3. step >= 8 => syndrome' = {"wdog_reset"}  BY <1>1, <3>1, <4>1
      <4>4. step < 8 => resets' = {"wdog_reset"}  BY <1>1, <3>1, <4>1
      <4>5. ended' = "panic" => step >= 12  BY <3>3
      <4>6. step < 12 => ended' = "booting"  BY <1>1, <3>1
      <4> QED  BY <1>1, <3>1, <4>1, <4>2, <4>3, <4>4, <4>5, <4>6
    <3> QED  BY <1>1, <1>p, <2>2, <3>1, <3>2, <3>3, <3>4, <3>5 DEF Causes
  <2> QED  BY <2>1, <2>2
<1> QED  BY <1>2, <1>3

(* A step of the running system leaves the boot alone.                     *)
LEMMA UpFrame ==
  ASSUME Booted, Causes, Up, UNCHANGED <<bvars, bites>>
  PROVE  Booted' /\ Causes' /\ Up'
<1>1. UNCHANGED <<plat, resets, step, have, syndrome, ended, bites>>  BY DEF bvars
<1>2. ended = "up" /\ plat = "avr"  BY DEF Up
<1>3. Booted'  BY <1>1, <1>2 DEF Booted
<1>4. Causes'  BY <1>1, <1>2 DEF Causes
<1> QED  BY <1>1, <1>2, <1>3, <1>4 DEF Up

DogLocal == DogTypes /\ BiteAsked /\ BarkFirst /\ CallbackWhole

(* The fields of WDTCSR after a write.                                     *)
LEMMA WriteIs ==
  ASSUME NEW v \in DogRegisters, WriteWdtcsr(v)
  PROVE  /\ wd' \in DogRegisters
         /\ wd'.wde = v.wde /\ wd'.wdie = v.wdie /\ wd'.wdif = FALSE /\ wd'.gear = v.gear
BY DEF WriteWdtcsr, DogRegisters

(* The fields of a dog that is off and of a call that is done. *)
LEMMA OffIs ==
  /\ Off \in DogRegisters /\ Hushed \in DogCalls
  /\ Off.wde = FALSE /\ Off.wdie = FALSE /\ Off.wdif = FALSE
  /\ Hushed.bite = FALSE /\ Hushed.gear = 0 /\ Hushed.ok = TRUE
  /\ Rest[1] = "idle" /\ Rest[2] = Hushed
BY DEF Off, Hushed, Rest, DogRegisters, DogCalls

(* wdt_set_timeout leaves WDE off, and WDIE on unless the gear is 0.       *)
LEMMA SetTimeoutIs ==
  ASSUME NEW g \in Nat
  PROVE  /\ SetTimeout(g) \in DogRegisters
         /\ SetTimeout(g).wde = FALSE /\ SetTimeout(g).wdie = (g > 0)
<1>0. (g > 0) \in BOOLEAN  OBVIOUS
<1>1. PICK b \in BOOLEAN : b = (g > 0)  BY <1>0, Zenon
<1>2. SetTimeout(g) = [Off EXCEPT !.gear = g, !.wdie = b]  BY <1>1 DEF SetTimeout
<1>3. SetTimeout(g) = [wde |-> FALSE, wdie |-> b, wdif |-> FALSE, gear |-> g]
  BY <1>2 DEF Off
<1>4. SetTimeout(g).wde = FALSE /\ SetTimeout(g).wdie = b  BY <1>3
<1>5. SetTimeout(g) \in DogRegisters  BY <1>3 DEF DogRegisters
<1> QED  BY <1>1, <1>4, <1>5

(* The calls of the thread, step by step.                                  *)
LEMMA GuardKeeps == ASSUME DogLocal, Up, Up', WdogGuard PROVE DogLocal'
<1>1. PICK b \in BOOLEAN, g \in Gears : wpc' = <<"cb1", Call(b, g)>>  BY DEF WdogGuard
<1>2. Call(b, g) \in DogCalls  BY WatchdogAssumption DEF Call, DogCalls
<1>3. wpc'[1] = "cb1" /\ wpc'[2] = Call(b, g) /\ wpc[1] = "idle"
  BY <1>1, OffIs DEF WdogGuard
<1>4. /\ wdogLock' = TRUE /\ reguarded' = (reguarded \/ Awake)
      /\ UNCHANGED <<wd, cb, val, asked, barked, halved>>
  BY DEF WdogGuard
<1>5. reguarded' \in BOOLEAN  BY <1>4 DEF DogLocal, DogTypes
<1>6. DogTypes'  BY <1>1, <1>2, <1>3, <1>4, <1>5 DEF DogLocal, DogTypes
<1>7. BiteAsked'  BY <1>3, <1>4 DEF DogLocal, BiteAsked, Guarding
<1>8. BarkFirst'  BY <1>3, <1>4 DEF DogLocal, BarkFirst, Guarding
<1>9. CallbackWhole'
  <2>1. Awake' = Awake  BY <1>4 DEF Awake
  <2>2. reguarded' \/ ~Awake'  BY <1>4, <2>1
  <2>3. halved' => reguarded'  BY <1>4 DEF DogLocal, CallbackWhole
  <2> QED  BY <1>3, <1>4, <2>2, <2>3 DEF DogLocal, CallbackWhole
<1> QED  BY <1>6, <1>7, <1>8, <1>9 DEF DogLocal

(* platform_wdt_guard stores the callback, byte by byte. *)
LEMMA CallbackKeeps == ASSUME DogLocal, Up, Up', GuardCallback PROVE DogLocal'
<1>0. /\ wpc[1] \in {"cb1", "cb2"} /\ wpc[2] \in DogCalls /\ wpc = <<wpc[1], wpc[2]>>
      /\ asked \in DogCalls /\ cb \in (0 .. 2) \X (0 .. 2) /\ cb = <<cb[1], cb[2]>>
  BY DEF GuardCallback, DogLocal, DogTypes
<1>1. /\ wpc[1] = "cb1" => wpc' = <<"cb2", wpc[2]>> /\ cb' = <<IF cb[1] = 1 THEN 2 ELSE 1, cb[2]>>
      /\ wpc[1] = "cb2" => wpc' = <<"set", wpc[2]>> /\ cb' = <<cb[1], cb[1]>>
      /\ asked' = [wpc[2] EXCEPT !.ok = FALSE, !.bite = @ \/ asked.bite] /\ barked' = FALSE
      /\ UNCHANGED <<wd, wdogLock, val, reguarded, halved>>
  BY <1>0 DEF GuardCallback
<1>2. /\ wpc'[1] \in {"cb2", "set"} /\ wpc'[2] = wpc[2]
      /\ wpc'[1] = "set" => cb'[1] = cb'[2]
      /\ cb' \in (0 .. 2) \X (0 .. 2) /\ wpc' \in {"cb2", "set"} \X DogCalls
  BY <1>0, <1>1
<1>3. asked' \in DogCalls /\ asked'.ok = FALSE /\ asked'.bite = (wpc[2].bite \/ asked.bite)
  BY <1>0, <1>1 DEF DogCalls
<1>4. wdogLock  BY <1>0 DEF DogLocal, DogTypes
<1>6. DogTypes'  BY <1>1, <1>2, <1>3, <1>4 DEF DogLocal, DogTypes, Guarding
<1>7. BiteAsked'
  <2>1. wd'.wde => asked'.bite  BY <1>1, <1>3 DEF DogLocal, BiteAsked
  <2>2. wpc'[2].bite => asked'.bite  BY <1>2, <1>3
  <2> QED  BY <1>2, <2>1, <2>2 DEF BiteAsked
<1>8. BarkFirst'  BY <1>2, <1>3 DEF BarkFirst
<1>9. CallbackWhole'
  <2>1. Awake' = Awake  BY <1>1 DEF Awake
  <2> QED  BY <1>0, <1>1, <1>2, <2>1 DEF DogLocal, CallbackWhole
<1> QED  BY <1>6, <1>7, <1>8, <1>9 DEF DogLocal

(* wdt_set_timeout, refused or written. *)
LEMMA TimeoutKeeps == ASSUME DogLocal, Up, Up', GuardSetTimeout PROVE DogLocal'
<1>0. wpc[1] = "set" /\ wpc[2] \in DogCalls /\ wdogLock /\ wpc[2].gear \in Nat
  BY DEF GuardSetTimeout, DogLocal, DogTypes, DogCalls
<1>f. UNCHANGED <<wdogLock, cb, val, asked, reguarded, barked, halved>>  BY DEF GuardSetTimeout
<1>c. cb[1] = cb[2] /\ (wpc[2].bite => asked.bite) /\ (~asked.ok \/ asked.gear = 0)
  BY <1>0 DEF DogLocal, CallbackWhole, BiteAsked, BarkFirst, Guarding
<1>1. CASE TimeoutValid(wpc[2].gear)
  <2>1. WriteWdtcsr(SetTimeout(wpc[2].gear)) /\ wpc' = <<"check", wpc[2]>>
    BY <1>1 DEF GuardSetTimeout
  <2>2. /\ wd' \in DogRegisters /\ wd'.wde = FALSE /\ wd'.wdie = (wpc[2].gear > 0)
    BY <1>0, <2>1, SetTimeoutIs, WriteIs
  <2>3. wpc'[1] = "check" /\ wpc'[2] = wpc[2]  BY <2>1
  <2>4. DogTypes'  BY <1>0, <1>f, <2>1, <2>2, <2>3 DEF DogLocal, DogTypes, Guarding
  <2>5. BiteAsked'  BY <1>c, <1>f, <2>2, <2>3 DEF BiteAsked
  <2>6. BarkFirst'
    <3>1. wpc'[2].gear > 0 => wd'.wdie  BY <2>2, <2>3
    <3>2. ~asked'.ok \/ asked'.gear = 0  BY <1>c, <1>f
    <3>3. ~(0 > 0)  OBVIOUS
    <3> QED  BY <2>3, <3>1, <3>2, <3>3 DEF BarkFirst
  <2>7. CallbackWhole'  BY <1>c, <1>f, <2>3 DEF DogLocal, CallbackWhole
  <2> QED  BY <2>4, <2>5, <2>6, <2>7 DEF DogLocal
<1>2. CASE ~TimeoutValid(wpc[2].gear)
  <2>1. UNCHANGED wd /\ wpc' = <<"read", [wpc[2] EXCEPT !.ok = FALSE]>>
    BY <1>2 DEF GuardSetTimeout
  <2>2. [wpc[2] EXCEPT !.ok = FALSE] \in DogCalls  BY <1>0 DEF DogCalls
  <2>3. wpc'[1] = "read" /\ wpc'[2] \in DogCalls /\ wpc'[2].ok = FALSE /\ wpc'[2].bite = wpc[2].bite
    BY <1>0, <2>1, <2>2 DEF DogCalls
  <2>4. DogTypes'  BY <1>0, <1>f, <2>1, <2>2, <2>3 DEF DogLocal, DogTypes, Guarding
  <2>5. BiteAsked'  BY <1>c, <1>f, <2>1, <2>3 DEF DogLocal, BiteAsked
  <2>6. BarkFirst'  BY <1>c, <1>f, <2>1, <2>3 DEF DogLocal, BarkFirst
  <2>7. CallbackWhole'  BY <1>c, <1>f, <2>1, <2>3 DEF DogLocal, CallbackWhole
  <2> QED  BY <2>4, <2>5, <2>6, <2>7 DEF DogLocal
<1> QED  BY <1>1, <1>2

(* The register is read back and compared. *)
LEMMA CheckKeeps == ASSUME DogLocal, Up, Up', CheckBack PROVE DogLocal'
<1>0. /\ wpc[1] \in {"check", "check2"} /\ wpc[2] \in DogCalls /\ wdogLock
      /\ UNCHANGED <<wd, wdogLock, cb, val, asked, reguarded, barked, halved>>
  BY DEF CheckBack, DogLocal, DogTypes
<1>1. PICK ok \in BOOLEAN :
        /\ ok => wpc[2].ok
        /\ wpc' = IF wpc[1] = "check" THEN <<"read", [wpc[2] EXCEPT !.ok = ok]>>
                  ELSE <<"release", [wpc[2] EXCEPT !.ok = ok]>>
  <2> DEFINE want == IF wpc[1] = "check" THEN SetTimeout(wpc[2].gear) ELSE val
             ok == wpc[2].ok /\ wd = want
  <2>1. ok \in BOOLEAN /\ (ok => wpc[2].ok)  OBVIOUS
  <2>2. wpc' = IF wpc[1] = "check" THEN <<"read", [wpc[2] EXCEPT !.ok = ok]>>
               ELSE <<"release", [wpc[2] EXCEPT !.ok = ok]>>
    BY DEF CheckBack
  <2> HIDE DEF ok
  <2> QED  BY <2>1, <2>2
<1>2. /\ wpc[1] = "check" => wpc'[1] = "read"
      /\ wpc[1] = "check2" => wpc'[1] = "release"
      /\ wpc'[2] = [wpc[2] EXCEPT !.ok = ok]
  BY <1>0, <1>1
<1>3. /\ wpc'[2] \in DogCalls /\ wpc'[2].ok = ok /\ wpc'[2].bite = wpc[2].bite
      /\ wpc'[2].gear = wpc[2].gear
  BY <1>0, <1>1, <1>2 DEF DogCalls
<1>4. wpc' \in {"read", "release"} \X DogCalls  BY <1>0, <1>1, <1>2, <1>3
<1>6. DogTypes'  BY <1>0, <1>2, <1>3, <1>4 DEF DogLocal, DogTypes, Guarding
<1>7. BiteAsked'  BY <1>0, <1>2, <1>3 DEF DogLocal, BiteAsked, Guarding
<1>8. BarkFirst'  BY <1>0, <1>1, <1>2, <1>3 DEF DogLocal, BarkFirst, Guarding
<1>9. CallbackWhole'  BY <1>0, <1>2 DEF DogLocal, CallbackWhole
<1> QED  BY <1>6, <1>7, <1>8, <1>9 DEF DogLocal

(* wdt_sre and wdt_srd read the register. *)
LEMMA ReadKeeps == ASSUME DogLocal, Up, Up', ReadWdtcsr PROVE DogLocal'
<1>0. /\ wpc[1] = "read" /\ wpc[2] \in DogCalls /\ wdogLock /\ wd \in DogRegisters
      /\ wpc' = <<"write", wpc[2]>> /\ val' = (IF wpc[2].bite THEN WdtSre ELSE WdtSrd)
      /\ UNCHANGED <<wd, wdogLock, cb, asked, reguarded, barked, halved>>
  BY DEF ReadWdtcsr, DogLocal, DogTypes
<1>1. wpc'[1] = "write" /\ wpc'[2] = wpc[2]  BY <1>0
<1>2. val' \in DogRegisters /\ val'.wde = wpc[2].bite /\ val'.wdie = wd.wdie
  BY <1>0 DEF WdtSre, WdtSrd, DogRegisters, DogCalls
<1>6. DogTypes'  BY <1>0, <1>1, <1>2 DEF DogLocal, DogTypes, Guarding
<1>7. BiteAsked'  BY <1>0, <1>1, <1>2 DEF DogLocal, BiteAsked, Guarding
<1>8. BarkFirst'  BY <1>0, <1>1, <1>2 DEF DogLocal, BarkFirst, Guarding
<1>9. CallbackWhole'  BY <1>0, <1>1 DEF DogLocal, CallbackWhole
<1> QED  BY <1>6, <1>7, <1>8, <1>9 DEF DogLocal

(* wdt_sre and wdt_srd write it. *)
LEMMA WriteKeeps == ASSUME DogLocal, Up, Up', WriteBack PROVE DogLocal'
<1>0. /\ wpc[1] = "write" /\ wpc[2] \in DogCalls /\ wdogLock /\ val \in DogRegisters
      /\ wpc' = <<"check2", wpc[2]>> /\ WriteWdtcsr(val)
      /\ UNCHANGED <<wdogLock, cb, val, asked, reguarded, barked, halved>>
  BY DEF WriteBack, DogLocal, DogTypes
<1>1. wpc'[1] = "check2" /\ wpc'[2] = wpc[2]  BY <1>0
<1>2. wd' \in DogRegisters /\ wd'.wde = val.wde /\ wd'.wdie = val.wdie  BY <1>0, WriteIs
<1>6. DogTypes'  BY <1>0, <1>1, <1>2 DEF DogLocal, DogTypes, Guarding
<1>7. BiteAsked'  BY <1>0, <1>1, <1>2 DEF DogLocal, BiteAsked, Guarding
<1>8. BarkFirst'  BY <1>0, <1>1, <1>2 DEF DogLocal, BarkFirst, Guarding
<1>9. CallbackWhole'  BY <1>0, <1>1 DEF DogLocal, CallbackWhole
<1> QED  BY <1>6, <1>7, <1>8, <1>9 DEF DogLocal

(* wdog_hush takes the lock. *)
LEMMA HushKeeps == ASSUME DogLocal, Up, Up', WdogHush PROVE DogLocal'
<1>0. /\ wpc = Rest /\ wpc' = <<"hush", Hushed>> /\ wdogLock' = TRUE
      /\ UNCHANGED <<wd, cb, val, asked, reguarded, barked, halved>>
  BY DEF WdogHush
<1>1. wpc'[1] = "hush" /\ wpc'[2] = Hushed /\ wpc[1] = "idle"  BY <1>0, OffIs
<1>6. DogTypes'  BY <1>0, <1>1, OffIs DEF DogLocal, DogTypes
<1>7. BiteAsked'  BY <1>0, <1>1 DEF DogLocal, BiteAsked, Guarding
<1>8. BarkFirst'  BY <1>0, <1>1 DEF DogLocal, BarkFirst, Guarding
<1>9. CallbackWhole'  BY <1>0, <1>1 DEF DogLocal, CallbackWhole
<1> QED  BY <1>6, <1>7, <1>8, <1>9 DEF DogLocal

(* platform_wdt_hush turns the timeout off. *)
LEMMA HushTimeoutKeeps == ASSUME DogLocal, Up, Up', HushTimeout PROVE DogLocal'
<1>0. /\ wpc[1] = "hush" /\ wpc[2] = Hushed /\ wdogLock
      /\ wpc' = <<"read", wpc[2]>> /\ WriteWdtcsr(SetTimeout(0)) /\ asked' = Hushed
      /\ UNCHANGED <<wdogLock, cb, val, reguarded, barked, halved>>
  BY DEF HushTimeout, DogLocal, DogTypes
<1>1. wpc'[1] = "read" /\ wpc'[2] = Hushed  BY <1>0
<1>2. wd' \in DogRegisters /\ wd'.wde = FALSE  BY <1>0, SetTimeoutIs, WriteIs
<1>6. DogTypes'  BY <1>0, <1>1, <1>2, OffIs DEF DogLocal, DogTypes, Guarding
<1>7. BiteAsked'  BY <1>0, <1>1, <1>2, OffIs DEF BiteAsked
<1>8. BarkFirst'  BY <1>0, <1>1, OffIs DEF BarkFirst
<1>9. CallbackWhole'  BY <1>0, <1>1 DEF DogLocal, CallbackWhole
<1> QED  BY <1>6, <1>7, <1>8, <1>9 DEF DogLocal

(* wdog_guard and wdog_hush return. *)
LEMMA ReleaseKeeps == ASSUME DogLocal, Up, Up', Release PROVE DogLocal'
<1>0. /\ wpc[1] = "release" /\ wpc[2] \in DogCalls
      /\ wpc' = Rest /\ asked' = wpc[2] /\ wdogLock' = FALSE
      /\ UNCHANGED <<wd, cb, val, reguarded, barked, halved>>
  BY DEF Release, DogLocal, DogTypes
<1>1. wpc'[1] = "idle" /\ wpc'[2] = Hushed /\ wpc' = <<"idle", Hushed>>  BY <1>0, OffIs DEF Rest
<1>6. DogTypes'  BY <1>0, <1>1, OffIs DEF DogLocal, DogTypes
<1>7. BiteAsked'  BY <1>0, <1>1 DEF DogLocal, BiteAsked, Guarding
<1>8. BarkFirst'  BY <1>0, <1>1 DEF DogLocal, BarkFirst, Guarding
<1>9. CallbackWhole'  BY <1>0, <1>1 DEF DogLocal, CallbackWhole
<1> QED  BY <1>6, <1>7, <1>8, <1>9 DEF DogLocal

(* plat_wdt_driver_setup and plat_wdt_driver_exit turn the dog off.        *)
LEMMA DriverKeeps == ASSUME DogLocal, Up, Up', WdogSetup \/ WdogExit PROVE DogLocal'
<1>0. /\ wpc = Rest /\ WriteWdtcsr(Off) /\ asked' = Hushed
      /\ UNCHANGED <<wpc, wdogLock, cb, val, reguarded, barked, halved>>
  BY DEF WdogSetup, WdogExit, WdtSetup, WdtShutdown
<1>1. wpc'[1] = "idle"  BY <1>0, OffIs
<1>2. wd' \in DogRegisters /\ wd'.wde = FALSE  BY <1>0, OffIs, WriteIs
<1>6. DogTypes'  BY <1>0, <1>1, <1>2, OffIs DEF DogLocal, DogTypes
<1>7. BiteAsked'  BY <1>1, <1>2 DEF BiteAsked, Guarding
<1>8. BarkFirst'  BY <1>0, <1>1, OffIs DEF BarkFirst, Guarding
<1>9. CallbackWhole'  BY <1>0, <1>1 DEF DogLocal, CallbackWhole
<1> QED  BY <1>6, <1>7, <1>8, <1>9 DEF DogLocal

(* The first time the watchdog's time runs out.                            *)
LEMMA TimeOutKeeps ==
  ASSUME DogLocal, Up, Up', wd.wdie /\ ~wd.wdif, wd' = [wd EXCEPT !.wdif = TRUE],
         UNCHANGED <<wpc, wdogLock, cb, val, asked, reguarded, barked, halved>>
  PROVE  DogLocal'
<1>1. wd' \in DogRegisters /\ wd'.wde = wd.wde /\ wd'.wdie = wd.wdie
  BY DEF DogLocal, DogTypes, DogRegisters
<1>6. DogTypes'  BY <1>1 DEF DogLocal, DogTypes
<1>7. BiteAsked'  BY <1>1 DEF DogLocal, BiteAsked
<1>8. BarkFirst'  BY <1>1 DEF DogLocal, BarkFirst
<1>9. CallbackWhole'  BY <1>1 DEF DogLocal, CallbackWhole, Awake
<1> QED  BY <1>6, <1>7, <1>8, <1>9 DEF DogLocal

(* The bark, with a callback that returns, hushes the dog or spins.        *)
LEMMA BarkKeeps == ASSUME DogLocal, Up, Up', Bark PROVE DogLocal'
<1>0. /\ wd \in DogRegisters /\ wd.wdif /\ wd.wdie /\ barked' = TRUE
      /\ halved' = (halved \/ (cb[1] # cb[2] /\ cb[2] # 0))
      /\ UNCHANGED <<wpc, wdogLock, cb, val, reguarded>>
  BY DEF Bark, DogLocal, DogTypes
<1>1. Awake  BY <1>0 DEF Awake
<1>2. halved' => reguarded'
  <2>1. wpc[1] = "cb2" => reguarded  BY <1>1 DEF DogLocal, CallbackWhole
  <2>2. wpc[1] # "cb2" => cb[1] = cb[2]  BY DEF DogLocal, CallbackWhole
  <2>3. halved => reguarded  BY DEF DogLocal, CallbackWhole
  <2> QED  BY <1>0, <2>1, <2>2, <2>3
<1>3. halved' \in BOOLEAN  BY <1>0 DEF DogLocal, DogTypes
<1>4. CallbackWhole'
  <2>1. wpc'[1] \in {"cb1", "cb2", "set"} => reguarded'
    BY <1>0, <1>1 DEF DogLocal, CallbackWhole
  <2> QED  BY <1>0, <1>2, <2>1 DEF DogLocal, CallbackWhole
<1>5. CASE wd' = [wd EXCEPT !.wdif = FALSE, !.wdie = ~wd.wde] /\ UNCHANGED asked
  <2>1. wd' \in DogRegisters /\ wd'.wde = wd.wde  BY <1>0, <1>5 DEF DogRegisters
  <2>2. DogTypes'  BY <1>0, <1>3, <1>5, <2>1 DEF DogLocal, DogTypes
  <2>3. BiteAsked'  BY <1>0, <1>5, <2>1 DEF DogLocal, BiteAsked
  <2>4. BarkFirst'  BY <1>0, <1>5 DEF DogLocal, BarkFirst
  <2> QED  BY <1>4, <2>2, <2>3, <2>4 DEF DogLocal
<1>6. CASE ~wdogLock /\ wd' = Off /\ asked' = Hushed
  <2>1. wpc[1] = "idle"  BY <1>6 DEF DogLocal, DogTypes
  <2>2. DogTypes'  BY <1>0, <1>3, <1>6, OffIs DEF DogLocal, DogTypes
  <2>3. BiteAsked'  BY <1>0, <1>6, <2>1, OffIs DEF BiteAsked, Guarding
  <2>4. BarkFirst'  BY <1>0, <1>6, <2>1, OffIs DEF BarkFirst, Guarding
  <2> QED  BY <1>4, <2>2, <2>3, <2>4 DEF DogLocal
<1> QED  BY <1>5, <1>6 DEF Bark

(* A bite comes only when asked for, after the bark that was promised.     *)
LEMMA BiteIsAsked ==
  ASSUME DogLocal, Up, Bite PROVE bites' = "asked"
<1>1. wd.wde /\ (wd.wdif \/ ~wd.wdie)  BY DEF Bite
<1>2. asked.bite  BY <1>1 DEF DogLocal, BiteAsked
<1>3. asked.ok /\ asked.gear > 0 => barked \/ wd.wdif
  BY <1>1 DEF DogLocal, BarkFirst
<1> QED  BY <1>2, <1>3 DEF Bite

(* A reset starts the boot over.                                           *)
LEMMA RestartKeeps ==
  ASSUME Booted, Causes, NEW cause, Restart(cause)
  PROVE  /\ Booted' /\ ~Up'
         /\ bites' = "none" => Causes'
         /\ Up /\ cause = "wdog_reset" => Causes'
<1>0. plat \in {"sifive", "ibex", "avr"} /\ UNCHANGED plat  BY DEF Booted, Restart
<1>1. step' = 1 /\ ended' = "booting"  BY DEF Restart
<1>2. Len(Steps)' \in Nat /\ 1 <= Len(Steps)'
  <2>1. Steps' = Steps  BY <1>0 DEF Steps
  <2> QED  BY <1>0, <2>1, SifiveSteps, IbexSteps, AvrSteps
<1>3. Booted'
  <2>1. step' \in 1 .. Len(Steps)'  BY <1>1, <1>2
  <2>2. 1 .. step' - 1 = {}  BY <1>1
  <2> QED  BY <1>0, <1>1, <2>1, <2>2 DEF Booted
<1>4. ~(1 > 8) /\ ~(1 > 9) /\ 1 <= 8 /\ 1 <= 12  OBVIOUS
<1>5. bites' = "none" => Causes'  BY <1>0, <1>1, <1>4 DEF Causes
<1>6. ASSUME Up, cause = "wdog_reset" PROVE Causes'
  <2>1. plat = "avr" /\ ended = "up"  BY <1>6 DEF Up
  <2>2. resets = {}  BY <2>1 DEF Causes
  <2>3. resets' = {"wdog_reset"}  BY <1>6, <2>1, <2>2 DEF Restart
  <2> QED  BY <1>0, <1>1, <1>4, <2>1, <2>3 DEF Causes
<1> QED  BY <1>1, <1>3, <1>5, <1>6 DEF Up

(* After a reset the watchdog's driver starts from nothing.                *)
LEMMA ResetKeeps ==
  ASSUME DogLocal, ~Up', wd' \in DogRegisters, val' \in DogRegisters,
         wpc' = Rest, asked' = Hushed, wdogLock' = FALSE, barked' = FALSE, cb' = <<0, 0>>,
         UNCHANGED <<reguarded, halved>> \/ (reguarded' = FALSE /\ halved' = FALSE)
  PROVE  DogLocal'
<1>1. wpc'[1] = "idle"  BY OffIs
<1>2. Rest \in (Guarding \cup {"idle", "cb1", "hush"}) \X DogCalls  BY OffIs DEF Rest
<1>3. cb' \in (0 .. 2) \X (0 .. 2) /\ cb'[1] = cb'[2]  OBVIOUS
<1>4. /\ reguarded' \in BOOLEAN /\ halved' \in BOOLEAN /\ (halved' => reguarded')
  <2>1. CASE UNCHANGED <<reguarded, halved>>
    BY <2>1 DEF DogLocal, DogTypes, CallbackWhole
  <2>2. CASE reguarded' = FALSE /\ halved' = FALSE  BY <2>2
  <2> QED  BY <2>1, <2>2
<1>6. DogTypes'  BY <1>1, <1>2, <1>3, <1>4, OffIs DEF DogTypes
<1>7. BiteAsked'  BY <1>1 DEF BiteAsked, Guarding
<1>8. BarkFirst'  BY <1>1 DEF BarkFirst, Guarding
<1>9. CallbackWhole'  BY <1>1, <1>3, <1>4 DEF CallbackWhole
<1> QED  BY <1>6, <1>7, <1>8, <1>9 DEF DogLocal

(* The boot itself calls no function of the watchdog but its reset.        *)
LEMMA BootingKeeps ==
  ASSUME DogLocal, Booted, Causes, ended = "booting", Booting PROVE DogLocal'
<1>1. /\ wd' = Off \/ wd' = wd
      /\ UNCHANGED <<wpc, wdogLock, cb, val, asked, reguarded, barked, halved>>
  BY DEF Booting
<1>2. wpc = Rest /\ asked = Hushed /\ wpc[1] = "idle"
  BY OffIs DEF DogLocal, DogTypes, Up
<1>3. Up' => ~wd'.wde
  <2>1. SUFFICES ASSUME Up' PROVE wd' = Off  BY OffIs
  <2>2. plat = "avr" /\ plat' = "avr" /\ ended' = "up"  BY <2>1 DEF Up, Booting, BootStep
  <2>3. step \in 1 .. Len(Steps) /\ Len(Steps) = 13  BY <2>2, AvrSteps DEF Booted
  <2>4. step = Len(Steps)
    BY <2>2 DEF Booting, BootStep
  <2>5. wd = Off  BY <2>2, <2>3, <2>4 DEF Causes
  <2> QED  BY <1>1, <2>5
<1>6. DogTypes'  BY <1>1, <1>2, OffIs DEF DogLocal, DogTypes
<1>7. BiteAsked'  BY <1>1, <1>2, <1>3 DEF BiteAsked, Guarding
<1>8. BarkFirst'  BY <1>1, <1>2, OffIs DEF BarkFirst, Guarding
<1>9. CallbackWhole'  BY <1>1, <1>2 DEF DogLocal, CallbackWhole
<1> QED  BY <1>6, <1>7, <1>8, <1>9 DEF DogLocal

(* The invariant of the boot and the watchdog.                             *)
LEMMA DogInvariant == WSpec => []DogInv
<1>1. WInit => DogInv
  <2> SUFFICES ASSUME WInit PROVE DogInv  OBVIOUS
  <2>1. plat \in {"sifive", "ibex", "avr"} /\ step = 1 /\ ended = "booting" /\ bites = "none"
    BY BootAssumption DEF WInit, BInit
  <2>2. Len(Steps) \in Nat /\ 1 <= Len(Steps)
    BY <2>1, SifiveSteps, IbexSteps, AvrSteps
  <2>3. Booted
    <3>1. step \in 1 .. Len(Steps)  BY <2>1, <2>2
    <3>2. 1 .. step - 1 = {}  BY <2>1
    <3> QED  BY <2>1, <3>1, <3>2 DEF Booted
  <2>4. ~(1 > 8) /\ ~(1 > 9)  OBVIOUS
  <2>5. Causes  BY <2>1, <2>4 DEF Causes
  <2>6. ~Up  BY <2>1 DEF Up
  <2>7. wpc[1] = "idle" /\ wpc = Rest /\ asked = Hushed /\ cb = <<0, 0>>  BY OffIs DEF WInit
  <2>8. Rest \in (Guarding \cup {"idle", "cb1", "hush"}) \X DogCalls  BY OffIs DEF Rest
  <2>9. cb \in (0 .. 2) \X (0 .. 2) /\ cb[1] = cb[2]  BY <2>7
  <2>10. DogTypes  BY <2>7, <2>8, <2>9, OffIs DEF DogTypes, WInit
  <2>11. BiteAsked  BY <2>6, <2>7 DEF BiteAsked, Guarding
  <2>12. BarkFirst  BY <2>6, <2>7 DEF BarkFirst, Guarding
  <2>13. CallbackWhole  BY <2>7, <2>9 DEF CallbackWhole, WInit
  <2> QED  BY <2>1, <2>3, <2>5, <2>10, <2>11, <2>12, <2>13 DEF DogInv
<1>2. ASSUME DogInv, [WNext]_wvars PROVE DogInv'
  <2>0. Booted /\ Causes /\ DogLocal /\ bites # "unasked"  BY <1>2 DEF DogInv, DogLocal
  <2> SUFFICES Booted' /\ Causes' /\ DogLocal' /\ bites' # "unasked"  BY DEF DogInv, DogLocal
  <2>1. CASE ended = "booting" /\ Booting
    <3>1. bites' = bites  BY <2>1 DEF Booting
    <3> QED  BY <2>0, <2>1, <3>1, BootKeeps, BootingKeeps
  <2>2. CASE WdogGuard \/ GuardCallback \/ GuardSetTimeout \/ CheckBack \/ ReadWdtcsr \/ WriteBack
             \/ WdogHush \/ HushTimeout \/ Release \/ WdogSetup \/ WdogExit
    <3>1. Up /\ UNCHANGED <<bvars, bites>>
      BY <2>2 DEF WdogGuard, GuardCallback, GuardSetTimeout, CheckBack, ReadWdtcsr, WriteBack,
                  WdogHush, HushTimeout, Release, WdogSetup, WdogExit
    <3>2. Booted' /\ Causes' /\ Up'  BY <2>0, <3>1, UpFrame
    <3>3. DogLocal'
      BY <2>0, <2>2, <3>1, <3>2, GuardKeeps, CallbackKeeps, TimeoutKeeps, CheckKeeps, ReadKeeps,
         WriteKeeps, HushKeeps, HushTimeoutKeeps, ReleaseKeeps, DriverKeeps
    <3> QED  BY <2>0, <3>1, <3>2, <3>3
  <2>3. CASE Mask
    <3>1. Up /\ UNCHANGED <<bvars, bites>>
          /\ UNCHANGED <<wd, wpc, wdogLock, cb, val, asked, reguarded, barked, halved>>
      BY <2>3 DEF Mask
    <3>2. Booted' /\ Causes' /\ Up'  BY <2>0, <3>1, UpFrame
    <3>3. DogLocal'
      BY <2>0, <3>1, <3>2 DEF DogLocal, DogTypes, BiteAsked, BarkFirst, CallbackWhole, Awake
    <3> QED  BY <2>0, <3>1, <3>2, <3>3
  <2>4. CASE TimeOut /\ ~Bite
    <3>1. /\ Up /\ UNCHANGED <<bvars, bites>> /\ wd.wdie /\ ~wd.wdif
          /\ wd' = [wd EXCEPT !.wdif = TRUE]
          /\ UNCHANGED <<wpc, wdogLock, cb, val, asked, reguarded, barked, halved>>
      BY <2>4 DEF TimeOut
    <3>2. Booted' /\ Causes' /\ Up'  BY <2>0, <3>1, UpFrame
    <3>3. DogLocal'  BY <2>0, <3>1, <3>2, TimeOutKeeps
    <3> QED  BY <2>0, <3>1, <3>2, <3>3
  <2>5. CASE TimeOut /\ Bite
    <3>1. Up /\ bites' = "asked"  BY <2>0, <2>5, BiteIsAsked DEF TimeOut
    <3>2. Restart("wdog_reset")  BY <2>5 DEF Bite
    <3>3. Booted' /\ ~Up' /\ Causes'  BY <2>0, <3>1, <3>2, RestartKeeps
    <3>4. /\ wd' = [Off EXCEPT !.wde = TRUE] /\ UNCHANGED <<val, reguarded, halved>>
          /\ wpc' = Rest /\ asked' = Hushed /\ wdogLock' = FALSE /\ barked' = FALSE /\ cb' = <<0, 0>>
      BY <2>5 DEF Bite
    <3>5. wd' \in DogRegisters /\ val' \in DogRegisters
      BY <2>0, <3>4, OffIs DEF DogLocal, DogTypes, DogRegisters
    <3>6. DogLocal'  BY <2>0, <3>3, <3>4, <3>5, ResetKeeps
    <3> QED  BY <3>1, <3>3, <3>6
  <2>6. CASE Bark
    <3>1. Up /\ UNCHANGED <<bvars, bites>>  BY <2>6 DEF Bark
    <3>2. Booted' /\ Causes' /\ Up'  BY <2>0, <3>1, UpFrame
    <3>3. DogLocal'  BY <2>0, <2>6, <3>1, <3>2, BarkKeeps
    <3> QED  BY <2>0, <3>1, <3>2, <3>3
  <2>7. CASE \E c \in {"power_on_reset", "external_reset"} : Reset(c)
    <3>1. PICK c : Reset(c)  BY <2>7
    <3>2. Restart(c) /\ bites' = "none"  BY <3>1 DEF Reset
    <3>3. Booted' /\ ~Up' /\ Causes'  BY <2>0, <3>2, RestartKeeps
    <3>4. /\ wd' = (IF c = "power_on_reset" THEN Off ELSE [Off EXCEPT !.wde = "wdog_reset" \in resets])
          /\ val' = Off /\ reguarded' = FALSE /\ halved' = FALSE
          /\ wpc' = Rest /\ asked' = Hushed /\ wdogLock' = FALSE /\ barked' = FALSE /\ cb' = <<0, 0>>
      BY <3>1 DEF Reset
    <3>5. wd' \in DogRegisters /\ val' \in DogRegisters
      <4>0. ("wdog_reset" \in resets) \in BOOLEAN  OBVIOUS
      <4>1. PICK b \in BOOLEAN : b = ("wdog_reset" \in resets)  BY <4>0, Zenon
      <4>2. [Off EXCEPT !.wde = b] \in DogRegisters  BY OffIs DEF DogRegisters
      <4> QED  BY <3>4, <4>1, <4>2, OffIs
    <3>6. DogLocal'  BY <2>0, <3>3, <3>4, <3>5, ResetKeeps
    <3> QED  BY <3>2, <3>3, <3>6
  <2>8. CASE UNCHANGED wvars
    <3>1. UNCHANGED <<plat, resets, step, have, syndrome, ended, bites>>
          /\ UNCHANGED <<wd, wpc, wdogLock, cb, val, asked, reguarded, barked, halved>>
      BY <2>8 DEF wvars, bvars, dvars
    <3>2. Booted'  BY <2>0, <3>1 DEF Booted, Steps, BssAt
    <3>3. Causes'  BY <2>0, <3>1 DEF Causes
    <3>4. DogLocal'
      BY <2>0, <3>1 DEF DogLocal, DogTypes, BiteAsked, BarkFirst, CallbackWhole, Awake, Up
    <3> QED  BY <2>0, <3>1, <3>2, <3>3, <3>4
  <2> QED  BY <1>2, <2>1, <2>2, <2>3, <2>4, <2>5, <2>6, <2>7, <2>8 DEF WNext
<1> QED  BY <1>1, <1>2, PTL DEF WSpec

(* The boot of sifive, ibex and mega_avr, and the watchdog of mega_avr     *)
(* across its resets, for every set of gears: no step of the boot runs     *)
(* before what it needs is there, a boot after a bite ends in the panic of *)
(* a watchdog reset, the dog bites only when the last guard asked for it   *)
(* and, once that guard returned, barks first, and the bark calls a        *)
(* callback of two halves only after a guard anew.                         *)
THEOREM StartupCorrect == WSpec => []StartupSafe
<1>1. DogInv => StartupSafe
  <2> SUFFICES ASSUME DogInv PROVE StartupSafe  OBVIOUS
  <2>1. ended \notin {"unmet", "exit"}  BY DEF DogInv, Booted
  <2>2. bites # "none" => plat = "avr" /\ ended # "up"  BY DEF DogInv, Causes
  <2>3. bites # "none" /\ ended = "panic" => Syndrome = "wdog_reset"
    BY <2>2, DogSyndrome DEF DogInv, Causes
  <2>4. DogSafe  BY DEF DogInv, CallbackWhole, DogSafe
  <2> QED  BY <2>1, <2>2, <2>3, <2>4 DEF StartupSafe, BootOrdered
<1> QED  BY <1>1, DogInvariant, PTL
-----------------------------------------------------------------------------
(* The receive ring. *)

(* An index below 2 * SIZE, wrapped. *)
Wrap(x) == IF x < SIZE THEN x ELSE x - SIZE

InDec == rd \in {"dec", "store"}

(* The bytes in the ring, and the one the reader has but not yet counted.  *)
Held == put - taken + (IF rd \in {"dec", "store"} THEN 1 ELSE 0)

(* There is something for the reader: occ says so, or has wrapped. *)
Filled(n) == n >= 1 \/ Held >= OccMod

(* The part of the inductive invariant that is about occ: it never counts  *)
(* more than there is, and the reader only goes on to read when it, or the *)
(* handler that is about to fill the ring, has something.                  *)
Count ==
  /\ taken <= put
  /\ occ <= Held
  /\ rd \in {"load", "dec"} => Filled(occ)
  /\ rd = "store" => Filled(tmp) /\ tmp <= Held
  /\ rd \in {"wfi", "asleep", "check"} /\ lock = 0 => Filled(occ) \/ (isr /\ nf > 0)

(* occ is exact as long as nothing went wrong, and the ring not overfull. *)
Exact ==
  /\ ~over => put - taken <= SIZE
  /\ ~over /\ ~torn => occ = Held
  /\ ~over /\ ~torn /\ rd = "store" => tmp = occ

(* The unread bytes lie in order from wp on, and rp follows them. *)
Placed ==
  ~over =>
    /\ rp = Wrap(wp + (put - taken))
    /\ \A k \in 0 .. SIZE : k < put - taken => buf[Wrap(wp + k)] = taken + 1 + k
    /\ InDec => got = taken

IInv == TypeOK /\ Count /\ Exact /\ Placed

-----------------------------------------------------------------------------
(* The remainders that the code computes are increments that wrap. *)
LEMMA Increment ==
  ASSUME NEW m \in Nat, NEW x \in 0 .. m - 1
  PROVE  (x + 1) % m = IF x + 1 = m THEN 0 ELSE x + 1
OBVIOUS

(* Likewise for the decrement. *)
LEMMA Decrement ==
  ASSUME NEW m \in Nat, NEW x \in 0 .. m - 1
  PROVE  (x + m - 1) % m = IF x = 0 THEN m - 1 ELSE x - 1
OBVIOUS

(* The initial state satisfies the inductive invariant. *)
LEMMA InitIInv == Init => IInv
<1> SUFFICES ASSUME Init PROVE IInv
  OBVIOUS
<1> USE RingAssumption DEF Init
<1>1. TypeOK
  <2>1. /\ nf \in 0 .. FifoDepth /\ wp \in 0 .. SIZE - 1 /\ rp \in 0 .. SIZE - 1
        /\ occ \in 0 .. OccMod - 1 /\ tmp \in 0 .. OccMod - 1
    OBVIOUS
  <2>2. buf \in [0 .. SIZE - 1 -> Nat] OBVIOUS
  <2>3. /\ isr \in BOOLEAN /\ over \in BOOLEAN /\ torn \in BOOLEAN /\ missed \in BOOLEAN
    OBVIOUS
  <2> QED BY <2>1, <2>2, <2>3 DEF TypeOK
<1>2. Count BY DEF Count, Held, Filled
<1>3. Exact BY DEF Exact, Held
<1>4. Placed BY DEF Placed, Wrap, InDec
<1> QED BY <1>1, <1>2, <1>3, <1>4 DEF IInv

(* Every step keeps every cell within its type. *)
LEMMA TypeStep == TypeOK /\ [Next]_vars => TypeOK'
<1> SUFFICES ASSUME TypeOK, [Next]_vars PROVE TypeOK'
  OBVIOUS
<1> USE RingAssumption DEF TypeOK
<1>1. CASE Arrive BY <1>1 DEF Arrive, ring, aux
<1>2. CASE Interrupt BY <1>2 DEF Interrupt, ring, aux
<1>3. CASE Drain
  <2>1. occ' \in 0 .. OccMod - 1 BY <1>3, Increment DEF Drain
  <2>2. rp' \in 0 .. SIZE - 1 BY <1>3, Increment DEF Drain
  <2>3. nf' \in 0 .. FifoDepth BY <1>3 DEF Drain
  <2> QED BY <1>3, <2>1, <2>2, <2>3 DEF Drain
<1>4. CASE EndInterrupt BY <1>4 DEF EndInterrupt, ring, aux
<1>5. CASE Tick BY <1>5 DEF Tick, hw, ring, aux
<1>6. CASE ReadCall BY <1>6 DEF ReadCall, Reader, hw, ring, aux
<1>7. CASE TestOcc BY <1>7 DEF TestOcc, Reader, hw, ring, aux
<1>8. CASE WaitLock BY <1>8 DEF WaitLock, Reader, hw, ring
<1>9. CASE Wfi BY <1>9 DEF Wfi, Reader, hw, ring, aux
<1>10. CASE CheckLock BY <1>10 DEF CheckLock, Reader, hw, ring, aux
<1>11. CASE Load
  <2>1. wp' \in 0 .. SIZE - 1 BY <1>11, Increment DEF Load
  <2> QED BY <1>11, <2>1 DEF Load, Reader, hw
<1>12. CASE LoadOcc BY <1>12 DEF LoadOcc, Reader, hw, ring, aux
<1>13. CASE StoreOcc
  <2>1. occ' \in 0 .. OccMod - 1 BY <1>13, Decrement DEF StoreOcc
  <2> QED BY <1>13, <2>1 DEF StoreOcc, Reader, hw, aux
<1>14. CASE UNCHANGED vars BY <1>14 DEF vars, hw, ring, aux
<1> QED
  BY <1>1, <1>2, <1>3, <1>4, <1>5, <1>6, <1>7, <1>8, <1>9, <1>10, <1>11, <1>12,
     <1>13, <1>14 DEF Next, Handler, Reading
(* The steps that the part of the invariant about occ depends on. *)
LEMMA CountStep == IInv /\ [Next]_vars => Count'
<1> SUFFICES ASSUME IInv, [Next]_vars PROVE Count'
  OBVIOUS
<1> USE RingAssumption DEF IInv, TypeOK, Count, Held, Filled
<1>1. CASE Arrive BY <1>1 DEF Arrive, ring, aux
<1>2. CASE Interrupt BY <1>2 DEF Interrupt, ring, aux
<1>3. CASE Drain
  <2>1. occ' = IF occ + 1 = OccMod THEN 0 ELSE occ + 1 BY <1>3, Increment DEF Drain
  <2> QED BY <1>3, <2>1 DEF Drain
<1>4. CASE EndInterrupt BY <1>4 DEF EndInterrupt, ring, aux
<1>5. CASE Tick BY <1>5 DEF Tick, hw, ring, aux
<1>6. CASE ReadCall BY <1>6 DEF ReadCall, Reader, hw, ring, aux
<1>7. CASE TestOcc BY <1>7 DEF TestOcc, Reader, hw, ring, aux
<1>8. CASE WaitLock BY <1>8 DEF WaitLock, Reader, hw, ring
<1>9. CASE Wfi BY <1>9 DEF Wfi, Reader, hw, ring, aux
<1>10. CASE CheckLock BY <1>10 DEF CheckLock, Reader, hw, ring, aux
<1>11. CASE Load BY <1>11 DEF Load, Reader, hw
<1>12. CASE LoadOcc BY <1>12 DEF LoadOcc, Reader, hw, ring, aux
<1>13. CASE StoreOcc
  <2>1. occ' = IF tmp = 0 THEN OccMod - 1 ELSE tmp - 1 BY <1>13, Decrement DEF StoreOcc
  <2> QED BY <1>13, <2>1 DEF StoreOcc, Reader, hw, aux
<1>14. CASE UNCHANGED vars BY <1>14 DEF vars, hw, ring, aux
<1> QED
  BY <1>1, <1>2, <1>3, <1>4, <1>5, <1>6, <1>7, <1>8, <1>9, <1>10, <1>11, <1>12,
     <1>13, <1>14 DEF Next, Handler, Reading

(* occ stays exact. *)
LEMMA ExactStep == IInv /\ [Next]_vars => Exact'
<1> SUFFICES ASSUME IInv, [Next]_vars PROVE Exact'
  OBVIOUS
<1> USE RingAssumption DEF IInv, TypeOK, Count, Exact, Held, Filled
<1>1. CASE Arrive BY <1>1 DEF Arrive, ring, aux
<1>2. CASE Interrupt BY <1>2 DEF Interrupt, ring, aux
<1>3. CASE Drain
  <2>1. occ' = IF occ + 1 = OccMod THEN 0 ELSE occ + 1 BY <1>3, Increment DEF Drain
  <2>2. ~over' => ~over /\ put - taken < SIZE
    <3>1. ~over' => ~over /\ ~(put - taken >= SIZE) BY <1>3, Zenon DEF Drain
    <3> QED BY <3>1
  <2>3. ~torn' => ~torn /\ rd # "store"
    BY <1>3, Zenon DEF Drain
  <2> QED BY <1>3, <2>1, <2>2, <2>3 DEF Drain
<1>4. CASE EndInterrupt BY <1>4 DEF EndInterrupt, ring, aux
<1>5. CASE Tick BY <1>5 DEF Tick, hw, ring, aux
<1>6. CASE ReadCall BY <1>6 DEF ReadCall, Reader, hw, ring, aux
<1>7. CASE TestOcc BY <1>7 DEF TestOcc, Reader, hw, ring, aux
<1>8. CASE WaitLock BY <1>8 DEF WaitLock, Reader, hw, ring
<1>9. CASE Wfi BY <1>9 DEF Wfi, Reader, hw, ring, aux
<1>10. CASE CheckLock BY <1>10 DEF CheckLock, Reader, hw, ring, aux
<1>11. CASE Load BY <1>11 DEF Load, Reader, hw
<1>12. CASE LoadOcc BY <1>12 DEF LoadOcc, Reader, hw, ring, aux
<1>13. CASE StoreOcc
  <2>1. occ' = IF tmp = 0 THEN OccMod - 1 ELSE tmp - 1 BY <1>13, Decrement DEF StoreOcc
  <2> QED BY <1>13, <2>1 DEF StoreOcc, Reader, hw, aux
<1>14. CASE UNCHANGED vars BY <1>14 DEF vars, hw, ring, aux
<1> QED
  BY <1>1, <1>2, <1>3, <1>4, <1>5, <1>6, <1>7, <1>8, <1>9, <1>10, <1>11, <1>12,
     <1>13, <1>14 DEF Next, Handler, Reading

(* The bytes stay where the reader will find them. *)
LEMMA PlacedStep == IInv /\ [Next]_vars => Placed'
<1> SUFFICES ASSUME IInv, [Next]_vars PROVE Placed'
  OBVIOUS
<1> USE RingAssumption DEF IInv, TypeOK, Placed, InDec
<1>1. CASE Arrive BY <1>1 DEF Arrive, ring, aux, Wrap
<1>2. CASE Interrupt BY <1>2 DEF Interrupt, ring, aux, Wrap
<1>3. CASE Drain
  <2> SUFFICES ASSUME ~over' PROVE Placed'
    OBVIOUS
  <2>1. ~over /\ put - taken < SIZE
    <3>1. ~over /\ ~(put - taken >= SIZE) BY <1>3, Zenon DEF Drain
    <3> QED BY <3>1
  <2>2. taken <= put BY DEF Count
  <2>3. rp' = IF rp + 1 = SIZE THEN 0 ELSE rp + 1 BY <1>3, Increment DEF Drain
  <2>4. rp' = Wrap(wp + (put + 1 - taken)) BY <2>1, <2>2, <2>3 DEF Wrap
  <2>5. ASSUME NEW k \in 0 .. SIZE, k < put + 1 - taken
        PROVE  buf'[Wrap(wp + k)] = taken + 1 + k
    <3>1. Wrap(wp + k) \in 0 .. SIZE - 1 BY <2>1, <2>5 DEF Wrap
    <3>2. CASE k = put - taken BY <1>3, <2>1, <3>1, <3>2 DEF Drain
    <3>3. CASE k < put - taken
      <4>1. Wrap(wp + k) # rp BY <2>1, <2>2, <3>3 DEF Wrap
      <4>2. buf[Wrap(wp + k)] = taken + 1 + k BY <2>1, <3>3
      <4> QED BY <1>3, <3>1, <4>1, <4>2 DEF Drain
    <3> QED BY <2>1, <2>2, <2>5, <3>2, <3>3
  <2>6. wp' = wp /\ put' = put + 1 /\ taken' = taken /\ rd' = rd /\ got' = got
    BY <1>3 DEF Drain
  <2>7. InDec' => got' = taken' BY <2>1, <2>6
  <2> QED BY <2>4, <2>5, <2>6, <2>7 DEF Wrap
<1>4. CASE EndInterrupt BY <1>4 DEF EndInterrupt, ring, aux, Wrap
<1>5. CASE Tick BY <1>5 DEF Tick, hw, ring, aux, Wrap
<1>6. CASE ReadCall BY <1>6 DEF ReadCall, Reader, hw, ring, aux, Wrap
<1>7. CASE TestOcc BY <1>7 DEF TestOcc, Reader, hw, ring, aux, Wrap
<1>8. CASE WaitLock BY <1>8 DEF WaitLock, Reader, hw, ring, Wrap
<1>9. CASE Wfi BY <1>9 DEF Wfi, Reader, hw, ring, aux, Wrap
<1>10. CASE CheckLock BY <1>10 DEF CheckLock, Reader, hw, ring, aux, Wrap
<1>11. CASE Load
  <2> SUFFICES ASSUME ~over' PROVE Placed'
    OBVIOUS
  <2>0. ~over BY <1>11, Zenon DEF Load
  <2>1. ~over /\ buf' = buf /\ rp' = rp /\ put' = put /\ taken' = taken + 1
    BY <1>11, <2>0 DEF Load
  <2>2. put > taken
    <3>1. rd = "load" BY <1>11 DEF Load, Reader
    <3> QED BY <3>1 DEF Count, Filled, Held
  <2>3. put - taken <= SIZE BY <2>1 DEF Exact
  <2>4. wp' = Wrap(wp + 1)
    <3>1. wp' = IF wp + 1 = SIZE THEN 0 ELSE wp + 1 BY <1>11, Increment DEF Load
    <3> QED BY <3>1 DEF Wrap
  <2>5. rp' = Wrap(wp' + (put' - taken')) BY <2>1, <2>2, <2>3, <2>4 DEF Wrap
  <2>6. ASSUME NEW k \in 0 .. SIZE, k < put' - taken'
        PROVE  buf'[Wrap(wp' + k)] = taken' + 1 + k
    <3>1. k + 1 \in 0 .. SIZE /\ k + 1 < put - taken BY <2>1, <2>3, <2>6
    <3>2. Wrap(wp' + k) = Wrap(wp + (k + 1)) BY <2>1, <2>3, <2>4, <3>1 DEF Wrap
    <3>3. buf[Wrap(wp + (k + 1))] = taken + 1 + (k + 1) BY <2>1, <3>1
    <3> QED BY <2>1, <3>2, <3>3
  <2>7. got' = taken'
    <3>1. 0 \in 0 .. SIZE /\ 0 < put - taken BY <2>2
    <3>2. Wrap(wp + 0) = wp BY DEF Wrap
    <3>3. buf[Wrap(wp + 0)] = taken + 1 + 0 BY <2>0, <3>1
    <3> QED BY <1>11, <2>1, <3>2, <3>3 DEF Load
  <2> QED BY <2>5, <2>6, <2>7 DEF Wrap
<1>12. CASE LoadOcc BY <1>12 DEF LoadOcc, Reader, hw, ring, aux, Wrap
<1>13. CASE StoreOcc BY <1>13 DEF StoreOcc, Reader, hw, aux, Wrap
<1>14. CASE UNCHANGED vars BY <1>14 DEF vars, hw, ring, aux, Wrap
<1> QED
  BY <1>1, <1>2, <1>3, <1>4, <1>5, <1>6, <1>7, <1>8, <1>9, <1>10, <1>11, <1>12,
     <1>13, <1>14 DEF Next, Handler, Reading

(* The inductive invariant holds throughout. *)
LEMMA RingInvariant == Spec => []IInv
<1>1. IInv /\ [Next]_vars => IInv'
  BY TypeStep, CountStep, ExactStep, PlacedStep DEF IInv
<1> QED BY <1>1, InitIInv, PTL DEF Spec

-----------------------------------------------------------------------------
(* Type correctness: no index of console_serial.c leaves con_buff, for     *)
(* every length of the ring and width of occ.                              *)
THEOREM RingTypeCorrect == Spec => []TypeOK
<1>1. IInv => TypeOK BY DEF IInv
<1> QED BY <1>1, RingInvariant, PTL

(* console_serial_read never reads an empty ring, and returns the bytes in *)
(* the order of their arrival.                                             *)
THEOREM RingReadsSound == Spec => []ReadsSound
<1>1. IInv => NeverReadsEmpty
  BY RingAssumption DEF IInv, TypeOK, Count, Filled, Held, NeverReadsEmpty
<1>2. IInv => ReadsInOrder BY DEF IInv, Placed, InDec, ReadsInOrder
<1>3. IInv => ReadsSound BY <1>1, <1>2 DEF ReadsSound
<1> QED BY <1>3, RingInvariant, PTL

(* occ is the number of bytes in the ring unless the handler interrupted   *)
(* the decrement or the ring overflowed, and never more.                   *)
THEOREM RingOccExact == Spec => []OccExact
<1>1. IInv => OccExact BY DEF IInv, Count, Exact, Held, OccExact
<1> QED BY <1>1, RingInvariant, PTL

-----------------------------------------------------------------------------
(* The console device. *)
Methods == {"write", "read", "flush", "payload"}

StdTypes ==
  /\ con \in Drivers \cup {"null"} /\ conAtt \in BOOLEAN /\ conLive \in SUBSET Drivers
  /\ conMeth \in [Drivers -> SUBSET Methods] /\ conStale \in SUBSET Methods
  /\ conDrv \in {DrvIdle} \cup ({"attach", "link", "flag", "release", "unflag", "free"} \X Drivers)
  /\ conUsr \in {UsrIdle} \cup ({"load"} \X Methods \X {"null"}) \cup ({"call"} \X Methods \X Drivers)
  /\ conFault \in {"none", "null", "dangling", "stale"}
  /\ met \in BOOLEAN /\ serialGone \in BOOLEAN /\ dumping \in BOOLEAN /\ logAtt \in BOOLEAN
  /\ memPtr \in Nat /\ memRead \in Nat

(* Where drv is in a setup or an exit says which memory is allocated, what *)
(* con points to and what console_attached says.                           *)
DrvAt ==
  LET d == conDrv[2] IN
    /\ conDrv = DrvIdle =>
         IF con = "null" THEN conLive = {} /\ ~conAtt ELSE conLive = {con} /\ conAtt
    /\ conDrv # DrvIdle => conLive = {d}
    /\ conDrv[1] \in {"attach", "link", "free"} => con = "null" /\ ~conAtt
    /\ conDrv[1] = "flag" => con = d /\ ~conAtt
    /\ conDrv[1] = "unflag" => con = "null"

(* A call that met no exit is between a setup that ended and the next      *)
(* exit, with the pointer it loaded still attached.                        *)
UsrAt ==
  conUsr # UsrIdle /\ ~met =>
    /\ conDrv = DrvIdle /\ con # "null"
    /\ conUsr[1] = "call" => conUsr[3] = con

(* Until a serial console is taken down the early console's fields, the    *)
(* freed ones too, hold only what the early console sets.                  *)
FieldsClean ==
  ~serialGone =>
    /\ conMeth["early"] \subseteq EarlyMethods /\ conStale \subseteq EarlyMethods
    /\ conUsr[1] = "call" /\ conUsr[3] = "early" => conUsr[2] \in EarlyMethods

StdInv == StdTypes /\ DrvAt /\ UsrAt /\ FieldsClean /\ StdconSafe

(* The initial state satisfies the inductive invariant. *)
LEMMA StdInitInv == StdInit => StdInv
<1> SUFFICES ASSUME StdInit PROVE StdInv
  OBVIOUS
<1> USE DEF StdInit, DrvIdle, UsrIdle, Drivers
<1>1. StdTypes
  <2>1. conMeth \in [Drivers -> SUBSET Methods]
    OBVIOUS
  <2>2. conAtt \in BOOLEAN /\ met \in BOOLEAN /\ serialGone \in BOOLEAN /\ dumping \in BOOLEAN /\ logAtt \in BOOLEAN
    OBVIOUS
  <2> QED
    BY <2>1, <2>2 DEF StdTypes
<1>2. DrvAt /\ UsrAt /\ FieldsClean
  BY DEF DrvAt, UsrAt, FieldsClean
<1>3. StdconSafe
  BY StdconConstants DEF StdconSafe
<1> QED
  BY <1>1, <1>2, <1>3 DEF StdInv

(* The steps of the logger keep it. *)
LEMMA LoggerKeeps ==
  ASSUME StdInv,
         LoggerAttachDevice \/ LoggerReleaseDevice \/ LoggerPutc \/ LoggerDprint
  PROVE  StdInv'
<1> USE DEF StdInv
<1>1. UNCHANGED conVars
  BY DEF LoggerAttachDevice, LoggerReleaseDevice, LoggerPutc, LoggerDprint
<1>2. DrvAt' /\ UsrAt' /\ FieldsClean'
  BY <1>1 DEF conVars, DrvAt, UsrAt, FieldsClean
<1>3. memPtr' \in Nat /\ memPtr' <= MEMBUF_SIZE
  BY StdconConstants DEF LoggerAttachDevice, LoggerReleaseDevice, LoggerPutc, LoggerDprint, MembufWriteb,
     StdTypes, StdconSafe
<1>4. /\ memRead' \in Nat /\ dumping' \in BOOLEAN /\ logAtt' \in BOOLEAN /\ memRead' < MEMBUF_SIZE
      /\ IF dumping' THEN dump' = 0 .. memRead' - 1
         ELSE memRead' = 0 /\ dump' \in {{}, 0 .. MEMBUF_SIZE - 1}
  <2>1. CASE UNCHANGED <<memRead, dumping, dump>>
    BY <2>1 DEF LoggerAttachDevice, LoggerReleaseDevice, LoggerPutc, LoggerDprint, StdTypes, StdconSafe
  <2>2. CASE LoggerDprint /\ ~dumping /\ dumping' = TRUE /\ dump' = {} /\ UNCHANGED memRead
    BY <2>2 DEF LoggerDprint, StdTypes, StdconSafe
  <2>3. CASE LoggerDprint /\ dumping /\ MembufRead
    <3>1. dump = 0 .. memRead - 1 /\ memRead \in Nat /\ memRead < MEMBUF_SIZE
      BY <2>3 DEF StdTypes, StdconSafe
    <3>2. dump' = 0 .. memRead /\ logAtt' \in BOOLEAN
      <4>1. 0 .. memRead = (0 .. memRead - 1) \cup {memRead}
        BY <3>1
      <4>2. dump' = (0 .. memRead - 1) \cup {memRead}
        BY <2>3, <3>1 DEF MembufRead
      <4>3. logAtt' \in BOOLEAN
        BY <2>3 DEF LoggerDprint, StdTypes
      <4> QED
        BY <4>1, <4>2, <4>3
    <3>3. CASE memRead + 1 = MEMBUF_SIZE
      <4>1. memRead' = 0 /\ 0 < MEMBUF_SIZE /\ memRead = MEMBUF_SIZE - 1
        BY <2>3, <3>1, <3>3, StdconConstants, Increment DEF MembufRead
      <4>2. dumping' = FALSE
        BY <2>3, <3>3 DEF MembufRead
      <4> QED
        BY <3>2, <4>1, <4>2
    <3>4. CASE memRead + 1 # MEMBUF_SIZE
      <4>1. memRead + 1 < MEMBUF_SIZE /\ (memRead + 1) % MEMBUF_SIZE = memRead + 1
        BY <3>1, <3>4, StdconConstants, Increment
      <4>2. memRead' = memRead + 1 /\ memRead' \in Nat /\ memRead' - 1 = memRead
        BY <2>3, <3>1, <4>1 DEF MembufRead
      <4>3. dumping' = TRUE
        BY <2>3, <3>4 DEF MembufRead
      <4> QED
        BY <3>2, <4>1, <4>2, <4>3
    <3> QED
      BY <3>3, <3>4
  <2> QED
    BY <2>1, <2>2, <2>3 DEF LoggerAttachDevice, LoggerReleaseDevice, LoggerPutc, LoggerDprint
<1>5. StdTypes' /\ StdconSafe'
  BY <1>1, <1>3, <1>4 DEF StdTypes, StdconSafe, conVars
<1> QED
  BY <1>2, <1>5

(* The steps of the drivers keep it. *)
LEMMA DriversKeep ==
  ASSUME StdInv,
         \/ \E d \in Drivers : \E m \in {EarlyMethods, SerialMethods} :
               DriverSetup(d, m) /\ (d = "early" => m = EarlyMethods)
         \/ \E d \in Drivers : DriverExit(d)
         \/ ConsoleAttachDevice \/ ConsoleReleaseDevice \/ DriverFree
  PROVE  StdInv'
<1> USE DEF StdInv, Drivers, DrvIdle
<1>1. UNCHANGED <<conUsr, conFault, logVars>> /\ conFault = "none"
  BY DEF DriverSetup, DriverExit, ConsoleAttachDevice, ConsoleReleaseDevice, DriverFree, DrvFree, Runs
<1>2. StdconSafe'
  BY <1>1 DEF StdconSafe, logVars
<1>3. ASSUME NEW d \in Drivers, NEW m \in {EarlyMethods, SerialMethods},
             DriverSetup(d, m), d = "early" => m = EarlyMethods
      PROVE  StdInv'
  <2>1. StdTypes'
    <3>1. conMeth' \in [Drivers -> SUBSET Methods]
      <4>1. \A old \in {{}, conStale} : m \cup old \in SUBSET Methods
        BY <1>3 DEF StdTypes, EarlyMethods, SerialMethods, Methods
      <4> QED
        BY <1>3, <4>1 DEF DriverSetup, StdTypes
    <3>2. conDrv' \in {"attach", "release"} \X Drivers /\ conLive' \in SUBSET Drivers
      BY <1>3 DEF DriverSetup, StdTypes
    <3> QED
      BY <1>3, <3>1, <3>2 DEF DriverSetup, StdTypes, logVars
  <2>2. DrvAt'
    <3>1. conLive = {} /\ ~conAtt /\ con = "null"
      BY <1>3 DEF DriverSetup, DrvFree, DrvAt
    <3>2. conLive' = {d} /\ ~conAtt' /\ con' = "null" /\ conDrv' \in {<<"attach", d>>, <<"release", d>>}
      BY <1>3, <3>1 DEF DriverSetup
    <3> QED
      BY <3>2 DEF DrvAt
  <2>3. UsrAt'
    BY <1>3 DEF DriverSetup, DrvFree, StdTypes, DrvAt, UsrAt
  <2>4. FieldsClean'
    BY <1>3 DEF DriverSetup, StdTypes, FieldsClean, EarlyMethods
  <2> QED
    BY <1>2, <2>1, <2>2, <2>3, <2>4
<1>4. ASSUME NEW d \in Drivers, DriverExit(d) PROVE StdInv'
  <2>1. StdTypes' /\ DrvAt'
    BY <1>4 DEF DriverExit, DrvFree, Meet, StdTypes, DrvAt, logVars
  <2>2. UsrAt' /\ FieldsClean'
    BY <1>4 DEF DriverExit, Meet, StdTypes, UsrAt, FieldsClean
  <2> QED
    BY <1>2, <2>1, <2>2
<1>5. CASE ConsoleAttachDevice
  <2>1. StdTypes'
    <3>1. conDrv' \in {DrvIdle} \cup ({"link", "flag", "unflag", "free"} \X Drivers)
      BY <1>5 DEF ConsoleAttachDevice, StdTypes
    <3>2. con' \in Drivers \cup {"null"} /\ conLive' \in SUBSET Drivers /\ conStale' \in SUBSET Methods
      BY <1>5 DEF ConsoleAttachDevice, StdTypes
    <3>3. conAtt' \in BOOLEAN /\ met' \in BOOLEAN /\ serialGone' \in BOOLEAN
      BY <1>5 DEF ConsoleAttachDevice, Meet, StdTypes
    <3> QED
      BY <1>1, <1>5, <3>1, <3>2, <3>3 DEF ConsoleAttachDevice, StdTypes, logVars
  <2>2. DrvAt'
    BY <1>5 DEF ConsoleAttachDevice, StdTypes, DrvAt
  <2>3. UsrAt' /\ FieldsClean'
    BY <1>5 DEF ConsoleAttachDevice, StdTypes, DrvAt, UsrAt, FieldsClean
  <2> QED
    BY <1>2, <2>1, <2>2, <2>3
<1>6. CASE ConsoleReleaseDevice
  <2>1. StdTypes'
    <3>1. conDrv' \in {DrvIdle} \cup ({"link", "flag", "unflag", "free"} \X Drivers)
      BY <1>6 DEF ConsoleReleaseDevice, StdTypes
    <3>2. con' \in Drivers \cup {"null"} /\ conLive' \in SUBSET Drivers /\ conStale' \in SUBSET Methods
      BY <1>6 DEF ConsoleReleaseDevice, StdTypes
    <3>3. conAtt' \in BOOLEAN /\ met' \in BOOLEAN /\ serialGone' \in BOOLEAN
      BY <1>6 DEF ConsoleReleaseDevice, Meet, StdTypes
    <3> QED
      BY <1>1, <1>6, <3>1, <3>2, <3>3 DEF ConsoleReleaseDevice, StdTypes, logVars
  <2>2. DrvAt'
    BY <1>6 DEF ConsoleReleaseDevice, StdTypes, DrvAt
  <2>3. UsrAt' /\ FieldsClean'
    BY <1>6 DEF ConsoleReleaseDevice, Meet, StdTypes, UsrAt, FieldsClean
  <2> QED
    BY <1>2, <2>1, <2>2, <2>3
<1>7. CASE DriverFree
  <2>0. /\ conDrv \in {"free"} \X Drivers /\ conDrv[2] \in Drivers
        /\ conMeth[conDrv[2]] \in SUBSET Methods
    BY <1>7 DEF DriverFree, StdTypes
  <2>1. StdTypes'
    <3>1. conDrv' \in {DrvIdle} \cup ({"link", "flag", "unflag", "free"} \X Drivers)
      BY <1>7 DEF DriverFree, StdTypes
    <3>2. con' \in Drivers \cup {"null"} /\ conLive' \in SUBSET Drivers /\ conStale' \in SUBSET Methods
      BY <1>7, <2>0 DEF DriverFree, StdTypes
    <3>3. conAtt' \in BOOLEAN /\ met' \in BOOLEAN /\ serialGone' \in BOOLEAN
      BY <1>7 DEF DriverFree, Meet, StdTypes
    <3> QED
      BY <1>1, <1>7, <3>1, <3>2, <3>3 DEF DriverFree, StdTypes, logVars
  <2>2. DrvAt'
    BY <1>7 DEF DriverFree, StdTypes, DrvAt
  <2>3. UsrAt'
    BY <1>7 DEF DriverFree, Meet, StdTypes, UsrAt
  <2>4. FieldsClean'
    <3>1. ~serialGone' => ~serialGone /\ conDrv[2] = "early"
      BY <1>7, <2>0 DEF DriverFree
    <3> QED
      BY <1>1, <1>7, <3>1 DEF DriverFree, FieldsClean
  <2> QED
    BY <1>2, <2>1, <2>2, <2>3, <2>4
<1> QED
  BY <1>3, <1>4, <1>5, <1>6, <1>7

(* The steps of a call keep it. *)
LEMMA CallsKeep ==
  ASSUME StdInv, (\E m \in Methods : Use(m)) \/ LoadCon \/ CallMethod
  PROVE  StdInv'
<1> USE DEF StdInv, UsrIdle, DrvIdle, Drivers, logVars
<1>1. ASSUME NEW m \in Methods, Use(m) PROVE StdInv'
  <2>1. StdTypes'
    BY <1>1 DEF Use, StdTypes
  <2>2. DrvAt' /\ FieldsClean' /\ StdconSafe'
    BY <1>1 DEF Use, Runs, StdTypes, DrvAt, FieldsClean, StdconSafe
  <2>3. UsrAt'
    BY <1>1 DEF Use, StdTypes, DrvAt, UsrAt
  <2> QED
    BY <2>1, <2>2, <2>3
<1>2. CASE LoadCon
  <2>1. StdTypes'
    BY <1>2 DEF LoadCon, StdTypes
  <2>2. DrvAt' /\ UsrAt'
    BY <1>2 DEF LoadCon, StdTypes, DrvAt, UsrAt
  <2>3. FieldsClean'
    BY <1>2 DEF LoadCon, StdTypes, FieldsClean
  <2>4. StdconSafe'
    BY <1>2 DEF LoadCon, Runs, StdTypes, DrvAt, UsrAt, StdconSafe
  <2> QED
    BY <2>1, <2>2, <2>3, <2>4
<1>3. CASE CallMethod
  <2>1. StdTypes'
    BY <1>3 DEF CallMethod, StdTypes
  <2>2. DrvAt' /\ UsrAt' /\ FieldsClean'
    BY <1>3 DEF CallMethod, StdTypes, DrvAt, UsrAt, FieldsClean
  <2>3. StdconSafe'
    BY <1>3 DEF CallMethod, Runs, StdTypes, DrvAt, UsrAt, FieldsClean, StdconSafe
  <2> QED
    BY <2>1, <2>2, <2>3
<1> QED
  BY <1>1, <1>2, <1>3

(* For every size of the log buffer, over every order of driver setups and *)
(* exits and of the steps of a call: a call of stdcon.c goes through NULL  *)
(* or freed memory only when it met an exit, and through a stale field     *)
(* only when a serial console was taken down; a dump reads each cell of    *)
(* the log once.                                                           *)
THEOREM ConsoleDeviceSafe == StdSpec => []StdconSafe
<1>1. ASSUME StdInv, [StdNext]_stdVars PROVE StdInv'
  <2>1. CASE EarlyconDriverSetup \/ ConsoleDriverSetup \/ EarlyconDriverExit \/ ConsoleDriverExit
    BY <1>1, <2>1, DriversKeep
       DEF EarlyconDriverSetup, ConsoleDriverSetup, EarlyconDriverExit, ConsoleDriverExit, Drivers
  <2>2. CASE ConsoleAttachDevice \/ ConsoleReleaseDevice \/ DriverFree
    BY <1>1, <2>2, DriversKeep
  <2>3. CASE ConsolePutc \/ ConsoleGetc \/ ConsoleFlush \/ ConsoleGetPayloadSize
    BY <1>1, <2>3, CallsKeep
       DEF ConsolePutc, ConsoleGetc, ConsoleFlush, ConsoleGetPayloadSize, Methods
  <2>4. CASE LoadCon \/ CallMethod
    BY <1>1, <2>4, CallsKeep
  <2>5. CASE LoggerAttachDevice \/ LoggerReleaseDevice \/ LoggerPutc \/ LoggerDprint
    BY <1>1, <2>5, LoggerKeeps
  <2>6. CASE UNCHANGED stdVars
    BY <1>1, <2>6 DEF stdVars, conVars, logVars, StdInv, StdTypes, DrvAt, UsrAt, FieldsClean, StdconSafe
  <2> QED
    BY <1>1, <2>1, <2>2, <2>3, <2>4, <2>5, <2>6 DEF StdNext
<1>2. StdInv => StdconSafe
  BY DEF StdInv
<1> QED
  BY StdInitInv, <1>1, <1>2, PTL DEF StdSpec

-----------------------------------------------------------------------------
(* Reads of mega_avr's serial console. *)
AvrTypes ==
  /\ avrPc \in {"idle", "send", "txsleep", "txtest", "rxsleep", "rxtest"}
              \X {"none", "entry", "send", "txsleep", "txtest", "leave"}
  /\ rxFifo \in Seq(Nat) /\ arrived \in Nat /\ conChar \in Nat /\ gotChar \in Nat
  /\ rxWait \in {0, 1}

(* Characters are numbered as they come: those in the receiver are newer   *)
(* than con_char, in order.                                                *)
FifoNewer ==
  /\ gotChar <= conChar /\ conChar <= arrived
  /\ \A i \in 1 .. Len(rxFifo) : conChar < rxFifo[i] /\ rxFifo[i] <= arrived
  /\ \A i, j \in 1 .. Len(rxFifo) : i < j => rxFifo[i] < rxFifo[j]

(* A read that was released has a character no earlier read returned. *)
ReleasedFresh ==
  avrPc[1] \in {"rxsleep", "rxtest"} /\ rxWait = 0 => gotChar < conChar

AvrInv == AvrTypes /\ FifoNewer /\ ReleasedFresh

(* The steps that leave the characters alone keep the inductive invariant. *)
LEMMA AvrQuiet ==
  ASSUME AvrInv, AvrTypes', UNCHANGED <<rxFifo, arrived, conChar, gotChar, rxWait>>,
         avrPc'[1] \in {"rxsleep", "rxtest"} => avrPc[1] \in {"rxsleep", "rxtest"}
  PROVE  AvrInv'
  BY DEF AvrInv, FifoNewer, ReleasedFresh

(* Every step keeps it. *)
LEMMA AvrStepKeeps ==
  ASSUME AvrInv, [AvrNext]_avrVars
  PROVE  AvrInv'
<1> USE DEF AvrInv, Level, Goto, At
<1>1. CASE UartTx \/ ArchWfi \/ PrintingIrqEnds \/ WriteLock \/ PrintingIrq
  <2>1. AvrTypes' /\ UNCHANGED <<rxFifo, arrived, conChar, gotChar, rxWait>>
    BY <1>1 DEF AvrTypes, UartTx, ArchWfi, PrintingIrqEnds, WriteLock, PrintingIrq
  <2>2. avrPc'[1] \in {"rxsleep", "rxtest"} => avrPc[1] \in {"rxsleep", "rxtest"}
    BY <1>1 DEF AvrTypes, UartTx, ArchWfi, PrintingIrqEnds, WriteLock, PrintingIrq
  <2> QED
    BY <2>1, <2>2, AvrQuiet
<1>2. CASE WriteIrqHandler \/ SchedclkIrq \/ Shift \/ UNCHANGED avrVars
  BY <1>2, AvrQuiet DEF WriteIrqHandler, SchedclkIrq, Shift, avrVars, AvrTypes
<1>3. CASE WaitTillIrq
  <2>1. CASE UNCHANGED gotChar
    <3>1. AvrTypes' /\ UNCHANGED <<rxFifo, arrived, conChar, gotChar, rxWait>>
      BY <1>3, <2>1 DEF WaitTillIrq, AvrTypes
    <3>2. avrPc'[1] \in {"rxsleep", "rxtest"} => avrPc[1] \in {"rxsleep", "rxtest"}
      BY <1>3 DEF WaitTillIrq, AvrTypes
    <3> QED
      BY <3>1, <3>2, AvrQuiet
  <2>2. CASE ~UNCHANGED gotChar
    <3>1. gotChar' = conChar /\ avrPc'[1] = "idle" /\ UNCHANGED <<rxFifo, arrived, conChar, rxWait>> /\ AvrTypes'
      BY <1>3, <2>2 DEF WaitTillIrq, AvrTypes
    <3> QED
      BY <3>1 DEF FifoNewer, ReleasedFresh, AvrTypes
  <2> QED
    BY <2>1, <2>2
<1>4. CASE ReadLock
  BY <1>4 DEF ReadLock, AvrTypes, FifoNewer, ReleasedFresh
<1>5. CASE ReadIrqHandler
  <2>1. rxFifo \in Seq(Nat) /\ rxFifo # <<>> /\ Len(rxFifo) \in Nat \ {0}
    BY <1>5 DEF ReadIrqHandler, AvrTypes
  <2>2. conChar' = rxFifo[1] /\ rxFifo' = Tail(rxFifo) /\ UNCHANGED <<avrPc, arrived, gotChar>> /\ rxWait' = 0
    BY <1>5, <2>1 DEF ReadIrqHandler, UartRx
  <2>3. /\ rxFifo' \in Seq(Nat) /\ Len(rxFifo') = Len(rxFifo) - 1
        /\ \A i \in 1 .. Len(rxFifo) - 1 : rxFifo'[i] = rxFifo[i + 1]
    BY <2>1, <2>2
  <2>4. rxFifo[1] \in Nat /\ conChar < rxFifo[1] /\ rxFifo[1] <= arrived
    BY <2>1 DEF FifoNewer
  <2>5. \A i \in 1 .. Len(rxFifo) - 1 : i + 1 \in 1 .. Len(rxFifo) /\ 1 \in 1 .. Len(rxFifo) /\ 1 < i + 1
    BY <2>1
  <2>6. FifoNewer'
    BY <2>2, <2>3, <2>4, <2>5 DEF FifoNewer, AvrTypes
  <2> QED
    BY <2>2, <2>3, <2>4, <2>6 DEF AvrTypes, ReleasedFresh, FifoNewer
<1>6. CASE ArriveChar
  <2>1. arrived' = arrived + 1 /\ UNCHANGED <<avrPc, conChar, gotChar, rxWait>>
    BY <1>6 DEF ArriveChar
  <2>2. CASE rxFifo' = rxFifo
    BY <2>1, <2>2 DEF AvrTypes, FifoNewer, ReleasedFresh
  <2>3. CASE rxFifo' = Append(rxFifo, arrived + 1)
    <3>1. /\ rxFifo' \in Seq(Nat) /\ Len(rxFifo') = Len(rxFifo) + 1 /\ Len(rxFifo) \in Nat
          /\ \A i \in 1 .. Len(rxFifo) : rxFifo'[i] = rxFifo[i] /\ rxFifo[i] \in Nat
          /\ rxFifo'[Len(rxFifo) + 1] = arrived + 1
      BY <2>3 DEF AvrTypes
    <3>2. \A i \in 1 .. Len(rxFifo) + 1 : i \in 1 .. Len(rxFifo) \/ i = Len(rxFifo) + 1
      BY <3>1
    <3> DEFINE n == Len(rxFifo)
    <3>3. \A i \in 1 .. n : conChar < rxFifo[i] /\ rxFifo[i] <= arrived /\ rxFifo[i] < arrived + 1
      BY <3>1 DEF AvrTypes, FifoNewer
    <3>4. conChar < arrived + 1
      BY DEF AvrTypes, FifoNewer
    <3>5. \A i \in 1 .. Len(rxFifo') : conChar' < rxFifo'[i] /\ rxFifo'[i] <= arrived'
      <4> SUFFICES ASSUME NEW i \in 1 .. n + 1 PROVE conChar < rxFifo'[i] /\ rxFifo'[i] <= arrived + 1
        BY <2>1, <3>1
      <4>1. CASE i \in 1 .. n
        BY <3>1, <3>3, <4>1, SMTT(30) DEF AvrTypes
      <4>2. CASE i = n + 1
        BY <3>1, <3>4, <4>2 DEF AvrTypes
      <4> QED
        BY <3>2, <4>1, <4>2
    <3>6. \A i, j \in 1 .. Len(rxFifo') : i < j => rxFifo'[i] < rxFifo'[j]
      <4> SUFFICES ASSUME NEW i \in 1 .. n + 1, NEW j \in 1 .. n + 1, i < j
                   PROVE  rxFifo'[i] < rxFifo'[j]
        BY <3>1
      <4>1. i \in 1 .. n
        BY <3>1
      <4>2. CASE j \in 1 .. n
        BY <3>1, <4>1, <4>2 DEF FifoNewer
      <4>3. CASE j = n + 1
        BY <3>1, <3>3, <4>1, <4>3
      <4> QED
        BY <3>2, <4>2, <4>3
    <3>7. AvrTypes' /\ ReleasedFresh'
      BY <2>1, <3>1 DEF AvrTypes, ReleasedFresh
    <3> QED
      BY <2>1, <3>5, <3>6, <3>7 DEF AvrTypes, FifoNewer
  <2> QED
    BY <1>6, <2>1, <2>2, <2>3 DEF ArriveChar
<1> QED
  BY <1>1, <1>2, <1>3, <1>4, <1>5, <1>6 DEF AvrNext, AvrRuns

(* console_serial_read of mega_avr returns a character whose interrupt was *)
(* taken after the read began, however its steps, the interrupts and the   *)
(* handlers that print interleave, and for any number of them.             *)
THEOREM AvrReadsFresh == AvrSpec => ReadsFresh
<1>1. AvrInit => AvrInv
  BY DEF AvrInit, AvrInv, AvrTypes, FifoNewer, ReleasedFresh
<1>2. ASSUME AvrInv, [AvrNext]_avrVars
      PROVE  [gotChar' # gotChar \/ (avrPc[1] = "rxtest" /\ avrPc'[1] = "idle")
               => gotChar' > gotChar /\ conChar = gotChar' /\ rxWait = 0]_avrVars
  <2>1. CASE WaitTillIrq
    BY <1>2, <2>1 DEF WaitTillIrq, At, Level, Goto, AvrInv, AvrTypes, ReleasedFresh
  <2>2. CASE UartTx \/ ArchWfi \/ PrintingIrqEnds \/ WriteLock \/ PrintingIrq \/ ReadLock
    BY <1>2, <2>2 DEF UartTx, ArchWfi, PrintingIrqEnds, WriteLock, PrintingIrq, ReadLock,
                      At, Level, Goto, AvrInv, AvrTypes
  <2>3. CASE WriteIrqHandler \/ ReadIrqHandler \/ SchedclkIrq \/ Shift \/ ArriveChar \/ UNCHANGED avrVars
    BY <2>3 DEF WriteIrqHandler, ReadIrqHandler, SchedclkIrq, Shift, ArriveChar, avrVars
  <2> QED
    BY <1>2, <2>1, <2>2, <2>3 DEF AvrNext, AvrRuns
<1> QED
  BY <1>1, <1>2, AvrStepKeeps, PTL DEF AvrSpec, ReadsFresh
=============================================================================
