-------------------------------- MODULE Traps --------------------------------
(***************************************************************************)
(* Traps and critical sections of one core: arch.c, exception_handler.c    *)
(* and asm.S of arch/riscv, arch.c, interrupt_handler.c and asm.S of       *)
(* arch/avr, and arch.c and exception_handler.c of arch/arm-m.             *)
(*                                                                         *)
(* The core runs a stack of activations: the thread at the bottom, above   *)
(* it the handlers that interrupted it.  Any activation may open critical  *)
(* sections (arch_di_save_state ... arch_ei_restore_state), nested ones    *)
(* too, and make visor calls; interrupts come whenever the core lets them. *)
(***************************************************************************)
EXTENDS Naturals, Sequences

CONSTANTS
  Archs,      \* the architectures looked at, of "riscv", "avr", "arm"
  Irqs,       \* the interrupt sources of the core, by number from 1
  N_EXCEP,    \* the exceptions the arm table has before the interrupts
  MaxDepth,   \* bound: activations on the stack
  MaxNest,    \* bound: sections one activation nests
  MaxOps      \* bound: sections and visor calls of one handler

ASSUME TrapsAssumption == Archs \subseteq {"riscv", "avr", "arm"}

VARIABLES
  arch,         \* the architecture, chosen once
  acts,         \* the activations, the running one last
  hart,         \* interrupt state: gie (mstatus.MIE, SREG.I, not PRIMASK),
                \* prev (mstatus.MPIE), lie (mie; on avr and arm always Irqs)
  mepc,         \* the return address register (riscv)
  local_frame,  \* the frame of the trap being handled; 0 is NULL
  linked,       \* the cells of the handler tables that hold a driver's handler,
                \* the others hold the default one, which never returns
  pend,         \* the sources that ask for service
  answer,       \* the answer of the last visor call: "own", "other" or "none"
  reopened,     \* a handler ended a section of its own with interrupts on
  halted        \* why the core stopped: "no", "panic", "astray"

tvars == <<arch, acts, hart, mepc, local_frame, linked, pend, answer, reopened, halted>>

Top == acts[Len(acts)]
SetTop(a) == [acts EXCEPT ![Len(acts)] = a]
\* A place in the program: which activation, and where in it.
Place == <<Len(acts), Top.pc>>
\* A handler, and the thread inside a section, does MaxOps things at most.
Free == Len(acts) = 1 /\ Top.saved = <<>>
MayAct == Top.pc = "run" /\ Top.ret = "none" /\ (Free \/ Top.ops < MaxOps)
Ops == IF Free THEN 0 ELSE Top.ops + 1
Thread == [kind |-> "thread", pc |-> "run", saved |-> <<>>, home |-> <<0, "run">>,
           prev |-> FALSE, frame |-> 0, ops |-> 0, ret |-> "none"]

-----------------------------------------------------------------------------
(* The interrupt switches of each architecture. *)
\* Mutant of RvDi: only mstatus is cleared, mie stays as it is.
RvDiGlobalOnly(h) == [h EXCEPT !.gie = FALSE, !.prev = FALSE]
RvDi(h) == [h EXCEPT !.gie = FALSE, !.prev = FALSE, !.lie = {}]
RvEi(h) == [h EXCEPT !.gie = TRUE, !.prev = TRUE]
ArchDi(h) == [h EXCEPT !.gie = FALSE]
ArchEi(h) == [h EXCEPT !.gie = TRUE]

\* What arch_di_save_state stores, and the state it leaves.
RvSave(h) == <<h.lie, RvDi(h)>>
AvrSave(h) == <<h.gie, ArchDi(h)>>
ArmSave(h) == <<"nothing", h>>
DiSaveState(h) == CASE arch = "riscv" -> RvSave(h)
                    [] arch = "avr" -> AvrSave(h)
                    [] arch = "arm" -> ArmSave(h)

\* What arch_ei_restore_state makes of the state: riscv sets mstatus.MIE
\* whatever it was, avr only what was set, arm does nothing.
\* Mutant of RvRestore: mie is left as arch_di made it.
RvRestoreGlobalOnly(h, s) == RvEi(h)
RvRestore(h, s) == RvEi([h EXCEPT !.lie = @ \cup s])
AvrRestore(h, s) == [h EXCEPT !.gie = @ \/ s]
ArmRestore(h, s) == h
EiRestoreState(h, s) == CASE arch = "riscv" -> RvRestore(h, s)
                          [] arch = "avr" -> AvrRestore(h, s)
                          [] arch = "arm" -> ArmRestore(h, s)

-----------------------------------------------------------------------------
(* Entering and leaving a trap. *)

\* The core and PROLOGUE: what the frame of a new activation keeps.
Prologue(k) == [kind |-> k, pc |-> "run", saved |-> <<>>, home |-> Place,
                prev |-> hart.gie, frame |-> Len(acts) + 1, ops |-> 0,
                ret |-> "none"]
\* CONTEXT_SAVE of avr, and the frame the arm core stacks: the return address
\* and the flags are on the stack and nowhere else.
ContextSave(k) == Prologue(k)

Enter(k) ==
  /\ acts' = Append(SetTop([Top EXCEPT !.ops = IF k = "vcall" THEN Ops ELSE @]),
                    IF arch = "riscv" THEN Prologue(k) ELSE ContextSave(k))
  /\ mepc' = Place
  /\ hart' = [hart EXCEPT !.gie = (arch = "arm" /\ @), !.prev = hart.gie]
  /\ local_frame' = Len(acts) + 1

\* Mutant of RvEpilogueStart: interrupts are turned on before the registers of
\* the interrupted code are loaded.
RvEpilogueOpen ==
  /\ acts' = SetTop([Top EXCEPT !.pc = "epilogue"])
  /\ local_frame' = 0
  /\ mepc' = Top.home
  /\ hart' = RvEi(hart)
  /\ UNCHANGED <<halted, answer>>

\* set_context_frame(NULL), then the first half of EPILOGUE: mepc is loaded
\* while interrupts are as the handler left them.
RvEpilogueStart ==
  /\ acts' = SetTop([Top EXCEPT !.pc = "epilogue"])
  /\ local_frame' = 0
  /\ mepc' = Top.home
  /\ UNCHANGED <<hart, halted, answer>>

\* The second half of EPILOGUE and mret: mstatus from the frame, which turns
\* interrupts off, then back to wherever mepc points.
RvMret ==
  /\ acts' = SubSeq(acts, 1, Len(acts) - 1)
  /\ hart' = [hart EXCEPT !.gie = Top.prev, !.prev = TRUE]
  /\ halted' = IF mepc = Top.home THEN halted ELSE "astray"
  /\ answer' = IF Top.kind # "vcall" THEN answer
               ELSE IF Top.ret = "own" THEN "own" ELSE "other"
  /\ UNCHANGED <<mepc, local_frame>>

\* CONTEXT_RESTORE and reti: the saved flags have interrupts off, reti turns
\* them on and returns to the address on the stack.
AvrReti ==
  /\ acts' = SubSeq(acts, 1, Len(acts) - 1)
  /\ hart' = ArchEi(hart)
  /\ local_frame' = 0
  /\ UNCHANGED <<mepc, halted, answer>>

\* isr of arm: the core pops its own frame.
ArmReturn ==
  /\ acts' = SubSeq(acts, 1, Len(acts) - 1)
  /\ local_frame' = 0
  /\ UNCHANGED <<hart, mepc, halted, answer>>

-----------------------------------------------------------------------------
(* What can happen next. *)
Running == halted = "no"

\* An interrupt is taken between two instructions.  Equal priorities keep arm
\* from taking one inside a handler.
CanTake(i) == /\ Running /\ i \in pend /\ hart.gie /\ i \in hart.lie
              /\ Len(acts) < MaxDepth
              /\ arch = "arm" => Len(acts) = 1

\* The cell that a trap number selects: exception_handler of riscv, where the
\* top bit of mcause tells interrupts, interrupt_handler of avr, which counts
\* from 1, and exception_handler of arm, where interrupts follow the exceptions.
RvCell(isIrq, n) == <<isIrq, n>>
AvrCell(isIrq, n) == <<TRUE, n - 1>>
ArmCell(isIrq, n) == LET id == (IF isIrq THEN N_EXCEP + n ELSE n) - 1
                     IN IF id >= N_EXCEP THEN <<TRUE, id - N_EXCEP>> ELSE <<FALSE, id>>
Cell(isIrq, n) == CASE arch = "riscv" -> RvCell(isIrq, n)
                    [] arch = "avr" -> AvrCell(isIrq, n)
                    [] arch = "arm" -> ArmCell(isIrq, n)

TakeIrq(i) ==
  /\ CanTake(i)
  /\ Enter("irq")
  /\ pend' = pend \ {i}
  /\ halted' = IF Cell(TRUE, i) \in linked THEN halted ELSE "panic"
  /\ UNCHANGED <<arch, linked, answer, reopened>>

Raise(i) ==
  /\ Running /\ i \notin pend
  /\ pend' = pend \cup {i}
  /\ UNCHANGED <<arch, acts, hart, mepc, local_frame, linked, answer, reopened, halted>>

OpenSection ==
  /\ Running /\ MayAct /\ Len(Top.saved) < MaxNest
  /\ acts' = SetTop([Top EXCEPT !.saved = Append(@, DiSaveState(hart)[1]), !.ops = Ops])
  /\ hart' = DiSaveState(hart)[2]
  /\ UNCHANGED <<arch, mepc, local_frame, linked, pend, answer, reopened, halted>>

CloseSection ==
  /\ Running /\ Top.pc = "run" /\ Top.saved # <<>>
  /\ LET n == Len(Top.saved) IN
       /\ hart' = EiRestoreState(hart, Top.saved[n])
       /\ acts' = SetTop([Top EXCEPT !.saved = SubSeq(@, 1, n - 1)])
  /\ reopened' = (reopened \/ (Len(acts) > 1 /\ hart'.gie))
  /\ UNCHANGED <<arch, mepc, local_frame, linked, pend, answer, halted>>

-----------------------------------------------------------------------------
(* Visor calls. *)

\* The numbers arch_setup links arch_vcall_handler to.
RvVcallLink == <<FALSE, 11>>
ArmVcallLink == <<FALSE, 10 - 1>>

\* ecall traps with cause 11 and svc with exception number 11; on avr the call
\* is a function call, and the answer the caller's own.
RvVisorCall == Enter("vcall") /\ answer' = "none"
ArmVisorCall == Enter("vcall") /\ answer' = "none"
AvrVisorCall == answer' = "own" /\ UNCHANGED <<acts, hart, mepc, local_frame>>

VisorCall ==
  /\ Running /\ MayAct /\ Len(acts) < MaxDepth
  /\ CASE arch = "riscv" -> RvVisorCall
       [] arch = "arm" -> ArmVisorCall
       [] arch = "avr" -> AvrVisorCall
  /\ halted' = IF arch = "avr" \/ Cell(FALSE, 11) \in linked THEN halted ELSE "panic"
  /\ UNCHANGED <<arch, linked, pend, reopened>>

\* Mutant of AnswerFrame: the frame is looked up once the call is served.
AnswerFrameLate == local_frame
\* arch_vcall_handler: the frame it writes a0, a1 and a2 of.
AnswerFrame == Top.frame

\* The visor call has been served and its handler writes the answer.
VcallDone ==
  /\ Running /\ Top.kind = "vcall" /\ Top.pc = "run" /\ Top.ret = "none"
  /\ Top.saved = <<>>
  /\ acts' = SetTop([Top EXCEPT !.ret = IF AnswerFrame = Len(acts) THEN "own" ELSE "other"])
  /\ UNCHANGED <<arch, hart, mepc, local_frame, linked, pend, answer, reopened, halted>>

\* A handler ends: its sections are closed, a visor call has answered.
HandlerEnds ==
  /\ Running /\ Len(acts) > 1 /\ Top.pc = "run" /\ Top.saved = <<>>
  /\ Top.kind = "vcall" => Top.ret # "none"
  /\ CASE arch = "riscv" -> RvEpilogueStart
       [] arch = "avr" -> AvrReti
       [] arch = "arm" -> ArmReturn
  /\ UNCHANGED <<arch, linked, pend, reopened>>

TrapReturns ==
  /\ Running /\ Top.pc = "epilogue"
  /\ RvMret
  /\ UNCHANGED <<arch, linked, pend, reopened>>

\* The cell local_register_interrupt_handler (avr: arch_register_...) writes.
RvRegister(i) == <<TRUE, i>>
AvrRegister(i) == <<TRUE, i - 1>>
ArmRegister(i) == <<TRUE, i - 1>>
Register(i) == CASE arch = "riscv" -> RvRegister(i)
                 [] arch = "avr" -> AvrRegister(i)
                 [] arch = "arm" -> ArmRegister(i)

\* A driver is set up or taken down by the thread while its source may ask.
LinkInterrupt(i) ==
  /\ Running /\ Len(acts) = 1 /\ Register(i) \notin linked
  /\ linked' = linked \cup {Register(i)}
  /\ UNCHANGED <<arch, acts, hart, mepc, local_frame, pend, answer, reopened, halted>>

UnlinkInterrupt(i) ==
  /\ Running /\ Len(acts) = 1 /\ Register(i) \in linked
  /\ linked' = linked \ {Register(i)}
  /\ UNCHANGED <<arch, acts, hart, mepc, local_frame, pend, answer, reopened, halted>>

-----------------------------------------------------------------------------
TInit ==
  /\ arch \in Archs
  /\ acts = <<Thread>>
  /\ hart = [gie |-> TRUE, prev |-> TRUE, lie |-> Irqs]
  /\ mepc = <<0, "run">>
  /\ local_frame = 0
  /\ linked = {Register(i) : i \in Irqs} \cup
             (CASE arch = "riscv" -> {RvVcallLink} [] arch = "arm" -> {ArmVcallLink} [] OTHER -> {})
  /\ pend = {}
  /\ answer = "none"
  /\ reopened = FALSE
  /\ halted = "no"

\* A core that panicked sits in arch_wfi for ever.
Halted == ~Running /\ UNCHANGED tvars

TNext ==
  \/ \E i \in Irqs : TakeIrq(i) \/ Raise(i) \/ LinkInterrupt(i) \/ UnlinkInterrupt(i)
  \/ OpenSection \/ CloseSection \/ VisorCall \/ VcallDone
  \/ HandlerEnds \/ TrapReturns \/ Halted

\* The core takes an interrupt it may take; sections end and handlers return.
TFair ==
  /\ \A i \in Irqs : SF_tvars(TakeIrq(i))
  /\ WF_tvars(CloseSection) /\ WF_tvars(VcallDone)
  /\ WF_tvars(HandlerEnds) /\ WF_tvars(TrapReturns)

TSpec == TInit /\ [][TNext]_tvars /\ TFair

-----------------------------------------------------------------------------
\* No interrupt is taken while any activation on the stack is inside a critical
\* section, however the sections of it and of the visor calls it makes nest:
\* arch_ei_restore_state of riscv sets mstatus.MIE at the end of an inner
\* section, and only the mie that the outer arch_di cleared holds.  On arm-m
\* arch_di_save_state is empty and nothing is promised.
CriticalKept ==
  [][(\E i \in Irqs : TakeIrq(i)) /\ arch # "arm" =>
       \A d \in DOMAIN acts : acts[d].saved = <<>>]_tvars

\* A trap is invisible to the code it interrupts: a visor call gets the answer
\* to its own request though nested traps clear local_frame, and the code goes
\* on where it was, unless a handler ended a critical section of its own: that
\* opens interrupts, and one between the two halves of EPILOGUE replaces mepc.
\* On arm no visor call is answered at all: arch_vcall_handler is linked at 10
\* (arm-m arch.c:80), svc traps at 11, and the call ends in the panic handler.
TrapsTransparent ==
  /\ answer # "other"
  /\ halted = "astray" => arch = "riscv" /\ reopened

\* A source that asks is served (or the core has stopped): critical sections
\* put back every switch they turned off, those of nested handlers too.
InterruptsComeBack ==
  \A i \in Irqs : i \in pend ~> (i \notin pend \/ halted # "no")

=============================================================================
