--------------------------------- MODULE Plic ---------------------------------
(***************************************************************************)
(* The interrupt controller device (interrupt_controller.c), its PLIC      *)
(* driver (plic.c) and the way a device uses them (uart.c of sifive) on    *)
(* one hart.  The thread sets drivers up and takes them down step by step; *)
(* the external interrupt runs plic_irqhandler in between, step by step    *)
(* too, because the lines of the devices move meanwhile.                   *)
(***************************************************************************)
EXTENDS Naturals, FiniteSets

CONSTANTS
  Devs      \* the PLIC interrupt ids of the devices

\* 0 is what the claim register answers when nothing is pending.
ASSUME PlicAssumption == Devs \subseteq Nat \ {0}

VARIABLES
  port,       \* the PLIC driver's port: "null", "live" or "freed"
  plicTab,    \* its table of functions, plic_port: likewise
  started,    \* the PLIC drivers that driver_setup has run: "plic", "pcpu"
  ic,         \* ic_attached, with ic pointing to the driver's table
  mei,        \* mie.MEIE
  plicLink,   \* plic_irqhandler is the handler of the external interrupt
  enabled,    \* the ids enabled in the PLIC
  latched,    \* the ids the PLIC holds pending
  inService,  \* the ids claimed and not yet completed
  prio,       \* the priority of each id: one of priority 0 is never served
  threshold,  \* the core's: the core is interrupted only by what is above it
  handler,    \* plic_irq_handler: "driver" or "panic" for each id
  line,       \* the ids whose device asks for service
  ie,         \* the ids whose device may ask (the device's own switch)
  opened,     \* the devices whose driver is set up
  thr,        \* what the thread is doing: <<step, id>>
  hpc,        \* where plic_irqhandler is: <<step, id>>
  refused,    \* malloc has returned NULL to the PLIC driver
  harm        \* "none", "panic" or "dangling"

plicSw == <<port, plicTab, started, ic, mei, plicLink>>
plicHw == <<enabled, latched, inService, prio, threshold>>
levels == <<prio, threshold>>
devs == <<handler, line, ie, opened>>
pvars == <<plicSw, plicHw, devs, thr, hpc, refused, harm>>

Idle == <<"idle", 0>>
ThreadFree == thr = Idle /\ hpc = Idle /\ harm = "none"
MinId(S) == CHOOSE d \in S : \A e \in S : d <= e

-----------------------------------------------------------------------------
(* The PLIC itself (external): a gateway per device and the claim register. *)
Latch(d) ==
  /\ harm = "none" /\ d \in line /\ d \notin latched \cup inService
  /\ latched' = latched \cup {d}
  /\ UNCHANGED <<plicSw, enabled, inService, levels, devs, thr, hpc, refused, harm>>

\* A device asks for service.
Ask(d) ==
  /\ harm = "none" /\ d \in ie \ line
  /\ line' = line \cup {d}
  /\ UNCHANGED <<plicSw, plicHw, handler, ie, opened, thr, hpc, refused, harm>>

\* Reading the claim register: of the pending ids with the highest priority
\* the lowest; the threshold has no say in it.
Claimable == {d \in latched \cap enabled : prio[d] > 0}
PlicGetInterrupt ==
  IF Claimable = {} THEN 0
  ELSE MinId({d \in Claimable : \A e \in Claimable : prio[e] <= prio[d]})
\* The interrupt the PLIC raises on the core.
Raised == \E d \in Claimable : prio[d] > threshold

-----------------------------------------------------------------------------
(* plic_irqhandler. *)
TakeExternal ==
  /\ harm = "none" /\ hpc = Idle /\ mei /\ Raised
  /\ hpc' = IF plicLink THEN <<"claim", 0>> ELSE Idle
  /\ harm' = IF plicLink THEN harm ELSE "panic"
  /\ UNCHANGED <<plicSw, plicHw, devs, thr, refused>>

Claim ==
  /\ harm = "none" /\ hpc = <<"claim", 0>>
  /\ harm' = IF port = "live" THEN harm ELSE "dangling"
  /\ latched' = latched \ {PlicGetInterrupt}
  /\ inService' = inService \cup ({PlicGetInterrupt} \ {0})
  /\ hpc' = <<"complete", PlicGetInterrupt>>
  /\ UNCHANGED <<plicSw, enabled, levels, devs, thr, refused>>

\* Mutant of PlicClrInterrupt: the claim is never completed.
PlicClrNothing(irq) == UNCHANGED inService
PlicClrInterrupt(irq) == inService' = inService \ {irq}

Complete ==
  /\ harm = "none" /\ hpc[1] = "complete"
  /\ PlicClrInterrupt(hpc[2])
  /\ hpc' = <<"call", hpc[2]>>
  /\ UNCHANGED <<plicSw, enabled, latched, levels, devs, thr, refused, harm>>

\* The handler of the id: a driver's serves the device, the default panics.
CallHandler ==
  /\ harm = "none" /\ hpc[1] = "call"
  /\ IF hpc[2] \in Devs /\ handler[hpc[2]] = "driver"
     THEN line' = line \ {hpc[2]} /\ UNCHANGED harm
     ELSE harm' = "panic" /\ UNCHANGED line
  /\ hpc' = Idle
  /\ UNCHANGED <<plicSw, plicHw, handler, ie, opened, thr, refused>>

-----------------------------------------------------------------------------
(* The two drivers of plic.c. *)

\* The driver's table becomes the controller, with ic_attached; or neither.
IcAttachDevice == ic' = TRUE
IcReleaseDevice == ic' = FALSE

\* free, and what is left in the pointer.
Freed(p) == IF p = "null" THEN "null" ELSE "freed"

\* plic_driver_exit with these pointers: both blocks are freed, and both
\* pointers keep their values.
PlicDriverExit(p, t) ==
  /\ port' = Freed(p) /\ plicTab' = Freed(t)
  /\ harm' = IF "freed" \in {p, t} THEN "dangling" ELSE harm
  /\ IcReleaseDevice

\* plic_setup: the port malloc gives, or none.
PlicSetup == {"live", "null"}

\* plic_driver_setup: memory for the port, then for the table; when either is
\* refused the driver cleans up after itself.
PlicDriverSetup ==
  /\ ThreadFree /\ "plic" \notin started
  /\ started' = started \cup {"plic"}
  /\ mei' = FALSE
  /\ \E p \in PlicSetup :
       \/ /\ p = "live" /\ port' = p /\ plicTab' = "live" /\ IcAttachDevice
          /\ enabled' = {} /\ prio' = [d \in Devs |-> 1]
          /\ UNCHANGED <<refused, harm>>
       \/ /\ IF p = "live" THEN PlicDriverExit(p, "null") ELSE PlicDriverExit(p, plicTab)
          /\ refused' = TRUE /\ UNCHANGED <<enabled, prio>>
  /\ UNCHANGED <<plicLink, latched, inService, threshold, devs, thr, hpc>>

\* plic_driver_setup_pcpu: link, empty the claim register, then mie.MEIE.
PlicDriverSetupPcpu ==
  /\ ThreadFree /\ "plic" \in started /\ "pcpu" \notin started
  /\ started' = started \cup {"pcpu"}
  /\ IF port = "null"
     THEN UNCHANGED <<plicLink, mei, latched, threshold, harm>>
     ELSE /\ plicLink' = TRUE /\ mei' = TRUE /\ threshold' = 0
          /\ latched' = latched \ Claimable
          /\ harm' = IF port = "live" THEN harm ELSE "dangling"
  /\ UNCHANGED <<port, plicTab, ic, enabled, inService, prio, devs, thr, hpc, refused>>

\* plic_driver_exit_pcpu reads port->irq without a look at port.
PlicDriverExitPcpu ==
  /\ ThreadFree /\ "pcpu" \in started
  /\ started' = started \ {"pcpu"}
  /\ mei' = FALSE /\ plicLink' = FALSE
  /\ harm' = IF port = "live" THEN harm ELSE "dangling"
  /\ UNCHANGED <<port, plicTab, ic, plicHw, devs, thr, hpc, refused>>

\* driver_exit of the PLIC, after that of its per-core part.
ExitPlic ==
  /\ ThreadFree /\ "plic" \in started /\ "pcpu" \notin started
  /\ started' = started \ {"plic"}
  /\ PlicDriverExit(port, plicTab)
  /\ UNCHANGED <<mei, plicLink, plicHw, devs, thr, hpc, refused>>

-----------------------------------------------------------------------------
(* The calls of interrupt_controller.c: nothing happens while no controller
   is attached. *)
PlicRegisterIrqHandler(d, h) == [handler EXCEPT ![d] = h]
PlicIntEn(d) == enabled \cup {d}
PlicIntDis(d) == enabled \ {d}
IcRegister(d, h) == handler' = IF ic THEN PlicRegisterIrqHandler(d, h) ELSE handler
IcEnIrq(d) == enabled' = IF ic THEN PlicIntEn(d) ELSE enabled
IcDisIrq(d) == enabled' = IF ic THEN PlicIntDis(d) ELSE enabled

\* The thread changes the priority of an id, or the threshold of its core.
PlicSetPriority(d, p) == [prio EXCEPT ![d] = p]
PlicSetThreshold(t) == t
IcSetPriorityOfIrq(d, p) ==
  /\ ThreadFree /\ ic /\ prio[d] # p
  /\ prio' = PlicSetPriority(d, p)
  /\ UNCHANGED <<plicSw, enabled, latched, inService, threshold, devs, thr, hpc, refused, harm>>
IcSetAffinityOfCore(t) ==
  /\ ThreadFree /\ ic /\ threshold # t
  /\ threshold' = PlicSetThreshold(t)
  /\ UNCHANGED <<plicSw, enabled, latched, inService, prio, devs, thr, hpc, refused, harm>>

\* uart_setup: the handler is linked, the id enabled, the device's switch set.
UartSetup(d) ==
  /\ hpc = Idle /\ harm = "none"
  /\ \/ /\ thr = Idle /\ d \notin opened
        /\ IcRegister(d, "driver") /\ thr' = <<"enable", d>>
        /\ UNCHANGED <<enabled, ie, opened>>
     \/ /\ thr = <<"enable", d>>
        /\ IcEnIrq(d) /\ thr' = <<"ie", d>>
        /\ UNCHANGED <<handler, ie, opened>>
     \/ /\ thr = <<"ie", d>>
        /\ ie' = ie \cup {d} /\ opened' = opened \cup {d} /\ thr' = Idle
        /\ UNCHANGED <<handler, enabled>>
  /\ UNCHANGED <<plicSw, latched, inService, levels, line, hpc, refused, harm>>

\* Mutant of UartShutdown: the handler is unlinked before the id is disabled.
UartUnlinkFirst(d) ==
  /\ hpc = Idle /\ harm = "none"
  /\ \/ /\ thr = Idle /\ d \in opened
        /\ IcRegister(d, "panic") /\ thr' = <<"off", d>>
        /\ UNCHANGED <<enabled, line, ie, opened>>
     \/ /\ thr = <<"off", d>>
        /\ IcDisIrq(d) /\ ie' = ie \ {d} /\ line' = line \ {d}
        /\ opened' = opened \ {d} /\ thr' = Idle
        /\ UNCHANGED handler
  /\ UNCHANGED <<plicSw, latched, inService, levels, hpc, refused, harm>>
\* uart_shutdown: the id is disabled, the device's switch cleared (the line
\* falls with it), the handler unlinked.
UartShutdown(d) ==
  /\ hpc = Idle /\ harm = "none"
  /\ \/ /\ thr = Idle /\ d \in opened
        /\ IcDisIrq(d) /\ thr' = <<"off", d>>
        /\ UNCHANGED <<handler, line, ie, opened>>
     \/ /\ thr = <<"off", d>>
        /\ ie' = ie \ {d} /\ line' = line \ {d} /\ thr' = <<"unlink", d>>
        /\ UNCHANGED <<handler, enabled, opened>>
     \/ /\ thr = <<"unlink", d>>
        /\ IcRegister(d, "panic") /\ opened' = opened \ {d} /\ thr' = Idle
        /\ UNCHANGED <<enabled, line, ie>>
  /\ UNCHANGED <<plicSw, latched, inService, levels, hpc, refused, harm>>

-----------------------------------------------------------------------------
PInit ==
  /\ port = "null" /\ plicTab = "null" /\ started = {} /\ ic = FALSE /\ mei = FALSE /\ plicLink = FALSE
  /\ enabled = {} /\ latched = {} /\ inService = {}
  /\ prio = [d \in Devs |-> 0] /\ threshold = 0
  /\ handler = [d \in Devs |-> "panic"] /\ line = {} /\ ie = {} /\ opened = {}
  /\ thr = Idle /\ hpc = Idle /\ refused = FALSE /\ harm = "none"

Panicked == harm # "none" /\ UNCHANGED pvars

PNext ==
  \/ \E d \in Devs : Latch(d) \/ Ask(d) \/ UartSetup(d) \/ UartShutdown(d)
  \/ \E p \in 0..1 : (\E d \in Devs : IcSetPriorityOfIrq(d, p)) \/ IcSetAffinityOfCore(p)
  \/ TakeExternal \/ Claim \/ Complete \/ CallHandler
  \/ PlicDriverSetup \/ PlicDriverSetupPcpu \/ PlicDriverExitPcpu \/ ExitPlic
  \/ Panicked

\* The PLIC latches, the hart takes what it may take, handlers end.
PFair == /\ \A d \in Devs : WF_pvars(Latch(d))
         /\ SF_pvars(TakeExternal) /\ WF_pvars(Claim) /\ WF_pvars(Complete)
         /\ WF_pvars(CallHandler)

PSpec == PInit /\ [][PNext]_pvars /\ PFair

-----------------------------------------------------------------------------
\* No interrupt of a device ends in the panic handler, whenever it comes while
\* drivers are set up and taken down, and no step of the PLIC driver uses its
\* port after it was freed unless memory had been refused to it: then
\* plic_driver_exit leaves port pointing to the freed block, and
\* plic_driver_setup_pcpu and plic_driver_exit trust it.
PlicSafe ==
  /\ harm # "panic"
  /\ harm = "dangling" => refused

\* A device that asks and stays set up is served, though its claim is completed
\* before its handler runs and the line is still up at that moment, or a device
\* the claim register prefers asks again and again.
Served(d) == d \in enabled /\ mei /\ prio[d] > threshold
PlicServes ==
  \A d \in Devs :
    \/ (d \in line /\ Served(d)) ~> (d \notin line \/ ~Served(d) \/ harm # "none")
    \/ []<>(\E e \in Devs \ {d} : e \in latched /\ prio[e] >= prio[d])
=============================================================================
