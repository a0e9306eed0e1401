------------------------------ MODULE MCInterrupts -----------------------------
(* Small instances of what runs against interrupts: the traps of the three  *)
(* architectures; the PLIC with two devices; the boots of three platforms    *)
(* with the watchdog of mega_avr; the receive ring of the FE310's console,   *)
(* of three bytes so that it overflows and with an occ that wraps; the       *)
(* console of mega_avr; and the console device with its drivers and the log  *)
(* buffer.  They share no variable, and a behaviour is of the one that which *)
(* names.                                                                    *)
EXTENDS Traps, Plic, Watchdog, ConsoleRing, Stdcon, AvrConsole

MCPlats == {"sifive", "ibex", "avr"}
MCGears == {0, 5, 12}       \* off, one that is used, one that wdt_set_timeout refuses

VARIABLE which
machine == <<tvars, pvars, wvars>>
consoles == <<vars, stdVars, avrVars>>
interruptVars == <<which, machine, consoles>>

InterruptsInit ==
  /\ which \in {"traps", "plic", "boot", "ring", "device", "avr"}
  /\ TInit /\ (which # "traps" => arch = "avr")
  /\ WInit /\ (which # "boot" => plat = "avr" /\ "pmu" \notin resets)
  /\ PInit /\ Init /\ StdInit /\ AvrInit

TrapStep == which = "traps" /\ TNext /\ UNCHANGED <<which, pvars, wvars, consoles>>
PlicStep == which = "plic" /\ PNext /\ UNCHANGED <<which, tvars, wvars, consoles>>
StartupStep == which = "boot" /\ WNext /\ UNCHANGED <<which, tvars, pvars, consoles>>
RingStep == which = "ring" /\ Next /\ UNCHANGED <<which, stdVars, avrVars, machine>>
DeviceStep == which = "device" /\ StdNext /\ UNCHANGED <<which, vars, avrVars, machine>>
AvrStep == which = "avr" /\ AvrNext /\ UNCHANGED <<which, vars, stdVars, machine>>

(* A boot may end in a panic, and a fault of the console ends a behaviour. *)
Ended ==
  /\ which = "boot" \/ (which = "device" /\ conFault # "none")
  /\ UNCHANGED interruptVars

InterruptsNext ==
  \/ TrapStep \/ PlicStep \/ StartupStep \/ RingStep \/ DeviceStep \/ AvrStep \/ Ended

(* The fairness of the parts' own specifications. *)
InterruptsFair ==
  /\ \A i \in Irqs : SF_tvars(which = "traps" /\ TakeIrq(i))
  /\ WF_tvars(which = "traps" /\ CloseSection) /\ WF_tvars(which = "traps" /\ VcallDone)
  /\ WF_tvars(which = "traps" /\ HandlerEnds) /\ WF_tvars(which = "traps" /\ TrapReturns)
  /\ \A d \in Devs : WF_pvars(which = "plic" /\ Latch(d))
  /\ SF_pvars(which = "plic" /\ TakeExternal) /\ WF_pvars(which = "plic" /\ Claim)
  /\ WF_pvars(which = "plic" /\ Complete) /\ WF_pvars(which = "plic" /\ CallHandler)
  /\ WF_wvars(which = "boot" /\ TimeOut)
  /\ WF_wvars(which = "boot" /\ ended = "booting" /\ Booting)
  /\ WF_vars(which = "ring" /\ Handler) /\ WF_vars(which = "ring" /\ Tick)
  /\ WF_vars(which = "ring" /\ Reading)
  /\ WF_avrVars(which = "avr" /\ (AvrRuns \/ (Level = 2 /\ WriteLock)))
  /\ WF_avrVars(which = "avr" /\ Shift) /\ WF_avrVars(which = "avr" /\ WriteIrqHandler)
  /\ WF_avrVars(which = "avr" /\ ReadIrqHandler) /\ SF_avrVars(which = "avr" /\ SchedclkIrq)

InterruptsSpec == InterruptsInit /\ [][InterruptsNext]_interruptVars /\ InterruptsFair
=============================================================================
