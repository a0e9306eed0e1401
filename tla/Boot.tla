--------------------------------- MODULE Boot ---------------------------------
(***************************************************************************)
(* From reset to the application: entry, init and engine, bootstrap, and   *)
(* the setup of each platform (platform.c, platform_reset.c,               *)
(* platform_resource.c, platform_mem.c).  The boot is a list of steps; a   *)
(* step needs what earlier ones made and makes or destroys something.      *)
(* Clearing the bss section destroys every static variable set before it.  *)
(* rp2 is left out: bootstrap calls platform_get_reset_syndrome and        *)
(* platform_reset_handler, which nothing under platform/rpi defines.       *)
(***************************************************************************)
EXTENDS Naturals, Sequences

CONSTANTS
  Plats      \* the platforms looked at

ASSUME BootAssumption == Plats \subseteq {"sifive", "ibex", "avr"}

VARIABLES
  plat,      \* the platform, chosen once
  resets,    \* the reset causes the hardware has noted; on sifive "pmu" stands
             \* for bit 0 of PMUCAUSE, which says that they are to be looked at
  step,      \* the step of the boot that comes next
  have,      \* what the boot has made so far
  syndrome,  \* the reset_syndrome of avr (bss)
  ended      \* "booting", "up", "panic", "exit", or "unmet": a step ran
             \* before what it needs was there

bvars == <<plat, resets, step, have, syndrome, ended>>

-----------------------------------------------------------------------------
(* The steps of each platform. *)

\* arch_early_setup: interrupts off, on riscv the trap vector too.
RvEarly == <<"seed", "vector">>
AvrEarlyArch == <<"seed">>

\* platform_early_setup; "reseed" puts the seed back that bss_clear wiped out.
SifiveEarly == <<"data", "bss", "heap", "resources", "reseed", "mslog">>
IbexEarly == <<"bss", "heap", "resources", "reseed", "mslog">>
\* Mutant of AvrEarly: the watchdog is reset while MCUSR still holds WDRF.
AvrEarlyDogFirst == <<"data", "bss", "heap", "resources", "reseed", "mslog",
                      "wdt_reset", "syndrome">>
\* Mutant of AvrEarly: the syndrome is kept before the bss section is cleared.
AvrEarlySyndromeFirst == <<"data", "syndrome", "bss", "heap", "resources", "reseed",
                           "mslog", "wdt_reset">>
AvrEarly == <<"data", "bss", "heap", "resources", "reseed", "mslog",
              "syndrome", "wdt_reset">>

\* arch_setup links the visor call handler.
RvArchSetup == <<"vcall">>
AvrArchSetup == <<>>

\* platform_setup.
SifiveSetup == <<"sysclk", "earlycon", "bootmsgs">>
IbexSetup == <<"earlycon", "bootmsgs">>
AvrSetup == <<"earlycon", "bootmsgs">>

\* Mutant of Bootstrap: the platform is set up before arch_setup.
BootstrapSetupFirst(ae, pe, as, ps) == ae \o pe \o ps \o as \o <<"reset_handler", "ei">>
\* bootstrap.
Bootstrap(ae, pe, as, ps) == ae \o pe \o as \o ps \o <<"reset_handler", "ei">>

Steps == CASE plat = "sifive" -> Bootstrap(RvEarly, SifiveEarly, RvArchSetup, SifiveSetup)
           [] plat = "ibex" -> Bootstrap(RvEarly, IbexEarly, RvArchSetup, IbexSetup)
           [] plat = "avr" -> Bootstrap(AvrEarlyArch, AvrEarly, AvrArchSetup, AvrSetup)

\* What lives in the bss section; data_section variables come with "data".
InBss == {"seed", "heap", "resources", "mslog", "vcall", "sysclk", "earlycon"}
\* The calls a step makes find: the heap, the visor call with the resources
\* behind it, the logger, the clock the baud rate is computed from.
VisorCalls == IF plat = "avr" THEN {"resources"} ELSE {"vcall", "resources"}
Needs(s) ==
  CASE s \in {"heap", "resources"} -> {"bss"}
    [] s = "mslog" -> {"bss", "resources"}
    [] s = "sysclk" -> {"heap"} \cup VisorCalls
    [] s = "earlycon" -> {"heap"} \cup VisorCalls
                         \cup (IF plat = "sifive" THEN {"sysclk"} ELSE {})
    [] s = "bootmsgs" -> {"mslog", "earlycon"}
    [] s = "reset_handler" -> {"earlycon"} \cup (IF plat = "sifive" THEN VisorCalls ELSE {})
    [] s = "ei" -> {"seed", "heap", "resources"}
    [] OTHER -> {}

-----------------------------------------------------------------------------
(* The reset syndrome. *)
First(causes, order) ==
  LET hits == {i \in DOMAIN order : order[i] \in causes}
  IN IF hits = {} THEN "inval_reset" ELSE order[CHOOSE i \in hits : \A j \in hits : i <= j]

\* platform_get_reset_syndrome: sifive reads the PMU cause, avr its variable,
\* ibex knows one cause only.
SifiveSyndrome ==
  IF "pmu" \notin resets THEN "not_reset"
  ELSE First(resets, <<"power_on_reset", "external_reset", "wdog_reset">>)
IbexSyndrome == "power_on_reset"
AvrSyndrome == IF syndrome = {} THEN "not_reset"
               ELSE First(syndrome, <<"power_on_reset", "external_reset",
                                      "brownout_reset", "wdog_reset">>)
Syndrome == CASE plat = "sifive" -> SifiveSyndrome
              [] plat = "avr" -> AvrSyndrome
              [] OTHER -> IbexSyndrome

\* platform_reset_handler: whether it returns; the others panic.
SifiveHandled(r) == r \in {"not_reset", "power_on_reset", "external_reset"}
IbexHandled(r) == r = "power_on_reset"
AvrHandled(r) == r \in {"not_reset", "power_on_reset", "external_reset"}
Handled(r) == CASE plat = "sifive" -> SifiveHandled(r)
                [] plat = "avr" -> AvrHandled(r)
                [] OTHER -> IbexHandled(r)

-----------------------------------------------------------------------------
\* One step; dog says whether platform_wdt_reset fails.
BootStep(s, dog) ==
  /\ ended = "booting" /\ Steps[step] = s
  /\ IF ~(Needs(s) \subseteq have)
     THEN ended' = "unmet" /\ UNCHANGED <<have, syndrome, resets, step>>
     ELSE /\ step' = step + 1
          /\ have' = CASE s = "bss" -> (have \ InBss) \cup {"bss"}
                       [] s = "reseed" -> have \cup {"seed"}
                       [] OTHER -> have \cup {s}
          /\ syndrome' = CASE s = "bss" -> {} [] s = "syndrome" -> resets [] OTHER -> syndrome
          /\ resets' = IF s = "syndrome" THEN {} ELSE resets
          /\ ended' = CASE s = "wdt_reset" /\ dog -> "exit"
                        [] s = "reset_handler" /\ ~Handled(Syndrome) -> "panic"
                        [] step = Len(Steps) -> "up"
                        [] OTHER -> "booting"
  /\ UNCHANGED plat

\* entry and init: execution starts over, memory keeps what it held.  MCUSR
\* gathers causes until it is cleared, power on starts it afresh.
Restart(cause) ==
  /\ resets' = (IF plat = "avr" /\ cause # "power_on_reset" THEN resets
               ELSE resets \cap {"pmu"}) \cup {cause}
  /\ step' = 1 /\ have' = {} /\ ended' = "booting"
  /\ UNCHANGED <<plat, syndrome>>

BInit ==
  /\ plat \in Plats
  /\ \E pmu \in SUBSET {"pmu"} : resets = {"power_on_reset"} \cup pmu
  /\ step = 1 /\ have = {} /\ syndrome = {} /\ ended = "booting"
=============================================================================
