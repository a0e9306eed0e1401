------------------------------- MODULE Watchdog -------------------------------
(***************************************************************************)
(* The watchdog of mega_avr: the device (watchdog.c), its platform driver  *)
(* (platform_wdt.c), the HAL (wdt.c, wdt_util.S) and the hardware, from    *)
(* guard to bark to bite, and the boot that follows (module Boot).  The    *)
(* thread's calls are taken step by step; the bark interrupt comes between *)
(* any two steps.                                                          *)
(***************************************************************************)
EXTENDS Boot

CONSTANTS
  Gears       \* the timeouts passed to wdog_guard; those above 9 are refused

ASSUME WatchdogAssumption == Gears \subseteq Nat

VARIABLES
  wd,         \* WDTCSR: wde, wdie, wdif and the gear
  ints,       \* SREG.I
  wpc,        \* the thread: <<step, call>>
  wdogLock,   \* wdog_lock of the core
  attached,   \* wdog_attached
  cb,         \* callback_on_bark, its two bytes: of which function, 0 for none
  val,        \* wdt_sre, wdt_srd: the WDTCSR they read
  asked,      \* the last guard: [bite, gear, ok], ok once it returned success
  reguarded,  \* wdog_guard was called with the dog awake
  barked,     \* a bark since the last guard
  bites,      \* what was so at the last bite: "asked", "unasked" or "none"
  stuck,      \* the bark handler spins on wdog_lock
  halved        \* a bark called an address of two halves

dvars == <<wd, ints, wpc, wdogLock, attached, cb, val, asked, reguarded, barked,
           bites, stuck, halved>>
wvars == <<bvars, dvars>>

Off == [wde |-> FALSE, wdie |-> FALSE, wdif |-> FALSE, gear |-> 0]
Hushed == [bite |-> FALSE, gear |-> 0, ok |-> TRUE]
Rest == <<"idle", Hushed>>
Up == ended = "up" /\ plat = "avr"
Awake == wd.wde \/ wd.wdie

-----------------------------------------------------------------------------
(* wdt.c. *)
\* write_wdtcsr: the timed sequence; writing WDIF back as 1 clears it.
WriteWdtcsr(v) == wd' = [v EXCEPT !.wdif = FALSE]
\* wdt_set_timeout: the value written, and whether the port is in range.
SetTimeout(g) == [Off EXCEPT !.gear = g, !.wdie = g > 0]
TimeoutValid(g) == g <= 9

\* wdt_setup and wdt_shutdown turn the dog off.
WdtSetup == WriteWdtcsr(Off)
WdtShutdown == WriteWdtcsr(Off)

-----------------------------------------------------------------------------
(* The thread's calls. *)
Call(b, g) == [bite |-> b, gear |-> g, ok |-> TRUE]

\* wdog_guard takes the lock; platform_wdt_guard writes the callback's bytes.
WdogGuard ==
  /\ Up /\ ~stuck /\ wpc = Rest /\ attached /\ ~wdogLock /\ ints
  /\ \E b \in BOOLEAN, g \in Gears : wpc' = <<"cb1", Call(b, g)>>
  /\ wdogLock' = TRUE /\ reguarded' = (reguarded \/ Awake)
  /\ UNCHANGED <<bvars, wd, ints, attached, cb, val, asked, barked, bites, stuck, halved>>

GuardCallback ==
  /\ Up /\ ~stuck /\ wpc[1] \in {"cb1", "cb2"}
  /\ cb' = IF wpc[1] = "cb1" THEN <<IF cb[1] = 1 THEN 2 ELSE 1, cb[2]>> ELSE <<cb[1], cb[1]>>
  /\ wpc' = IF wpc[1] = "cb1" THEN <<"cb2", wpc[2]>> ELSE <<"set", wpc[2]>>
  /\ asked' = [wpc[2] EXCEPT !.ok = FALSE, !.bite = @ \/ asked.bite] /\ barked' = FALSE
  /\ UNCHANGED <<bvars, wd, ints, wdogLock, attached, val, reguarded, bites, stuck, halved>>

\* wdt_set_timeout: refused, or written with interrupts off.
GuardSetTimeout ==
  /\ Up /\ ~stuck /\ wpc[1] = "set"
  /\ IF TimeoutValid(wpc[2].gear)
     THEN WriteWdtcsr(SetTimeout(wpc[2].gear)) /\ wpc' = <<"check", wpc[2]>>
     ELSE UNCHANGED wd /\ wpc' = <<"read", [wpc[2] EXCEPT !.ok = FALSE]>>
  /\ UNCHANGED <<bvars, ints, wdogLock, attached, cb, val, asked, reguarded, barked, bites,
                 stuck, halved>>

\* The register is read back: a bark since the write shows in it.
CheckBack ==
  /\ Up /\ ~stuck /\ wpc[1] \in {"check", "check2"}
  /\ LET want == IF wpc[1] = "check" THEN SetTimeout(wpc[2].gear) ELSE val
         c == [wpc[2] EXCEPT !.ok = @ /\ wd = want]
     IN wpc' = IF wpc[1] = "check" THEN <<"read", c>> ELSE <<"release", c>>
  /\ UNCHANGED <<bvars, wd, ints, wdogLock, attached, cb, val, asked, reguarded, barked,
                 bites, stuck, halved>>

\* wdt_sre and wdt_srd read the register before they take their lock ...
\* Mutant of WdtSre: the bit that resets the core is forgotten.
WdtSreForgets == wd
WdtSre == [wd EXCEPT !.wde = TRUE]
\* Mutant of WdtSrd: the bit that was asked for last time stays.
WdtSrdForgets == wd
WdtSrd == [wd EXCEPT !.wde = FALSE]

ReadWdtcsr ==
  /\ Up /\ ~stuck /\ wpc[1] = "read"
  /\ val' = IF wpc[2].bite THEN WdtSre ELSE WdtSrd
  /\ wpc' = <<"write", wpc[2]>>
  /\ UNCHANGED <<bvars, wd, ints, wdogLock, attached, cb, asked, reguarded, barked, bites,
                 stuck, halved>>

\* ... and write it back inside.
WriteBack ==
  /\ Up /\ ~stuck /\ wpc[1] = "write"
  /\ WriteWdtcsr(val)
  /\ wpc' = <<"check2", wpc[2]>>
  /\ UNCHANGED <<bvars, ints, wdogLock, attached, cb, val, asked, reguarded, barked, bites,
                 stuck, halved>>

\* wdog_hush: platform_wdt_hush turns the dog off and clears WDE.
WdogHush ==
  /\ Up /\ ~stuck /\ wpc = Rest /\ attached /\ ~wdogLock /\ ints
  /\ wdogLock' = TRUE /\ wpc' = <<"hush", Hushed>>
  /\ UNCHANGED <<bvars, wd, ints, attached, cb, val, asked, reguarded, barked, bites, stuck, halved>>

\* Mutant of HushTimeout: the dog is only patted, not put to sleep.
HushPat ==
  /\ Up /\ ~stuck /\ wpc[1] = "hush"
  /\ wpc' = <<"read", wpc[2]>>
  /\ asked' = Hushed
  /\ UNCHANGED <<bvars, wd, ints, wdogLock, attached, cb, val, reguarded, barked, bites,
                 stuck, halved>>
HushTimeout ==
  /\ Up /\ ~stuck /\ wpc[1] = "hush"
  /\ WriteWdtcsr(SetTimeout(0))
  /\ wpc' = <<"read", wpc[2]>>
  /\ asked' = Hushed
  /\ UNCHANGED <<bvars, ints, wdogLock, attached, cb, val, reguarded, barked, bites,
                 stuck, halved>>

Release ==
  /\ Up /\ ~stuck /\ wpc[1] = "release"
  /\ wdogLock' = FALSE /\ wpc' = Rest /\ asked' = wpc[2]
  /\ UNCHANGED <<bvars, wd, ints, attached, cb, val, reguarded, barked, bites, stuck, halved>>

\* wdog_attach_device and wdog_release_device.
WdogAttachDevice == attached' = TRUE
WdogReleaseDevice == attached' = FALSE
\* plat_wdt_driver_setup and plat_wdt_driver_exit.
WdogSetup ==
  /\ Up /\ ~stuck /\ wpc = Rest /\ ~attached
  /\ WdtSetup /\ WdogAttachDevice /\ asked' = Hushed
  /\ UNCHANGED <<bvars, ints, wpc, wdogLock, cb, val, reguarded, barked, bites, stuck, halved>>

WdogExit ==
  /\ Up /\ ~stuck /\ wpc = Rest /\ attached
  /\ WdogReleaseDevice /\ WdtShutdown /\ asked' = Hushed
  /\ UNCHANGED <<bvars, ints, wpc, wdogLock, cb, val, reguarded, barked, bites, stuck, halved>>

\* The application, anywhere, turns interrupts off or on.
Mask ==
  /\ Up /\ ~stuck /\ wpc = Rest
  /\ ints' = ~ints
  /\ UNCHANGED <<bvars, wd, wpc, wdogLock, attached, cb, val, asked, reguarded, barked, bites,
                 stuck, halved>>

-----------------------------------------------------------------------------
(* The hardware (external) and the interrupt. *)

\* Time runs out: the first time a bark is due; when it is not delivered, or
\* WDIE is off, the core is reset.
Bite ==
  /\ wd.wde /\ (wd.wdif \/ ~wd.wdie)
  /\ bites' = IF asked.bite /\ (asked.ok /\ asked.gear > 0 => barked \/ wd.wdif)
              THEN "asked" ELSE "unasked"
  /\ wd' = [Off EXCEPT !.wde = TRUE]      \* WDRF keeps WDE on
  /\ Restart("wdog_reset")
  /\ ints' = FALSE /\ wpc' = Rest /\ wdogLock' = FALSE /\ attached' = FALSE
  /\ cb' = <<0, 0>> /\ asked' = Hushed /\ barked' = FALSE /\ stuck' = FALSE
  /\ UNCHANGED <<val, reguarded, halved>>

TimeOut ==
  /\ Up
  /\ \/ Bite
     \/ /\ wd.wdie /\ ~wd.wdif
        /\ wd' = [wd EXCEPT !.wdif = TRUE]
        /\ UNCHANGED <<bvars, ints, wpc, wdogLock, attached, cb, val, asked, reguarded,
                       barked, bites, stuck, halved>>

\* platform_wdt_handler; the callback may hush the dog, and then needs the lock.
Bark ==
  /\ Up /\ ~stuck /\ ints /\ wd.wdif /\ wd.wdie
  /\ barked' = TRUE
  /\ halved' = (halved \/ (cb[1] # cb[2] /\ cb[2] # 0))
  /\ \/ /\ wd' = [wd EXCEPT !.wdif = FALSE, !.wdie = ~wd.wde]
        /\ UNCHANGED <<stuck, ints, asked>>
     \/ /\ wdogLock
        /\ wd' = [wd EXCEPT !.wdif = FALSE, !.wdie = ~wd.wde]
        /\ stuck' = TRUE /\ ints' = FALSE /\ UNCHANGED asked
     \/ /\ ~wdogLock /\ attached
        /\ wd' = Off /\ asked' = Hushed /\ UNCHANGED <<stuck, ints>>
  /\ UNCHANGED <<bvars, wpc, wdogLock, attached, cb, val, reguarded, bites>>

\* The user presses reset, or power comes back.
Reset(cause) ==
  /\ ended # "booting"
  /\ Restart(cause)
  /\ wd' = IF cause = "power_on_reset" THEN Off ELSE [Off EXCEPT !.wde = "wdog_reset" \in resets]
  /\ ints' = FALSE /\ wpc' = Rest /\ wdogLock' = FALSE /\ attached' = FALSE
  /\ cb' = <<0, 0>> /\ asked' = Hushed /\ barked' = FALSE /\ stuck' = FALSE
  /\ bites' = "none" /\ val' = Off /\ reguarded' = FALSE /\ halved' = FALSE

\* platform_wdt_reset fails when WDRF still holds WDE on.
WdtResetFails == "wdog_reset" \in resets
\* One step of the boot; "ei" is platform_cpu_setup.
Booting ==
  /\ BootStep(Steps[step], WdtResetFails)
  /\ wd' = IF Steps[step] = "wdt_reset" /\ ~WdtResetFails THEN Off ELSE wd
  /\ ints' = (ended' = "up")
  /\ UNCHANGED <<wpc, wdogLock, attached, cb, val, asked, reguarded, barked, bites, stuck, halved>>

-----------------------------------------------------------------------------
WInit ==
  /\ BInit
  /\ wd = Off /\ ints = FALSE /\ wpc = Rest /\ wdogLock = FALSE /\ attached = FALSE
  /\ cb = <<0, 0>> /\ val = Off /\ asked = Hushed /\ reguarded = FALSE /\ barked = FALSE
  /\ bites = "none" /\ stuck = FALSE /\ halved = FALSE

WNext ==
  \/ ended = "booting" /\ Booting
  \/ WdogGuard \/ GuardCallback \/ GuardSetTimeout \/ CheckBack \/ ReadWdtcsr
  \/ WriteBack \/ WdogHush \/ HushTimeout \/ Release \/ WdogSetup \/ WdogExit \/ Mask
  \/ TimeOut \/ Bark
  \/ \E c \in {"power_on_reset", "external_reset"} : Reset(c)

\* The hardware's clock never stops; the boot goes on.  Nothing is asked of the
\* thread: it may hang anywhere.
WSpec == WInit /\ [][WNext]_wvars /\ WF_wvars(TimeOut) /\ WF_wvars(ended = "booting" /\ Booting)

-----------------------------------------------------------------------------
\* bootstrap and the platforms' setup: no step of the boot runs before what it
\* uses is there, no platform fails in platform_early_setup, and the boot after
\* a watchdog bite never reaches the application: its reset syndrome, kept in
\* a bss variable and read after MCUSR was cleared, says wdog_reset.
BootOrdered ==
  /\ ended \notin {"unmet", "exit"}
  /\ bites # "none" => ended # "up"
  /\ bites # "none" /\ ended = "panic" => Syndrome = "wdog_reset"

\* wdog_guard, wdog_hush and the bark: the core is reset only when the last
\* guard asked for a bite, and after a guard that returned success not before
\* a bark was due; and the bark never calls an address made of two callbacks
\* unless the dog was guarded anew while awake.
DogSafe ==
  /\ bites # "unasked"
  /\ halved => reguarded

\* The boot of sifive, ibex and mega_avr and the watchdog across its resets.
StartupSafe == BootOrdered /\ DogSafe

\* wdog_guard with bite: whatever the core does from there on (hang, mask
\* interrupts, spin in the bark handler on the lock the thread holds), it is
\* reset, or it calls the watchdog again, or the callback hushes it.
HungCoreBitten ==
  (Up /\ wpc = Rest /\ asked.bite) ~> (~Up \/ wpc # Rest \/ ~asked.bite)
=============================================================================
