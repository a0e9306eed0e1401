-------------------------------- MODULE Hal ---------------------------------
(***************************************************************************)
(* The units of the mega AVR behind uart.c, adc.c, timer.c and pwm.c, and  *)
(* the power manager of the FE310 behind pmu.c.  A call is a sequence of   *)
(* register writes and of entries made in the interrupt table; an          *)
(* interrupt can be taken between any two, so each is a step.              *)
(*                                                                         *)
(* Hardware, external: a write to a unit of the AVR whose clock is off is  *)
(* lost; the PMU takes one write after each write of its key.              *)
(***************************************************************************)
EXTENDS Integers, Sequences

CONSTANTS
  Modes,       \* modes asked of the timer, as sets of bits
  AdcPins,     \* pins of the ADC, as sets of MUX bits
  PmuSize,     \* PMU_PROGRAM_SIZE
  Programs,    \* PMU programs
  Uses,        \* the sets of units a program uses
  MaxSetups    \* bound: setups of the timer's channels

Channels == {"tA", "tB"}
HalIrqs == Channels \cup {"adc", "utx", "urx"}
UnitOf == [i \in HalIrqs |-> IF i \in Channels THEN "tmr" ELSE IF i = "adc" THEN "adc" ELSE "uart"]
Refs == {{}, {"r0"}, {"r0", "r1"}}    \* ref_ext, ref_avcc, ref_1_1
RefBits == {"r0", "r1"}

ASSUME HalConstants ==
  /\ PmuSize \in Nat /\ MaxSetups \in Nat
  /\ \A p \in Programs : p = [i \in 1 .. PmuSize |-> p[i]]
  /\ \A pin \in AdcPins : pin \cap (RefBits \cup {"adlar"}) = {}

VARIABLES
  uses,      \* the units this program uses; the PMU is on another chip than the rest
  hw,        \* the registers
  hlinked,   \* the interrupts with a handler
  calls,     \* the writes still to be made by the call under way
  up,        \* auxiliary: the units and channels set up
  wanted,    \* auxiliary: the last adc_config_pin
  fresh,     \* auxiliary: the ADC was read since, or never configured
  crossed,   \* auxiliary: a channel was shut down while the clock was off
  setups,    \* the setups of channels so far
  prog       \* auxiliary: the sleep and the wake program last asked for

halVars == <<uses, hw, hlinked, calls, up, wanted, fresh, crossed, setups, prog>>

-----------------------------------------------------------------------------
(* Register writes. *)
Wr(unit, op, arg) == [unit |-> unit, op |-> op, arg |-> arg]
Link(i) == Wr("cpu", "link", {i})
Unlink(i) == Wr("cpu", "unlink", {i})
\* platform_clk_en and platform_clk_dis.
ClkEn(u) == Wr("cpu", "clk_en", {u})
ClkDis(u) == Wr("cpu", "clk_dis", {u})

Written1(h, w) ==
  CASE w.op = "clk_en"  -> [h EXCEPT !.clk = @ \cup w.arg]
    [] w.op = "clk_dis" -> [h EXCEPT !.clk = @ \ w.arg]
    [] w.op = "ie"      -> [h EXCEPT !.ie = @ \cup w.arg]
    [] w.op = "id"      -> [h EXCEPT !.ie = @ \ w.arg]
    [] w.op = "admux_or"  -> [h EXCEPT !.admux = @ \cup w.arg]
    [] w.op = "admux_and" -> [h EXCEPT !.admux = @ \ w.arg]
    [] w.op = "admux"     -> [h EXCEPT !.admux = w.arg]
    [] w.op = "aden"    -> [h EXCEPT !.aden = TRUE]
    [] w.op = "adoff"   -> [h EXCEPT !.aden = FALSE]
    [] w.op = "start"   -> [h EXCEPT !.conv = h.admux]
    [] w.op = "mode_or" -> [h EXCEPT !.mode = @ \cup w.arg]
    [] w.op = "com_or"  -> [h EXCEPT !.com = @ \cup w.arg]
    [] w.op = "en_or"   -> [h EXCEPT !.en = @ \cup w.arg]
    [] w.op = "key"     -> [h EXCEPT !.key = TRUE]
    [] w.op = "slot"    -> [h EXCEPT !.slots[w.arg[1]][w.arg[2]] = w.arg[3], !.key = FALSE]
    [] w.op = "pmuie"   -> [h EXCEPT !.pmuie = @ \cup w.arg, !.key = FALSE]
    [] w.op = "sleep"   -> [h EXCEPT !.asleep = TRUE, !.key = FALSE]
    [] w.op = "nop"     -> h
Lost(h, w) ==
  \/ w.unit \in {"tmr", "adc", "uart"} /\ w.unit \notin h.clk
  \/ w.op \in {"slot", "pmuie", "sleep"} /\ ~h.key

-----------------------------------------------------------------------------
(* mega_avr uart.c *)
UartTx == << Link("utx"), Wr("uart", "ie", {"utx"}) >>
UartRx == << Link("urx"), Wr("uart", "ie", {"urx"}) >>
\* uart_setup: the first write is made before the clock is on.
AvrUartSetup(d) ==
  << Wr("uart", "nop", {}), ClkEn("uart") >>
  \o (IF d # "rx" THEN UartTx ELSE <<>>) \o (IF d # "tx" THEN UartRx ELSE <<>>)
  \o << Wr("uart", "en_or", IF d = "trx" THEN {"tx", "rx"} ELSE {d}) >>
\* Mutant of AvrUartShutdown: the handlers go first.
AvrUartUnlinksFirst ==
  << Unlink("utx"), Wr("uart", "id", {"utx"}), Unlink("urx"), Wr("uart", "id", {"urx"}), ClkDis("uart") >>
AvrUartShutdown ==
  << Wr("uart", "id", {"utx"}), Unlink("utx"), Wr("uart", "id", {"urx"}), Unlink("urx"), ClkDis("uart") >>

(* adc.c *)
AdcSetup(handler) ==
  << ClkEn("adc"), Wr("adc", "aden", {}) >>
  \o (IF handler THEN << Link("adc"), Wr("adc", "ie", {"adc"}) >> ELSE <<>>)
AdcShutdown == << Wr("adc", "id", {"adc"}), Wr("adc", "adoff", {}), ClkDis("adc") >>
\* adc_config_pin: reference, resolution (8 bits overwrite ADMUX), pin, start.
AdcConfigPin(pin, res, ref) ==
  << Wr("adc", "admux_or", ref) >>
  \o (IF res = 8 THEN << Wr("adc", "admux", {"adlar"}) >> ELSE <<>>)
  \o << Wr("adc", "admux_or", pin), Wr("adc", "start", {}) >>
\* Mutant of AdcRead: the alignment stays.
AdcReadKeepsAlignment == << Wr("adc", "admux_and", RefBits) >>
AdcRead == << Wr("adc", "admux_and", RefBits \cup {"adlar"}) >>

(* timer.c: a channel of the timer.  timer8_config_mode and timer8_config_ps
   add bits, so that writing 0 in timer_shutdown changes nothing. *)
ConfigMode(mode) == Wr("tmr", "mode_or", mode)
TimerSetup(c, mode, handler) ==
  << ClkEn("tmr") >>
  \o (IF handler THEN << Link(c), Wr("tmr", "ie", {c}) >> ELSE <<>>) \o << ConfigMode(mode) >>
TimerShutdown(c) ==
  << ConfigMode({}), Wr("tmr", "id", {c}), Unlink(c), ClkDis("tmr") >>
\* timer_pwm_set, through pwm_set.
PwmSet(c) == << Wr("tmr", "com_or", {c}) >>

(* pmu.c: every write of a register is preceded by one of the key. *)
PmuUnlock == Wr("pmu", "key", {})
\* Mutant of PmuProgram: the key is written once.
PmuProgramOneKey(k, p) == << PmuUnlock >> \o [i \in 1 .. PmuSize |-> Wr("pmu", "slot", <<k, i, p[i]>>)]
\* aon_pmusleep_program and aon_pmuwake_program.
PmuProgram(k, p) ==
  [j \in 1 .. 2 * PmuSize |->
     IF j % 2 = 1 THEN PmuUnlock ELSE Wr("pmu", "slot", <<k, j \div 2, p[j \div 2]>>)]
PmuIe(i) == << PmuUnlock, Wr("pmu", "pmuie", {i}) >>
PmuSleepTrigger == << PmuUnlock, Wr("pmu", "sleep", {}) >>

-----------------------------------------------------------------------------
HalInit ==
  /\ hw = [clk |-> {}, ie |-> {}, admux |-> {}, aden |-> FALSE, conv |-> {}, mode |-> {},
           com |-> {}, en |-> {}, key |-> FALSE, pmuie |-> {}, asleep |-> FALSE,
           slots |-> [k \in {"sleep", "wake"} |-> [i \in 1 .. PmuSize |-> 0]]]
  /\ hlinked = {} /\ calls = <<>> /\ uses \in Uses /\ up = {} /\ prog = hw.slots
  /\ wanted = [pin |-> {}, res |-> 0, ref |-> {}]
  /\ fresh = TRUE /\ crossed = FALSE /\ setups = 0

\* One write of the call under way.
WriteOne ==
  /\ calls # <<>>
  /\ LET w == Head(calls)
     IN /\ hlinked' = CASE w.op = "link" -> hlinked \cup w.arg
                       [] w.op = "unlink" -> hlinked \ w.arg
                       [] OTHER -> hlinked
        /\ hw' = IF w.op \in {"link", "unlink"} \/ Lost(hw, w) THEN hw ELSE Written1(hw, w)
  /\ calls' = Tail(calls)
  /\ UNCHANGED <<uses, up, wanted, fresh, crossed, setups, prog>>

HalStart(ws) == calls = <<>> /\ calls' = ws /\ UNCHANGED <<uses, hw, hlinked>>
HalCall(u, ws) == u \in uses /\ HalStart(ws) /\ UNCHANGED prog
Opens(u) == u \notin up /\ up' = up \cup {u}
Closes(u) == u \in up /\ up' = up \ {u}
NoAdc == UNCHANGED <<wanted, fresh>>
NoTimer == UNCHANGED <<crossed, setups>>

UartUp(d) == Opens("uart") /\ HalCall("uart", AvrUartSetup(d)) /\ NoAdc /\ NoTimer
UartDown == Closes("uart") /\ HalCall("uart", AvrUartShutdown) /\ NoAdc /\ NoTimer
AdcUp(handler) == Opens("adc") /\ HalCall("adc", AdcSetup(handler)) /\ NoAdc /\ NoTimer
AdcDown == Closes("adc") /\ HalCall("adc", AdcShutdown) /\ NoAdc /\ NoTimer
\* The client reads a conversion before it asks for the next one.
AdcConfig(pin, res, ref) ==
  /\ "adc" \in up /\ fresh /\ HalCall("adc", AdcConfigPin(pin, res, ref))
  /\ wanted' = [pin |-> pin, res |-> res, ref |-> ref] /\ fresh' = FALSE
  /\ UNCHANGED up /\ NoTimer
AdcResult ==
  /\ "adc" \in up /\ ~fresh /\ HalCall("adc", AdcRead) /\ fresh' = TRUE
  /\ UNCHANGED <<wanted, up>> /\ NoTimer
TimerUp(c, mode, handler) ==
  /\ setups < MaxSetups /\ setups' = setups + 1
  /\ Opens(c) /\ HalCall("tmr", TimerSetup(c, mode, handler)) /\ NoAdc /\ UNCHANGED crossed
TimerDown(c) ==
  /\ Closes(c) /\ HalCall("tmr", TimerShutdown(c)) /\ NoAdc
  /\ crossed' = (crossed \/ "tmr" \notin hw.clk) /\ UNCHANGED setups
\* pwm_setup needs memory for a timer_port_t for the time of the call.
PwmUp(c, mode, mem) ==
  /\ IF mem THEN TimerUp(c, mode, FALSE)
     ELSE calls = <<>> /\ "tmr" \in uses /\ UNCHANGED halVars
PwmValue(c) ==
  /\ c \in up /\ HalCall("tmr", PwmSet(c)) /\ UNCHANGED up /\ NoAdc /\ NoTimer
PmuCall(ws) == "pmu" \in uses /\ ~hw.asleep /\ HalStart(ws) /\ UNCHANGED up /\ NoAdc /\ NoTimer
Program(k, p) == PmuCall(PmuProgram(k, p)) /\ prog' = [prog EXCEPT ![k] = p]
Irq(i) == PmuCall(PmuIe(i)) /\ UNCHANGED prog
Sleep == PmuCall(PmuSleepTrigger) /\ UNCHANGED prog
\* The PMU wakes the core (external).
PmuWake ==
  /\ hw.asleep /\ calls = <<>> /\ hw' = [hw EXCEPT !.asleep = FALSE]
  /\ UNCHANGED <<uses, hlinked, calls, up, wanted, fresh, crossed, setups, prog>>

HalNext ==
  \/ WriteOne \/ UartDown \/ AdcDown \/ AdcResult
  \/ \E d \in {"tx", "rx", "trx"} : UartUp(d)
  \/ \E handler \in BOOLEAN : AdcUp(handler)
  \/ \E pin \in AdcPins, res \in {8, 10}, ref \in Refs : AdcConfig(pin, res, ref)
  \/ \E c \in Channels : TimerDown(c) \/ PwmValue(c)
  \/ \E c \in Channels, mode \in Modes, b \in BOOLEAN : TimerUp(c, mode, b) \/ PwmUp(c, mode, b)
  \/ \E p \in Programs, k \in {"sleep", "wake"} : Program(k, p)
  \/ \E i \in 1 .. 2 : Irq(i)
  \/ Sleep \/ PmuWake
HalSpec == HalInit /\ [][HalNext]_halVars

-----------------------------------------------------------------------------
HalDone == calls = <<>>
\* uart_setup, uart_shutdown, adc_setup, timer_setup and timer_shutdown of the
\* AVR, interrupted after any write: an interrupt that can come has a handler,
\* until a channel is shut down after its timer's clock went off with the other
\* channel.  adc_config_pin and adc_read, whatever was converted before: an 8 bit
\* conversion is left aligned and of the pin asked for, a 10 bit one is right
\* aligned and against the reference asked for.  Nothing is asked of the other
\* halves, where the code departs from the comment of adc_config_pin (adc.c:284):
\* for 8 bits line 144 overwrites the reference, for 10 bits line 304 keeps the
\* bits of the pin before.  pmu.c: the PMU holds the programs asked for when the
\* core goes to sleep.
HalSafe ==
  /\ crossed \/ \A i \in hw.ie : UnitOf[i] \in hw.clk => i \in hlinked
  /\ HalDone /\ wanted.res = 8 =>
       "adlar" \in hw.conv /\ hw.conv \ (RefBits \cup {"adlar"}) = wanted.pin
  /\ HalDone /\ wanted.res = 10 => "adlar" \notin hw.conv /\ hw.conv \cap RefBits = wanted.ref
  /\ HalDone \/ hw.asleep => hw.slots = prog
=============================================================================
