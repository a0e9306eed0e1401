-------------------------------- MODULE Prci --------------------------------
(***************************************************************************)
(* The clock tree of the FE310 and its driver: sysclk_prci.c, which puts   *)
(* the core on the internal oscillator, the crystal or the PLL by a        *)
(* sequence of the register writes of hfosc.c and pll.c.  The core runs    *)
(* from the clock it is switching, so every write is a step here; the      *)
(* sequences themselves run under sysclk_key with interrupts off.  The     *)
(* lock bit of the PLL, PLLLOCK, is the hardware's.                        *)
(***************************************************************************)
EXTENDS Integers, Sequences, SequencesExt, FiniteSetsExt

CONSTANTS
  BaseClk,     \* port->base_clk, the crystal, in Hz
  Iclk,        \* ICLK, the internal oscillator before its divider
  OscClks,     \* frequencies asked of the internal oscillator
  PllClks      \* frequencies asked of the PLL

KHz == 1000
MHz == 1000 * KHz

ASSUME PrciConstants ==
  /\ BaseClk \in 6 * MHz .. 96 * MHz   \* divided by 1 to 8 it is a reference the PLL takes
  /\ Iclk \in Nat
  /\ OscClks \subseteq 1 .. Iclk
  /\ PllClks \subseteq 375 * KHz .. 320 * MHz   \* asserted by pll_config_for_nearest_freq

VARIABLES
  reg,     \* the PRCI registers
  pllc,    \* the configuration pll.c remembers
  lock,    \* the bit PLLLOCK
  ctype,   \* clk_type
  drv,     \* the driver's port and the driver core's flag, see PrciInit
  todo,    \* the register writes of the call under way still to be made
  ored     \* auxiliary: a divided PLL clock was set after another one

prciVars == <<reg, pllc, lock, ctype, drv, todo, ored>>

-----------------------------------------------------------------------------
(* pll.c *)
Abs(x) == IF x < 0 THEN -x ELSE x

Shift(q) == <<2, 4, 8>>[q]   \* 1 << q
\* The settings of the four nested loops, in loop order.
Settings ==
  {s \in [r : 0 .. 7, f : 0 .. 63, q : 1 .. 3] :
     LET refr == BaseClk \div (s.r + 1)
     IN /\ refr \in 6 * MHz .. 12 * MHz
        /\ refr * 2 * (s.f + 1) \in 384 * MHz .. 768 * MHz
        /\ (refr * 2 * (s.f + 1)) \div Shift(s.q) \in 48 * MHz .. 384 * MHz}
PllOut(s) == ((BaseClk \div (s.r + 1)) * 2 * (s.f + 1)) \div Shift(s.q)
Divided(s, n) == PllOut(s) \div (2 * (n + 1))
Diff(s, n, clk) == Min({Abs(clk - Divided(s, n)), Abs(clk - PllOut(s))})
Rank(s, n) == ((s.r * 64 + s.f) * 4 + s.q) * 64 + n

\* pll_config_for_nearest_freq: the first setting with the smallest difference.
PllNearest(clk) ==
  LET all == {<<s, n>> : s \in Settings, n \in 0 .. 63}
      best == Min({Diff(x[1], x[2], clk) : x \in all})
      near == {x \in all : Diff(x[1], x[2], clk) = best}
      rank == Min({Rank(x[1], x[2]) : x \in near})
      first == CHOOSE x \in near : Rank(x[1], x[2]) = rank
  IN [found |-> TRUE, s |-> first[1], n |-> first[2],
      diven |-> Abs(clk - Divided(first[1], first[2])) < Abs(clk - PllOut(first[1]))]
Configs == [clk \in PllClks |-> PllNearest(clk)]
NoConfig == [found |-> FALSE]

\* prci_pll_get_clk of a calibrated PLL.
PllGetClk == IF pllc.diven THEN Divided(pllc.s, pllc.n) ELSE PllOut(pllc.s)

\* The bitwise or of two values of the divider's six bits.
Bit(x, w) == (x \div w) % 2 = 1
OrBits(x, y) ==
  CHOOSE z \in 0 .. 63 : \A w \in {1, 2, 4, 8, 16, 32} : Bit(z, w) <=> Bit(x, w) \/ Bit(y, w)

\* Mutant of PllWriteConfig: the divider stays on once it was used.
PllWriteKeepsDivider(g, c) ==
  [g EXCEPT !.s = c.s, !.by1 = @ /\ ~c.diven, !.n = IF c.diven THEN OrBits(g.n, c.n) ELSE g.n]
\* prci_pll_write_config: the divider's bits are added to those that are set.
PllWriteConfig(g, c) ==
  [g EXCEPT !.s = c.s, !.by1 = ~c.diven, !.n = IF c.diven THEN OrBits(g.n, c.n) ELSE g.n]

-----------------------------------------------------------------------------
(* The sequences of sysclk_prci.c: an operation and its argument. *)
Do(op) == [op |-> op, clk |-> 0]
SetInternal(clk) ==
  << Do("xosc_on"), Do("bypass"), Do("rosc_on"), [op |-> "rosc_div", clk |-> clk],
     Do("ref_rosc"), Do("deselect"), Do("inline"), Do("xosc_off") >>
\* Mutant of SetExternal: the internal oscillator is stopped before the switch.
SetExternalStopsFirst ==
  << Do("rosc_on"), Do("xosc_on"), Do("ref_xosc"), Do("rosc_off"), Do("select"), Do("bypass") >>
SetExternal ==
  << Do("rosc_on"), Do("xosc_on"), Do("ref_xosc"), Do("select"), Do("bypass"), Do("rosc_off") >>
SetPll(clk) ==
  << Do("rosc_on"), Do("xosc_on"), Do("bypass"), Do("ref_xosc"), [op |-> "pll", clk |-> clk],
     Do("wait"), Do("select"), Do("inline"), Do("rosc_off") >>
OffClk == 16 * MHz
SetOff == << Do("rosc_on"), [op |-> "rosc_div", clk |-> OffClk], Do("deselect"), Do("inline") >>

\* The register writes of hfosc.c.
HfoscWrite(g, w) ==
  CASE w.op = "xosc_on"  -> [g EXCEPT !.xosc = TRUE]
    [] w.op = "xosc_off" -> [g EXCEPT !.xosc = FALSE]
    [] w.op = "rosc_on"  -> [g EXCEPT !.rosc = TRUE]
    [] w.op = "rosc_off" -> [g EXCEPT !.rosc = FALSE]
    [] w.op = "rosc_div" -> [g EXCEPT !.div = (Iclk \div w.clk - 1) % 64]
HfoscOps == {"xosc_on", "xosc_off", "rosc_on", "rosc_off", "rosc_div"}
\* The selectors of pll.c.
PllSelect(g, w) ==
  CASE w.op = "ref_xosc" -> [g EXCEPT !.refx = TRUE]
    [] w.op = "ref_rosc" -> [g EXCEPT !.refx = FALSE]
    [] w.op = "select"   -> [g EXCEPT !.sel = TRUE]
    [] w.op = "deselect" -> [g EXCEPT !.sel = FALSE]
    [] w.op = "bypass"   -> [g EXCEPT !.bypass = TRUE]
    [] w.op = "inline"   -> [g EXCEPT !.bypass = FALSE]
Written(g, w) ==
  IF w.op \in HfoscOps THEN HfoscWrite(g, w)
  ELSE IF w.op = "pll" THEN PllWriteConfig(g, Configs[w.clk])
  ELSE IF w.op = "wait" THEN g ELSE PllSelect(g, w)
\* A new setting or a new reference takes the PLL out of lock (external).
Unlocks == {"pll", "ref_xosc", "ref_rosc", "xosc_off"}

-----------------------------------------------------------------------------
\* The registers after a reset: on the internal oscillator.
PrciInit ==
  /\ reg \in [xosc : BOOLEAN, rosc : {TRUE}, div : {4}, refx : BOOLEAN, sel : {FALSE},
              bypass : BOOLEAN, s : {[r |-> 1, f |-> 31, q |-> 3]}, n : {0}, by1 : {TRUE}]
  /\ pllc = NoConfig /\ lock = FALSE /\ ctype = "internal" /\ todo = <<>> /\ ored = FALSE
  /\ drv = [port |-> "null",  \* NULL, "valid", "freed" or "wild": freed and written to since;
                              \* "lost" once a call went through a wild port
            exec |-> FALSE,   \* the driver core's flag
            ist  |-> TRUE,    \* auxiliary: the interrupt state is the caller's
            kept |-> FALSE]   \* auxiliary: clk_type is from before a sysclk_disable

Idle == todo = <<>> /\ drv.port # "lost"

\* sysclk_setup.  Its port is what malloc returns.  When the DP has no clock or
\* no prci the port is freed and sysclk still points to it, without a clock or
\* with a base address that was never set; arch_ei_restore_state then restores
\* an interrupt state that was never saved.
SysclkSetup(how, port, ist) ==
  /\ Idle /\ ~drv.exec
  /\ port \in CASE how = "ok" -> {"valid"} [] how = "memory" -> {"null"}
                 [] how = "clock" -> {"freed"} [] how = "prci" -> {"freed", "wild"}
  /\ how \in {"ok", "memory"} => ist = drv.ist
  /\ drv' = [drv EXCEPT !.exec = TRUE, !.port = port, !.ist = ist]
  /\ UNCHANGED <<reg, pllc, lock, ctype, todo, ored>>
\* The heap gives the freed port to another user, who writes to it.
PortReused ==
  /\ Idle /\ drv.port = "freed" /\ drv' = [drv EXCEPT !.port = "wild"]
  /\ UNCHANGED <<reg, pllc, lock, ctype, todo, ored>>
\* A call through a port that is somebody else's memory: RET_ON_FAIL lets it pass.
StrayCall ==
  /\ Idle /\ drv.port = "wild" /\ drv' = [drv EXCEPT !.port = "lost"]
  /\ UNCHANGED <<reg, pllc, lock, ctype, todo, ored>>

\* A call that passes RET_ON_FAIL, up to its first register write.
Call(writes, type) ==
  /\ Idle /\ drv.port = "valid" /\ todo' = writes /\ ctype' = type
  /\ UNCHANGED <<reg, pllc, lock, ored>>
\* sysclk_configure_clk and sysclk_reset.
ConfigureInternal(clk) ==
  Call(SetInternal(clk), "internal") /\ drv' = [drv EXCEPT !.kept = FALSE]
ConfigureExternal(clk) ==
  Call(SetInternal(clk) \o SetExternal, "external") /\ drv' = [drv EXCEPT !.kept = FALSE]
ConfigurePll(clk) == Call(SetPll(clk), "pll") /\ drv' = [drv EXCEPT !.kept = FALSE]
SysclkReset == Call(SetExternal, "external") /\ drv' = [drv EXCEPT !.kept = FALSE]
\* sysclk_disable behind the driver core's test: the port is cleared and freed,
\* clk_type and the pointer stay.  Without a valid port only the flag changes.
SysclkDisable ==
  /\ drv.exec /\ Call(SetOff, ctype)
  /\ drv' = [drv EXCEPT !.exec = FALSE, !.port = "freed", !.kept = @ \/ ctype # "internal"]
DisableRefused ==
  /\ Idle /\ drv.exec /\ drv.port \in {"null", "freed"} /\ drv' = [drv EXCEPT !.exec = FALSE]
  /\ UNCHANGED <<reg, pllc, lock, ctype, todo, ored>>

\* One register write of the call under way; the PLL's is preceded by the
\* search, whose result is remembered.  prci_pll_wait_to_lock waits while the
\* lock bit is set.
Write ==
  /\ todo # <<>>
  /\ LET w == Head(todo)
     IN /\ w.op = "wait" => ~lock
        /\ reg' = Written(reg, w)
        /\ lock' = (lock /\ w.op \notin Unlocks)
        /\ pllc' = IF w.op = "pll" THEN Configs[w.clk] ELSE pllc
        /\ ored' = (ored \/ (w.op = "pll" /\ Configs[w.clk].diven /\ reg.n # 0))
  /\ todo' = Tail(todo) /\ UNCHANGED <<ctype, drv>>

\* The PLL comes into lock (external).
PllLocks == ~lock /\ lock' = TRUE /\ UNCHANGED <<reg, pllc, ctype, drv, todo, ored>>

PrciNext ==
  \/ Write \/ PllLocks \/ SysclkReset \/ SysclkDisable \/ DisableRefused
  \/ PortReused \/ StrayCall
  \/ \E how \in {"ok", "memory", "clock", "prci"}, port \in {"null", "valid", "freed", "wild"},
        ist \in BOOLEAN : SysclkSetup(how, port, ist)
  \/ \E clk \in OscClks : ConfigureInternal(clk) \/ ConfigureExternal(clk)
  \/ \E clk \in PllClks : ConfigurePll(clk)
PrciSpec == PrciInit /\ [][PrciNext]_prciVars

-----------------------------------------------------------------------------
\* The clock of the core, by the wiring of the FE310 (external); a PLL out of
\* lock gives none that is known.
Unstable == 0
FromXosc == reg.sel /\ reg.refx
CoreClk ==
  LET osc == Iclk \div (reg.div + 1)
      ref == IF reg.refx THEN BaseClk ELSE osc
  IN IF ~reg.sel THEN osc ELSE IF reg.bypass THEN ref
     ELSE IF ~lock THEN Unstable
     ELSE IF reg.by1 THEN PllOut(reg.s) ELSE Divided(reg.s, reg.n)

\* sysclk_get_freq.
SysclkGetFreq ==
  CASE ctype = "internal" -> Iclk \div (reg.div + 1)
    [] ctype = "external" -> BaseClk
    [] ctype = "pll" -> PllGetClk

\* sysclk_set_internal, sysclk_set_external, sysclk_set_pll, sysclk_reset and
\* sysclk_disable, from whatever the call before left: the oscillator the core
\* runs from is on after every single register write, or the core stops.  When a
\* configuration is done and its PLL has locked, sysclk_get_freq reports the
\* clock the registers give, but for two errors of the code: from the second
\* divided PLL clock on, for which prci_pll_write_config leaves the bits of the
\* first divider in place, and after a sysclk_disable and a new sysclk_setup,
\* which keep a clk_type of external or pll while the core is on the internal
\* oscillator.  A core on a PLL that has not locked is outside it: the loop of
\* prci_pll_wait_to_lock (pll.c:123) waits while PLLLOCK is set, so it lets the
\* core go to an unlocked PLL, or never ends.
ClockSafe ==
  /\ IF FromXosc THEN reg.xosc ELSE reg.rosc
  /\ todo = <<>> /\ drv.port = "valid" /\ (ctype = "pll" => lock) /\ ~ored /\ ~drv.kept
     => SysclkGetFreq = CoreClk
=============================================================================
