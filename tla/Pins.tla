-------------------------------- MODULE Pins --------------------------------
(***************************************************************************)
(* The GPIO pins of the two chips that have a driver for them, and their   *)
(* users: onboardled.c, the UART of the FE310 and the SPI of the mega AVR, *)
(* whose setups allocate pins, and an application that allocates a pin or, *)
(* on the AVR, a whole port.  There is one port.  The calls of a user are  *)
(* made one after the other, so each is one step.                          *)
(*                                                                         *)
(* A handle (gpio_port_t) is filled by a successful allocation only, and   *)
(* its memory comes from malloc or the stack uncleared: a handle that was  *)
(* never filled names any pin.                                             *)
(***************************************************************************)
EXTENDS Integers, Sequences, SequencesExt, FiniteSets

CONSTANTS
  Chips,      \* "avr" and "sifive"
  PinsOf,     \* the pins of the port of each chip
  LedPins,    \* pmux of the onboard LED of each chip, a sequence of pins
  UartPins,   \* pmux of the FE310's UART
  SpiPins     \* com_pins of the AVR's SPI

Bits == 8   \* port_status is an array of uint8_t on both chips

ASSUME PinsConstants ==
  /\ \A c \in Chips : /\ PinsOf[c] \subseteq Nat /\ IsFiniteSet(PinsOf[c])
                      /\ LedPins[c] \in Seq(PinsOf[c])
  /\ "sifive" \in Chips => UartPins \in Seq(PinsOf["sifive"])
  /\ "avr" \in Chips => SpiPins \in Seq(PinsOf["avr"])

Users == {"led", "uart", "spi", "app", "port"}

VARIABLES
  chip,     \* the chip the program runs on
  status,   \* the bits of port_status that are set
  handle,   \* for each user, the pin each of its handles names, or -1
  dir,      \* the direction of each pin
  lvl,      \* the output level of each pin
  iof,      \* the pins of the FE310 given to a peripheral
  obled,    \* obled_sp is set
  lexec,    \* the exec flag of the driver core for OBrdLED
  owners,   \* auxiliary: the users an allocation of each pin succeeded for
  lamp,     \* auxiliary: the level the last LED call asked for; "none" while it is not set up
  spoilt    \* auxiliary: a handle that was never filled was used

pinVars == <<chip, status, handle, dir, lvl, iof, obled, lexec, owners, lamp, spoilt>>
AllPins == UNION {PinsOf[c] : c \in Chips}

-----------------------------------------------------------------------------
(* gpio.c.  The operators below work on g, the state above as a record. *)

Filled(g, u, p) == [g EXCEPT !.got = Append(@, p), !.owners[p] = @ \cup {u}]
Refused(g) == [g EXCEPT !.failed = TRUE]   \* error_driver_busy, the handle stays empty

\* gpio_pin_alloc of pin p by user u on the AVR.
\* Mutant of AvrPinAlloc: the bit is not set.
AvrPinAllocUnmarked(g, u, p) == IF p \in g.status THEN Refused(g) ELSE Filled(g, u, p)
AvrPinAlloc(g, u, p) ==
  IF p \in g.status THEN Refused(g) ELSE [Filled(g, u, p) EXCEPT !.status = @ \cup {p}]
\* The same on the FE310: a bit beyond the width of port_status is never found
\* set and never stays set.
SifivePinAlloc(g, u, p) ==
  IF p \in g.status THEN Refused(g)
  ELSE [Filled(g, u, p) EXCEPT !.status = IF p < Bits THEN @ \cup {p} ELSE @]
PinAlloc(g, u, p) == IF chip = "avr" THEN AvrPinAlloc(g, u, p) ELSE SifivePinAlloc(g, u, p)

\* gpio_pin_free of the two chips.
AvrPinFree(g, u, p) == [g EXCEPT !.status = @ \ {p}, !.owners[p] = @ \ {u}]
SifivePinFree(g, u, p) == [g EXCEPT !.status = @ \ {p}, !.owners[p] = @ \ {u}]
PinFree(g, u, p) == IF chip = "avr" THEN AvrPinFree(g, u, p) ELSE SifivePinFree(g, u, p)

\* The state as a record: got collects the pins of the allocations of a call.
State == [status |-> status, owners |-> owners, got |-> <<>>, failed |-> FALSE]
Take(g) == status' = g.status /\ owners' = g.owners

\* A setup that allocates pins: every pin is tried, and the status is or-ed.
AllocAll(u, pins) == FoldLeft(LAMBDA g, p : PinAlloc(g, u, p), State, pins)
\* The pins of the handles of u, freed one after the other.
FreeAll(u) == FoldLeft(LAMBDA g, p : PinFree(g, u, p), State, handle[u])

-----------------------------------------------------------------------------
(* onboardled.c *)

\* driver_register of OBrdLED and onboardled_setup; how is where it ends: "sp"
\* when fetch_sp fails, "memory" when malloc does, which leaves obled_sp set.
\* exec is set whatever the setup answers.
LedSetup(how) ==
  LET g == AllocAll("led", LedPins[chip])
  IN /\ ~lexec /\ lexec' = TRUE
     /\ obled' = (how # "sp")
     /\ IF how # "ok" THEN UNCHANGED <<status, owners, handle, dir, lamp, spoilt>>
        ELSE /\ Take(g)
             /\ handle' = [handle EXCEPT !["led"] = g.got]
             /\ dir' = [p \in AllPins |-> IF p \in ToSet(g.got) THEN "out" ELSE dir[p]]
             /\ lamp' = IF g.failed THEN "none" ELSE "any"
             /\ spoilt' = (spoilt \/ g.failed)   \* gpio_pin_mode of an empty handle
     /\ UNCHANGED <<chip, lvl, iof>>

\* onboardled_on, onboardled_off and onboardled_toggle (level "flip"); after a
\* setup that found no memory they go through a NULL array.
Level(p, to) == IF to = "flip" THEN (IF lvl[p] = "high" THEN "low" ELSE "high") ELSE to
LedCall(to) ==
  /\ IF ~obled THEN UNCHANGED <<lvl, lamp, spoilt>>   \* error_driver_init_failed
     ELSE /\ lvl' = [p \in AllPins |-> IF p \in ToSet(handle["led"]) THEN Level(p, to) ELSE lvl[p]]
          /\ lamp' = IF lamp = "none" THEN "none"
                     ELSE IF to # "flip" THEN to
                     ELSE IF lamp = "any" THEN "any" ELSE IF lamp = "high" THEN "low" ELSE "high"
          /\ spoilt' = (spoilt \/ lamp = "none")
  /\ UNCHANGED <<chip, status, handle, dir, iof, obled, lexec, owners>>

\* driver_deregister of OBrdLED and onboardled_exit, also after a setup that
\* failed: with obled_sp set it frees handles that were never filled, or a NULL
\* array of them.
LedExit ==
  /\ lexec /\ lexec' = FALSE
  /\ IF ~obled THEN UNCHANGED <<status, owners, handle, lamp, spoilt>>  \* error_driver_init_failed
     ELSE /\ Take(FreeAll("led")) /\ handle' = [handle EXCEPT !["led"] = <<>>]
          /\ lamp' = "none" /\ spoilt' = (spoilt \/ lamp = "none")
  /\ obled' = FALSE
  /\ UNCHANGED <<chip, dir, lvl, iof>>

-----------------------------------------------------------------------------
(* The pins of uart_setup and uart_shutdown of the FE310. *)

\* gpio_enable_alt_io and gpio_disable_alt_io.
EnableAltIo(pins) == iof' = iof \cup ToSet(pins)
DisableAltIo(pins) == iof' = iof \ ToSet(pins)
UartSetupPins ==
  LET g == AllocAll("uart", UartPins)
  IN /\ chip = "sifive" /\ handle["uart"] = <<>>
     /\ Take(g) /\ handle' = [handle EXCEPT !["uart"] = g.got]
     /\ EnableAltIo(g.got)
     /\ spoilt' = (spoilt \/ g.failed)           \* alternate function of an empty handle
     /\ UNCHANGED <<chip, dir, lvl, obled, lexec, lamp>>
UartShutdownPins ==
  /\ chip = "sifive" /\ handle["uart"] # <<>>
  /\ Take(FreeAll("uart"))
  /\ handle' = [handle EXCEPT !["uart"] = <<>>] /\ DisableAltIo(handle["uart"])
  /\ UNCHANGED <<chip, dir, lvl, obled, lexec, lamp, spoilt>>

\* The setups of the AVR's SPI, out being the pins it drives: the handles are on
\* the stack, and nothing ever frees the pins.
SpiPinSetup(out) ==
  LET g == AllocAll("spi", SpiPins)
  IN /\ chip = "avr" /\ handle["spi"] = <<>>
     /\ Take(g) /\ handle' = [handle EXCEPT !["spi"] = g.got]
     /\ dir' = [p \in AllPins |-> IF p \notin ToSet(g.got) THEN dir[p]
                                  ELSE IF p \in out THEN "out" ELSE "in"]
     /\ spoilt' = (spoilt \/ g.failed)
     /\ UNCHANGED <<chip, lvl, iof, obled, lexec, lamp>>
\* spi_master_setup (mosi, sck and ss out) and spi_slave_setup (miso out).
SpiMasterSetup == SpiPinSetup({SpiPins[1], SpiPins[3], SpiPins[4]})
SpiSlaveSetup == SpiPinSetup({SpiPins[2]})

-----------------------------------------------------------------------------
(* The application's pin and port. *)
AppAlloc(p) ==
  LET g == PinAlloc(State, "app", p)
  IN /\ handle["app"] = <<>> /\ p \in PinsOf[chip]
     /\ Take(g) /\ handle' = [handle EXCEPT !["app"] = g.got]
     /\ UNCHANGED <<chip, dir, lvl, iof, obled, lexec, lamp, spoilt>>
\* gpio_pin_mode of the AVR, whose pull_up is the output level of an input, and
\* of the FE310, which first turns the pin off.
\* Mutant of AvrPinMode: the bits of the whole port are written.
AvrPinModeAll(p, mode) ==
  /\ dir' = [q \in AllPins |-> IF mode = "out" THEN "out" ELSE "in"]
  /\ lvl' = IF mode = "pull_up" THEN [q \in AllPins |-> "high"] ELSE lvl
AvrPinMode(p, mode) ==
  /\ dir' = [dir EXCEPT ![p] = IF mode = "out" THEN "out" ELSE "in"]
  /\ lvl' = IF mode = "pull_up" THEN [lvl EXCEPT ![p] = "high"] ELSE lvl
SifivePinMode(p, mode) ==
  dir' = [dir EXCEPT ![p] = IF mode = "pull_up" THEN "off" ELSE mode] /\ UNCHANGED lvl
AppMode(mode) ==
  /\ handle["app"] # <<>>
  /\ \/ chip = "avr" /\ AvrPinMode(handle["app"][1], mode)
     \/ chip = "sifive" /\ SifivePinMode(handle["app"][1], mode)
  /\ UNCHANGED <<chip, status, handle, iof, obled, lexec, owners, lamp, spoilt>>
\* gpio_pin_set, gpio_pin_clear and gpio_pin_toggle of the application's pin.
AppSet(to) ==
  /\ handle["app"] # <<>>
  /\ lvl' = [lvl EXCEPT ![handle["app"][1]] = Level(handle["app"][1], to)]
  /\ UNCHANGED <<chip, status, handle, dir, iof, obled, lexec, owners, lamp, spoilt>>
AppFree ==
  /\ handle["app"] # <<>>
  /\ Take(PinFree(State, "app", handle["app"][1]))
  /\ handle' = [handle EXCEPT !["app"] = <<>>]
  /\ UNCHANGED <<chip, dir, lvl, iof, obled, lexec, lamp, spoilt>>

\* gpio_port_alloc of the AVR: only a port of which no pin is taken.
PortAlloc ==
  /\ chip = "avr" /\ handle["port"] = <<>>
  /\ IF status # {} THEN UNCHANGED <<status, owners, handle>>   \* error_driver_busy
     ELSE /\ status' = PinsOf["avr"]
          /\ owners' = [p \in AllPins |-> IF p \in PinsOf["avr"] THEN owners[p] \cup {"port"} ELSE owners[p]]
          /\ handle' = [handle EXCEPT !["port"] = SetToSeq(PinsOf["avr"])]
  /\ UNCHANGED <<chip, dir, lvl, iof, obled, lexec, lamp, spoilt>>
\* gpio_port_mode and gpio_port_write.
PortMode(mode) ==
  /\ handle["port"] # <<>>
  /\ dir' = [p \in AllPins |-> IF p \notin ToSet(handle["port"]) THEN dir[p]
                               ELSE IF mode = "out" THEN "out" ELSE "in"]
  /\ lvl' = [p \in AllPins |-> IF p \in ToSet(handle["port"]) /\ mode = "pull_up" THEN "high" ELSE lvl[p]]
  /\ UNCHANGED <<chip, status, handle, iof, obled, lexec, owners, lamp, spoilt>>
PortWrite(to) ==
  /\ handle["port"] # <<>>
  /\ lvl' = [p \in AllPins |-> IF p \in ToSet(handle["port"]) THEN to ELSE lvl[p]]
  /\ UNCHANGED <<chip, status, handle, dir, iof, obled, lexec, owners, lamp, spoilt>>
PortFree ==
  /\ handle["port"] # <<>>
  /\ status' = {} /\ owners' = [p \in AllPins |-> owners[p] \ {"port"}]
  /\ handle' = [handle EXCEPT !["port"] = <<>>]
  /\ UNCHANGED <<chip, dir, lvl, iof, obled, lexec, lamp, spoilt>>

-----------------------------------------------------------------------------
PinsInit ==
  /\ chip \in Chips /\ status = {} /\ handle = [u \in Users |-> <<>>]
  /\ dir = [p \in AllPins |-> "in"] /\ lvl = [p \in AllPins |-> "low"] /\ iof = {}
  /\ obled = FALSE /\ lexec = FALSE /\ owners = [p \in AllPins |-> {}] /\ lamp = "none" /\ spoilt = FALSE

PinsNext ==
  \/ \E how \in {"ok", "memory", "sp"} : LedSetup(how)
  \/ \E to \in {"high", "low", "flip"} : LedCall(to)
  \/ LedExit \/ UartSetupPins \/ UartShutdownPins \/ AppFree \/ PortAlloc \/ PortFree
  \/ SpiMasterSetup \/ SpiSlaveSetup
  \/ \E p \in AllPins : AppAlloc(p)
  \/ \E mode \in {"in", "out", "pull_up"} : AppMode(mode) \/ PortMode(mode)
  \/ \E to \in {"high", "low"} : AppSet(to) \/ PortWrite(to)
  \/ AppSet("flip")
PinsSpec == PinsInit /\ [][PinsNext]_pinVars

-----------------------------------------------------------------------------
\* gpio_pin_alloc, gpio_pin_free, gpio_port_alloc and gpio_port_free under any
\* sequence of calls: a pin within the width of port_status has one owner at
\* most and is marked exactly while it has one, until an empty handle was used
\* (spi_master_setup, uart_setup and onboardled_setup go on after a pin they did
\* not get).  While the LED is set up its pins within the width are outputs at
\* the level of the last LED call, whatever the other users of the port do, and
\* a pin of the FE310's UART stays the UART's until it is shut down.
PinsSafe ==
  ~spoilt =>
    /\ iof = ToSet(handle["uart"])
    /\ \A p \in AllPins : p < Bits =>
         Cardinality(owners[p]) <= 1 /\ (p \in status <=> owners[p] # {})
    /\ lamp \in {"high", "low"} =>
         \A p \in ToSet(LedPins[chip]) : p < Bits => dir[p] = "out" /\ lvl[p] = lamp
=============================================================================
