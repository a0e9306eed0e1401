------------------------------ MODULE MCDevices ------------------------------
(* Small instances of the drivers' hardware, where every call is one step or *)
(* a row of register writes: the pins, the HALs of the AVR and the PMU, the  *)
(* callbacks of the clock, and the clock itself.  They share no variable,    *)
(* and a behaviour is of the one that which names.                           *)
EXTENDS Pins, Hal, SysClk, Prci, TLC

(* Pins 16 and 19 are beyond port_status. *)
MCPinsOf == [c \in {"avr", "sifive"} |-> IF c = "avr" THEN {1, 2, 3, 4, 5} ELSE {3, 16, 19}]
MCLedPins == [c \in {"avr", "sifive"} |-> IF c = "avr" THEN <<5>> ELSE <<19, 3>>]
MCUartPins == <<16, 19>>
MCSpiPins == <<1, 2, 3, 4>>

MCModes == {{"w0"}, {"w1"}}
MCAdcPins == {{"m0"}, {"m1"}}
MCUses == {{"uart", "adc"}, {"tmr"}, {"pmu"}}
MCPrograms == {<<1, 2>>, <<3, 4>>}

(* The heap blocks of the callback nodes are interchangeable. *)
Interchangeable == Permutations(Blocks)

VARIABLE which
deviceVars == <<which, pinVars, halVars, clkVars, prciVars>>

DevicesInit ==
  /\ which \in {"pins", "hal", "callbacks", "prci"}
  /\ PinsInit /\ (which # "pins" => chip = "avr")
  /\ HalInit /\ (which # "hal" => uses = {"tmr"})
  /\ ClkInit /\ (which # "callbacks" => m.next = [b \in Blocks |-> Null])
  /\ PrciInit /\ (which # "prci" => ~reg.xosc /\ ~reg.refx /\ ~reg.bypass)

PinStep == which = "pins" /\ PinsNext /\ UNCHANGED <<which, halVars, clkVars, prciVars>>
HalStep == which = "hal" /\ HalNext /\ UNCHANGED <<which, pinVars, clkVars, prciVars>>
CallbackStep == which = "callbacks" /\ ClkNext /\ UNCHANGED <<which, pinVars, halVars, prciVars>>
PrciStep == which = "prci" /\ PrciNext /\ UNCHANGED <<which, pinVars, halVars, clkVars>>

(* A walk that goes wrong ends a behaviour. *)
CallbackRest == which = "callbacks" /\ clkFault # "none" /\ UNCHANGED deviceVars

(* So does a wait for a PLL that has locked, or a call through a stray port. *)
PrciRest ==
  /\ which = "prci" /\ (drv.port = "lost" \/ (todo # <<>> /\ Head(todo).op = "wait" /\ lock))
  /\ UNCHANGED deviceVars

DevicesSpec ==
  DevicesInit /\ [][PinStep \/ HalStep \/ CallbackStep \/ PrciStep \/ CallbackRest \/ PrciRest]_deviceVars
=============================================================================
