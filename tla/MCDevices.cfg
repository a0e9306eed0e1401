SPECIFICATION DevicesSpec
CONSTANTS
  Chips = {"avr", "sifive"}
  PinsOf <- MCPinsOf
  LedPins <- MCLedPins
  UartPins <- MCUartPins
  SpiPins <- MCSpiPins
  Modes <- MCModes
  AdcPins <- MCAdcPins
  PmuSize = 2
  Programs <- MCPrograms
  Uses <- MCUses
  MaxSetups = 4
  Blocks = {b1, b2}
  Null = null
  Wild = wild
  Clocks = {320}
  Crystal = 16
  Parked = 18
  BaseClk = 16000000
  Iclk = 72000000
  OscClks = {12000000, 16000000}
  PllClks = {10000000, 24000000, 200000000}
SYMMETRY Interchangeable
INVARIANTS PinsSafe HalSafe CallbacksSound ClockSafe
