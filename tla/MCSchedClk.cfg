SPECIFICATION FairSpec
CONSTANTS
  Platforms = {"sifive", "ibex", "mega_avr"}
  W = 2
  U64 = 56
  UsPerSec = 4
  ClkHz = 8
  MaxCount = 15
  StartCount = 3
  Delays = {0, 2}
  Periods = {2}
CHECK_DEADLOCK FALSE
INVARIANT ClockSound
PROPERTIES TimeKept DelayReturns
