SPECIFICATION LibsSpec
CONSTANTS
  Callers = {c1, c2}
  NoCaller = nobody
  HEAP_SIZE = 11
  HDR = 1
  Sizes = {1, 2, 4}
  MaxLive = 4
  MemSize = 4
  Bytes = {0, 1, 2}
  AddrMod = 8
  AtolLen = 4
  KeyLen = 5
  Numbers <- MCNumbers
  MaxNum = 20
  NsPerSec = 6
  TickHz = 3
  TickMax = 4
  Checked = TRUE
  SecMax = 5
  MaxNow = 15
  Steps <- MCSteps
INVARIANTS HeapSafe TimeExact LibcExact StringsSound
PROPERTIES FaultsOnlyWhenFull LockGivenBack
