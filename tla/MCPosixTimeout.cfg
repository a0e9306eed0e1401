SPECIFICATION PosixSpec
CONSTANTS
  Threads = {p, q}
  Nobody = nobody
  Waits = {0, 2}
  Flags <- MCFlags
  MaxUnits = 1
  MaxCalls = 4
CHECK_DEADLOCK FALSE
INVARIANT SuccessLocked
