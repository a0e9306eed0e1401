SPECIFICATION KernelSpec
CONSTANTS
  Tasks = {a, b, c}
  Idle = idle
  NullTcb = nullTcb
  Priorities = {1, 2, 3}
  IdlePriority = 1
  STasks = {t1, t2, t3}
  NoTask = noTask
  MaxVal = 2
  MaxDepth = 2
  MaxTicks = 1
  Threads = {p, q}
  Nobody = nobody
  Waits = {0, 2}
  Flags <- MCFlags
  MaxUnits = 1
  MaxCalls = 4
CHECK_DEADLOCK FALSE
INVARIANTS ListsSound SyncExact PosixSafe
PROPERTY TimedReturns
