SPECIFICATION Spec
CONSTANTS
  Tasks = {a, b, c}
  Idle = idle
  NullTcb = nullTcb
  Priorities = {1, 2, 3}
  IdlePriority = 1
CHECK_DEADLOCK FALSE
INVARIANT InstanceFound
