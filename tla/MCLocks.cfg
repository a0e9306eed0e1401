SPECIFICATION LocksSpec
CONSTANTS
  N_CORES = 3
  TicketMod = 4
  Harts = {h1, h2, h3, h4}
INVARIANTS MutualExclusion FirstComeFirstServed NoOrphanKey
PROPERTIES NoStarvation SomeoneEnters ImplementsLock
