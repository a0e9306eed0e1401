SPECIFICATION InterruptsSpec
CONSTANTS
  Archs = {"riscv", "avr", "arm"}
  Irqs = {1, 2}
  N_EXCEP = 15
  MaxDepth = 3
  MaxNest = 2
  MaxOps = 2
  Devs = {1, 2}
  Plats <- MCPlats
  Gears <- MCGears
  SIZE = 3
  OccMod = 5
  FifoDepth = 2
  MaxBytes = 9
  MEMBUF_SIZE = 3
  MaxChars = 3
  MaxPrints = 2
INVARIANTS
  TrapsTransparent PlicSafe StartupSafe
  ReadsSound OccExact StdconSafe
PROPERTIES
  CriticalKept InterruptsComeBack PlicServes HungCoreBitten
  ReadReturns ReadsFresh WriteReturns
