SPECIFICATION Spec
CONSTANTS
  Cores = {c1, c2}
  N = 2
  MaxOrder = 1
  sorder <- MCPairSorder
  eorder <- MCPairSorder
  percpu <- MCPairPercpu
  stepsIn <- MCPairStepsIn
  Consoles = {1, 2}
  MayFail = {1}
  Disciplined = FALSE
INVARIANT ExecExact
SYMMETRY CoreSymmetry
