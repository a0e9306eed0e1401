SPECIFICATION Spec
CONSTANTS
  Cores = {c1}
  N = 2
  MaxOrder = 1
  sorder <- MCTwoSorder
  eorder <- MCTwoEorder
  percpu <- MCTwoPercpu
  stepsIn <- MCTwoStepsIn
  Consoles = {}
  MayFail = {}
  Disciplined = TRUE
PROPERTIES
  ExitOrderKept
