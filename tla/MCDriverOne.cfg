SPECIFICATION FairSpec
CONSTANTS
  Cores = {c1}
  N = 4
  MaxOrder = 3
  sorder <- MCSorder
  eorder <- MCSorder
  percpu <- MCPercpu
  stepsIn <- MCStepsIn
  Consoles = {1, 4}
  MayFail = {1, 2}
  Disciplined = TRUE
INVARIANT ConsoleSound
PROPERTIES LifecycleKept CallsReturn
