SPECIFICATION Spec
CONSTANTS
  Contexts = {main, isr}
  After <- MCAfter
INVARIANT HeldByOne
