SPECIFICATION Spec
CHECK_DEADLOCK FALSE
CONSTANTS
  State <- Points
  Loops <- TheLoops
  Hull <- Box
INVARIANTS PathInvsHold InterruptsCovered NormalExitCovered
