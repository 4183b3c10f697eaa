CONSTANTS
  Sessions = {k1, k2}
SPECIFICATION Spec
INVARIANT PanicShutdownIsClean
CHECK_DEADLOCK FALSE
