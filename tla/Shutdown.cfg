CONSTANTS
  Sessions = {k1, k2}
SPECIFICATION Spec
INVARIANTS
  OrphansOnlyAfterPanic
PROPERTIES
  PanicStops
  CancellationStops
CHECK_DEADLOCK FALSE
