CONSTANTS
  Nodes = {alice, bob}
  Capacity = 1
  MaxKeys = 2
  MaxSessions = 2
  MaxCuts = 1
SPECIFICATION SafetySpec
INVARIANTS
  TypeOK
  UsedOnce
  NoneTwice
PROPERTY ImplementsKeyUse
SYMMETRY Symmetry
CHECK_DEADLOCK FALSE
