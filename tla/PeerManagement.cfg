CONSTANTS
  Nodes = {alice, bob}
  Conns = {c1, c2, c3}
  Dialers = {alice, bob}
  Fragile = {"dial", "handshake", "session"}
  MaxLosses = 1
  MaxStops = 1
SYMMETRY ConnSymmetry
SPECIFICATION Spec
INVARIANTS
  TypeOK
  OneCommunication
  RolesOpposite
  ModulesStayUp
PROPERTY OnlyFaultsEndSessions
CHECK_DEADLOCK FALSE
