CONSTANTS
  Nodes = {alice, bob}
  Capacity = 1
  MaxKeys = 2
  MaxSessions = 1
  MaxCuts = 1
SPECIFICATION Spec
PROPERTIES
  ManagerResumes
  KeysMeet
CHECK_DEADLOCK FALSE
