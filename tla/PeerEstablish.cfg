CONSTANTS
  Nodes = {alice, bob}
  Conns = {c1, c2, c3}
  Dialers = {alice}
  Fragile = {}
  MaxLosses = 0
  MaxStops = 0
SPECIFICATION Spec
PROPERTY Established
CHECK_DEADLOCK FALSE
