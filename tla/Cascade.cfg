CONSTANTS
  Length = 9
  BlockSize = 2
  Iterations = 3
  Shuffles <- MCShuffles
  References <- MCReferences
  MaxErrors = 4
SPECIFICATION Spec
INVARIANTS
  TypeOK
  ParitiesTrue
  ResidualEven
  LeakExact
  AskedDisjoint
PROPERTIES
  ErrorsOnlyShrink
  ImplementsReconciliation
CHECK_DEADLOCK FALSE
