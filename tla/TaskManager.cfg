CONSTANTS
  Subsystems = {peers, listener, qkd}
  Jobs = {dial, launch, leader}
  Timed = FALSE
SPECIFICATION Spec
INVARIANTS
  TypeOK
  CleanShutdown
PROPERTY ShutdownCompletes
CHECK_DEADLOCK FALSE
