CONSTANTS
  Subsystems = {peers, listener, qkd}
  Jobs = {dial, launch, leader}
  Timed = TRUE
SPECIFICATION Spec
PROPERTY ShutdownCompletes
CHECK_DEADLOCK FALSE
