CONSTANTS
  SiftedLengths <- MCLengths
  BufferedLength = 5
  MaxErrors = 5
  MaxParities = 2
  MaxRounds = 3
SPECIFICATION Spec
PROPERTY StartsOnlyWhenFound
CHECK_DEADLOCK FALSE
