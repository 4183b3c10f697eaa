CONSTANTS
  Files <- MCCodes
  Length = 3
  Channels <- MCChannels
  Subjects <- MCSubjects
  MaxIteration = 2
SPECIFICATION MCSpec
INVARIANTS
  IrreducibleExact
  DivisionExact
  FieldsAreFields
  NonBinaryBeliefsExact
  BinaryBeliefsExact
  OneErrorCorrected
PROPERTY MessagesExact
CHECK_DEADLOCK FALSE
