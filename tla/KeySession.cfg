CONSTANTS
  SiftedLengths <- MCLengths
  BufferedLength = 5
  MaxErrors = 5
  MaxParities = 2
  MaxRounds = 3
SPECIFICATION Spec
INVARIANTS
  TypeOK
  KeysStayAligned
  AnswersFitRequests
  SecretsAgree
  LeakageCovered
  OnlyLossSplits
PROPERTIES
  ImplementsAgreement
  SessionEnds
CHECK_DEADLOCK FALSE
