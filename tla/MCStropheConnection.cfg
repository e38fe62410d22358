SPECIFICATION Spec
CONSTANTS
  SendLimit = 3
  ErrorLimit = 1
  Window = 2
  Rounds = 2
  MaxMessages = 2
  MaxRid = 4
  MaxGarbled = 1
  MaxUnloads = 1
INVARIANTS
  TypeOK
  NothingLost
  InStep
  OpenMeansUsable
  SilentOnlyIfDenied
PROPERTIES
  KeepsContract
CHECK_DEADLOCK FALSE
