SPECIFICATION FairSpec
CONSTANTS
  SendLimit = 3
  ErrorLimit = 1
  Window = 2
  Rounds = 2
  MaxMessages = 1
  MaxRid = 4
  MaxGarbled = 0
  MaxUnloads = 1
PROPERTIES
  DisconnectEnds RequestsSettle HandshakeEnds
CHECK_DEADLOCK FALSE
