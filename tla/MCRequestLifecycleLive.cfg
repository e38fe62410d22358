SPECIFICATION FairSpec
CONSTANTS
  Calls = {c1}
  Unnamed = {}
  MaxPermits = 1
  Handler = handler
  RequestThreads = {r1}
  Outsider = outsider
  NoThread = nobody
  Grace = 1
  OnlineLimit = 1
  OfflineLimit = 1
  ServeMax = 0
  ForeverMax = 1
PROPERTIES
  StrandedFreed
  RequestEnds
  ImplementsFairCalls
CHECK_DEADLOCK FALSE
