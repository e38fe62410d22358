SPECIFICATION FairSpec
CONSTANTS
  Handler = handler
  RequestThreads = {r1, r2}
  Outsider = outsider
  NoThread = nobody
  Grace = 1
  OnlineLimit = 2
  OfflineLimit = 4
  ServeMax = 3
  ForeverMax = 2
PROPERTIES
  DispatchEnds
INVARIANTS
  TypeOK
  ServletThreadsStruck
  SharedDeadline
CHECK_DEADLOCK FALSE
