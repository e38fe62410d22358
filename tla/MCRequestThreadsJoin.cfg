SPECIFICATION Spec
CONSTANTS
  Handler = handler
  RequestThreads = {r1, r2}
  Outsider = outsider
  NoThread = nobody
  Grace = 1
  OnlineLimit = 2
  OfflineLimit = 4
  ServeMax = 3
  ForeverMax = 2
INVARIANTS
  JoinBounded
CHECK_DEADLOCK FALSE
