SPECIFICATION Spec
CONSTANTS
  Calls = {c1, c2}
  Unnamed = {}
  MaxPermits = 1
  Handler = handler
  RequestThreads = {r1}
  Outsider = outsider
  NoThread = nobody
  Grace = 1
  OnlineLimit = 1
  OfflineLimit = 1
  ServeMax = 0
  ForeverMax = 1
SYMMETRY Symmetry
INVARIANTS
  StrikesMissCalls
CHECK_DEADLOCK FALSE
