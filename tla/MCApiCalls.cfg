\* Handler and one request thread, three calls over two permits: the calls
\* compete for the permits, and a cancelled call lets a third one in.
SPECIFICATION Spec
CONSTANTS
  Calls = {c1, c2, c3}
  Unnamed = {c1, c2, c3}
  Handler = handler
  RequestThreads = {r1}
  BackgroundThreads = {}
  NoThread = nobody
  MaxPermits = 2
SYMMETRY Symmetry
INVARIANTS
  TypeOK
  PermitsConserved
  ConcurrencyBound
CHECK_DEADLOCK FALSE
