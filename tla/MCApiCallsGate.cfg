\* A background thread besides the handler and a request thread, two calls over
\* one permit; threads are fair and services answer.
SPECIFICATION FairSpec
CONSTANTS
  Calls = {c1, c2}
  Unnamed = {}
  Handler = handler
  RequestThreads = {r1}
  BackgroundThreads = {b1}
  NoThread = nobody
  MaxPermits = 1
INVARIANTS
  SyncReturnsReleased
PROPERTIES
  RequestSettles
  ImplementsFairBarrier
CHECK_DEADLOCK FALSE
