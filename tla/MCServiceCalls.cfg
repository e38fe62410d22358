\* Three calls, two connections, a package with a service besides Blobstore's,
\* and one without.
SPECIFICATION FairSpec
CONSTANTS
  Calls = {c1, c2, c3}
  Packages = {blobstore, datastore, unknown}
  Services = {blobstore, datastore}
  Blobstore = blobstore
  Nobody = nobody
  MaxConnections = 2
INVARIANTS
  TypeOK
  ConnectionsAccounted
  OneService
  UsersMeetRunning
PROPERTIES
  EveryCallEnds
CHECK_DEADLOCK FALSE
