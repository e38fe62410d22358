\* Blobs of up to three chunks, the last one where an int overflows, and ranges up to
\* the one whose length overflows a long.
SPECIFICATION FairSpec
CONSTANTS
  Readers = {r1}
  Deleters = {d1, d2}
  MaxInt = 5
  MaxLong = 7
  Fetch = 2
  BufSize = 2
INVARIANTS
  TypeOK
  StoredWhole
  NothingOrphaned
  BodyFitsHeader
PROPERTIES
  ResponseEnds
CHECK_DEADLOCK FALSE
