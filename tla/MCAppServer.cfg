\* Two callers and the scheduler; the process runs as long as it is let.
SPECIFICATION FairSpec
CONSTANTS
  Main = main
  Scheduler = scheduler
  Callers = {a, b}
  MaxServers = 3
  MaxPending = 1
INVARIANTS
  TypeOK
  ExitAfterStop
  RunningServes
  ShutdownReleases
  OneContainer
PROPERTIES
  ProcessEnds
CHECK_DEADLOCK FALSE
