SPECIFICATION Spec
CONSTANTS
  Main = main
  Scheduler = scheduler
  Callers = {a, b}
  MaxServers = 2
  MaxPending = 0
PROPERTIES
  ShutdownStaysDown
CHECK_DEADLOCK FALSE
