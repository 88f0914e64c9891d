SPECIFICATION DaemonSpec
CONSTANTS
  MaxLines = 3
  High = 2
  Low = 1
  Hasty = FALSE
  Procs = {p1}
  Racing = FALSE
  Suspending = FALSE
  None = None
  MaxProcs = 2
  MaxCommands = 1
  Slow = TRUE
  Unfenced = FALSE
PROPERTIES
  EndpointStays
CHECK_DEADLOCK FALSE
