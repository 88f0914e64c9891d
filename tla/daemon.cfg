SPECIFICATION DaemonSpec
CONSTANTS
  MaxLines = 3
  High = 2
  Low = 1
  Hasty = FALSE
  Procs = {p1, p2, p3}
  Racing = FALSE
  Suspending = FALSE
  None = None
  MaxProcs = 3
  MaxCommands = 2
  Slow = FALSE
  Unfenced = FALSE
INVARIANTS
  DaemonTypeOK
  MutualExclusion
  OneRecovery
  DaemonOnRecord
  OtherSpared
PROPERTIES
  LockFreed
  EndpointStays
  RelayGoesOn
CHECK_DEADLOCK FALSE
