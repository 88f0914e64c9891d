SPECIFICATION FairSpec
CONSTANTS
  Messages = {m1}
  Injections = {i1}
  OwnIds = {w1, w2, w3}
  Agents = {}
  UltraChoices = {FALSE}
  Injecting = TRUE
  Stopping = TRUE
  Awaiting = TRUE
  Sweeping = FALSE
  SamePoll = FALSE
  Failing = TRUE
  Rejecting = FALSE
  Limiting = FALSE
  MaxStops = 1
  Late = FALSE
  None = None
PROPERTIES
  TurnsEnd
  MessagesSettle
  WaitersResolve
CHECK_DEADLOCK FALSE
