SPECIFICATION Spec
CONSTANTS
  Messages = {m1}
  Injections = {i1}
  OwnIds = {w1, w2, w3, w4}
  Agents = {a1}
  UltraChoices = {FALSE}
  Injecting = FALSE
  Stopping = TRUE
  Awaiting = FALSE
  Sweeping = FALSE
  SamePoll = FALSE
  Failing = TRUE
  Rejecting = FALSE
  Limiting = FALSE
  MaxStops = 2
  Late = TRUE
  None = None
INVARIANTS
  OneOpenTurn
  StatusTruthful
  TurnHasProcess
CHECK_DEADLOCK FALSE
