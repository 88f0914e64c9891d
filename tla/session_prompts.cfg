SPECIFICATION Spec
CONSTANTS
  Messages = {m1, m2}
  Injections = {i1}
  OwnIds = {w1, w2, w3}
  Agents = {a1}
  UltraChoices = {TRUE}
  Injecting = TRUE
  Stopping = FALSE
  Awaiting = FALSE
  Sweeping = FALSE
  SamePoll = FALSE
  Failing = FALSE
  Rejecting = FALSE
  Limiting = TRUE
  MaxStops = 1
  Late = TRUE
  None = None
SYMMETRY PromptSymmetry
INVARIANTS
  OnePlace
  NothingDropped
  QueueServed
  WaitingTurnIsOver
  DelegatingAsTold
CHECK_DEADLOCK FALSE
