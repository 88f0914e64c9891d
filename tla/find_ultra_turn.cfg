SPECIFICATION Spec
CONSTANTS
  Messages = {m1, m2}
  Injections = {i1}
  OwnIds = {w1}
  Agents = {}
  UltraChoices = {TRUE}
  Injecting = FALSE
  Stopping = FALSE
  Awaiting = FALSE
  Sweeping = FALSE
  SamePoll = FALSE
  Failing = FALSE
  Rejecting = FALSE
  Limiting = FALSE
  MaxStops = 1
  Late = TRUE
  None = None
SYMMETRY PromptSymmetry
INVARIANTS
  OneOpenTurn
CHECK_DEADLOCK FALSE
