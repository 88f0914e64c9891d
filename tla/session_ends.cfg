SPECIFICATION Spec
CONSTANTS
  Messages = {m1, m2}
  Injections = {i1}
  OwnIds = {w1, w2, w3}
  Agents = {}
  UltraChoices = {FALSE}
  Injecting = TRUE
  Stopping = FALSE
  Awaiting = FALSE
  Sweeping = TRUE
  SamePoll = TRUE
  Failing = TRUE
  Rejecting = TRUE
  Limiting = FALSE
  MaxStops = 1
  Late = TRUE
  None = None
SYMMETRY PromptSymmetry
INVARIANTS
  TypeOK
  InjectionsWithClaude
CHECK_DEADLOCK FALSE
