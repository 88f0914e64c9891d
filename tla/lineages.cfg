SPECIFICATION ChatsSpec
CONSTANTS
  Listers = {l1, l2}
  PageSize = 2
  MaxStock = 4
  MaxClaude = 2
  MaxCaches = 2
  Odd = {}
  Threads = {t1, t2, t3}
  Calls = {x1, x2}
  MaxTurn = 3
  MaxRun = 2
  Allow = {}
SYMMETRY IdSymmetry
INVARIANTS
  ChatsTypeOK
  RowListed
  OneChatEach
  SegmentsHold
  ListIsWhole
PROPERTIES
  KeepsPromise
CHECK_DEADLOCK FALSE
