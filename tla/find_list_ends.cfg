SPECIFICATION ChatsSpec
CONSTANTS
  Listers = {l1, l2}
  PageSize = 1
  MaxStock = 4
  MaxClaude = 2
  MaxCaches = 2
  Odd = {"ManyHidden"}
  Threads = {t1}
  Calls = {x1}
  MaxTurn = 1
  MaxRun = 1
  Allow = {}
INVARIANTS
  ListIsWhole
CHECK_DEADLOCK FALSE
