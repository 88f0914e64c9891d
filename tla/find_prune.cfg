SPECIFICATION ChatsSpec
CONSTANTS
  Listers = {l1, l2}
  PageSize = 2
  MaxStock = 0
  MaxClaude = 0
  MaxCaches = 2
  Odd = {}
  Threads = {t1, t2, t3, t4}
  Calls = {x1}
  MaxTurn = 3
  MaxRun = 2
  Allow = {"Collisions", "LostRows", "LateFailures"}
SYMMETRY IdSymmetry
PROPERTIES
  PruneKeepsChats
CHECK_DEADLOCK FALSE
