SPECIFICATION TranscriptsSpec
CONSTANTS
  Threads = {a1, a2}
  MaxSessions = 2
  MaxTurns = 3
  Racing = FALSE
  Breaking = FALSE
  Callers = {"c1"}
  MaxLines = 2
  MaxFiles = 2
  MaxRestarts = 1
  MaxCalls = 1
  MaxRecords = 5
  MaxReads = 2
  KeptTurns = 1
  RecentWindows = 2
  Limit = 1
  MaxPrompts = 2
  MaxBlocks = 3
  Allow = {}
SYMMETRY ThreadSymmetry
INVARIANTS
  TranscriptsTypeOK
  OneWriter
  GoesOnFromKept
  SummaryIsWhole
  PagesAreHistory
  HistoryIsShown
PROPERTIES
  RefreshSees
CHECK_DEADLOCK FALSE
