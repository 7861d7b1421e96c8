SPECIFICATION NodeSpec
CONSTANTS
  LogTasks = {"t1"}
  Recorders = {"ra", "rb"}
  Given = {0, 3}
  MaxAge = 1
  MaxLag = 1
  MaxNow = 3
  MaxEvents = 3
  MaxGenerations = 3
  MaxInterrupted = 2
  MaxCallbacks = 2
  Loggers = {"w1", "w2"}
  MaxChain = 5
  MaxBlocks = 5
  Limit = 3
  Sizes = {1, 2, 4}
  MaxSecond = 1
  MaxShortTerm = 5
  MaxMessages = 8
  Providers = {"pa", "pb", "pc"}
  Rank <- MCRank
  Capable = {"pb", "pc"}
  MaxRetries = 2
  Queries = {"q1", "q2"}
  Entries = {"e1", "e2"}
  Score <- MCScore
  Comparable = {"e1", "e2"}
  TopK = 1
INVARIANTS
  IdentityMatches
  SessionKept
  ChainVerifies
  AuditTrailKept
  RecallsRecent
PROPERTIES
  PurgeKeepsFresh
  SelectsBest
  LoginEnds
  ServeReturns
CHECK_DEADLOCK FALSE
