SPECIFICATION FairSpec
CHECK_DEADLOCK FALSE
CONSTANTS
  Names = {"daily"}
  Exprs <- MCExprs
  Calendar <- MCCalendar
  MaxIter = 2
  MaxInt = 127
  MaxLoops = 2
  MaxTime = 5
  MaxJobs = 2
  MaxLag = 1
INVARIANTS
  OncePerMinute
  FiresAsWritten
  NeverMiss
PROPERTY StopEndsLoops
