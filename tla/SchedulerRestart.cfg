SPECIFICATION FairSpec
CHECK_DEADLOCK FALSE
CONSTANTS
  Names = {"daily"}
  Exprs <- RestartExprs
  Calendar <- MCCalendar
  MaxIter = 2
  MaxInt = 127
  MaxLoops = 2
  MaxTime = 3
  MaxJobs = 1
  MaxLag = 1
PROPERTY RunningHasLoop
