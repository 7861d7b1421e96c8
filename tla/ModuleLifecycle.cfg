SPECIFICATION FairSpec
CHECK_DEADLOCK FALSE
CONSTANTS
  search1 = search1
  search2 = search2
  cron = cron
  Modules <- MCModules
  Names <- MCNames
  NameOf <- MCNameOf
  Direct = {search1}
  StopCalls = {"s1"}
  Runs = {"r1"}
  Nil = Nil
INVARIANTS
  UsedOnlyIfStarted
  StopAllUnloads
PROPERTIES
  StopAllEnds
