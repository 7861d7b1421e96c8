SPECIFICATION Spec
CHECK_DEADLOCK FALSE
CONSTANTS
  search1 = search1
  search2 = search2
  cron = cron
  Modules <- MCModules
  Names <- MCNames
  NameOf <- MCNameOf
  Direct = {}
  StopCalls = {"s1", "s2"}
  Runs = {}
  Nil = Nil
INVARIANTS
  StopAllStops
