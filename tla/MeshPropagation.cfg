SPECIFICATION FairSpec
CHECK_DEADLOCK FALSE
CONSTANT Calls = {1, 2}
INVARIANT ResultGenuine
PROPERTIES
  CallReturns
  ListenerDrains
