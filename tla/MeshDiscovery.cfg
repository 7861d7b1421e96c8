SPECIFICATION FairSpec
CHECK_DEADLOCK FALSE
CONSTANTS
  Self = self
  Remote = {peer}
  Starts = {s1, s2}
  MaxTime = 5
  None = None
INVARIANTS
  HeardIsListed
  SilentIsEvicted
PROPERTY ShutsDown
