SPECIFICATION GatewaysSpec
CHECK_DEADLOCK FALSE
CONSTANTS
  Limit = 2
  MaxUpdates = 3
  MaxRestarts = 1
INVARIANTS
  HeartbeatEndsWithSession
  DispatchedOnce
  ForgottenWasDispatched
PROPERTIES
  RunReturns
  Reconnects
  EventuallyDispatched
  CancelReturns
