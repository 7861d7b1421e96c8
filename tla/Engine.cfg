SPECIFICATION DrainedSpec
CHECK_DEADLOCK FALSE
CONSTANTS
  Jobs = {j1, j2}
  TaskObj = {t1, t2}
  ResultObj = {r1, r2}
  Workers = {w1, w2}
  Clients = {c1, c2}
  Consumers = {k1, k2}
  Stoppers = {s1, s2}
  QueueSize = 1
  Nil = Nil
  NoJob = NoJob
INVARIANTS
  Ownership
  ShutdownSafe
  Accounted
PROPERTIES
  ImplementsService
  AcceptedIsDelivered
  StopReturns
