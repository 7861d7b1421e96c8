SPECIFICATION Spec
CHECK_DEADLOCK FALSE
CONSTANTS
  Jobs = {j1, j2}
  TaskObj = {t1, t2}
  ResultObj = {r1, r2}
  Workers = {w1, w2}
  Clients = {c1}
  Consumers = {k1}
  Stoppers = {s1, s2}
  QueueSize = 1
  Nil = Nil
  NoJob = NoJob
INVARIANT NoPanic
