SPECIFICATION FairSpec
CONSTANTS
  t1 = t1
  w1 = w1
  t2 = t2
  w2 = w2
  t3 = t3
  w3 = w3
  Threads = {t1, t2, t3}
  Workers = {w1, w2}
  WorkerOf <- Mixed
  Threshold = 2
  Recovery = 2
  Second = 1
  EvalWorks = TRUE
  Health = {TRUE, FALSE}
  Dead = Dead
  MaxDisturbances = 1
  None = None
INVARIANTS
  TypeOK
  LeaseIsLock
  OneLease
PROPERTIES
  KeepsProbing
  Recovers
