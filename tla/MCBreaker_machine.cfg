SPECIFICATION Spec
CONSTANTS
  t1 = t1
  w1 = w1
  t2 = t2
  w2 = w2
  t3 = t3
  w3 = w3
  Threads = {t1, t2, t3}
  Workers = {w1}
  WorkerOf <- Together
  Threshold = 2
  Recovery = 2
  Second = 1
  EvalWorks = FALSE
  Health = {TRUE, FALSE}
  Dead = Dead
  MaxDisturbances = 0
  None = None
PROPERTIES
  IsFSM
