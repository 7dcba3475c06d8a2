SPECIFICATION Spec
CONSTANTS
  t1 = t1
  t2 = t2
  Threads = {t1, t2}
  Ests = {1, 2}
  Overrun = 0
  Limit = 4
  Answers = {"ok"}
  Faulty = {"status"}
  MaxCalls = 4
  MaxFaults = 1
  Threshold = 2
  Recovery = 1
  SlotTtl = 1
INVARIANTS
  SpentWithinLimit
