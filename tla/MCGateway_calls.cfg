SPECIFICATION Spec
CONSTANTS
  t1 = t1
  t2 = t2
  t3 = t3
  Threads = {t1, t2, t3}
  Ests = {0, 2}
  Overrun = 1
  Limit = 4
  Answers = {"ok", "malformed", "error"}
  Faulty = {"reserve", "allow", "refund", "charge", "success", "status", "failed", "release"}
  MaxCalls = 3
  MaxFaults = 2
  Threshold = 2
  Recovery = 1
  SlotTtl = 1
INVARIANTS
  TypeOK
  BooksBalance
  NoExtraReservation
  SpendWithinLimit
  ChargedAsBilled
SYMMETRY Alike
