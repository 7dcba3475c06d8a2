SPECIFICATION FairSpec
CONSTANTS
  primary = primary
  backup = backup
  Threads = {t1, t2}
  Order <- PrimaryFirst
  Unreliable = {primary, backup}
  Faulty = {"allow", "success", "failure"}
  MaxFaults = 1
  Threshold = 2
  Recovery = 1
  SlotTtl = 1
  t1 = t1
  t2 = t2
INVARIANTS
  TypeOK
  NoInnocentPassedOver
PROPERTIES
  PrimaryReturns
  NoEndlessRejection
