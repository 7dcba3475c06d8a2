SPECIFICATION FairSpec
CONSTANTS
  c1 = c1
  c2 = c2
  c3 = c3
  Clients = {c1, c2, c3}
  Users = {"u"}
  Uid <- PlainUid
  Ests = {1, 2}
  Overrun = 0
  DefaultLimit = 3
  DefaultWindow = 2
  LimitArgs = {}
  WindowArgs = {}
  Second = 1
  MaxTime = 0
  MaxCalls = 3
  MaxAdmin = 0
  MaxFaults = 0
INVARIANTS
  ReservedMatchesOutstanding
  BudgetNeverExceeded
PROPERTIES
  AdmissionFits
  RefusalJustified
  EveryCallReturns
CHECK_DEADLOCK FALSE
