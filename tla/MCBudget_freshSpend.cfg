SPECIFICATION Spec
CONSTANTS
  c1 = c1
  Clients = {c1}
  Users = {"u"}
  Uid <- PlainUid
  Ests = {2}
  Overrun = 0
  DefaultLimit = 3
  DefaultWindow = 2
  LimitArgs = {}
  WindowArgs = {}
  Second = 1
  MaxTime = 3
  MaxCalls = 3
  MaxAdmin = 0
  MaxFaults = 0
PROPERTIES
  FreshWindowClearsSpend
CHECK_DEADLOCK FALSE
