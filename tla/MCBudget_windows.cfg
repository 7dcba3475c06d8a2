SPECIFICATION Spec
CONSTANTS
  c1 = c1
  c2 = c2
  Clients = {c1, c2}
  Users = {"u"}
  Uid <- PlainUid
  Ests = {0, 2}
  Overrun = 1
  DefaultLimit = 3
  DefaultWindow = 2
  LimitArgs = {1}
  WindowArgs = {3}
  Second = 2
  MaxTime = 3
  MaxCalls = 2
  MaxAdmin = 1
  MaxFaults = 1
SYMMETRY Alike
INVARIANTS
  TypeOK
  SnapshotFaithful
  NoPhantomReservation
PROPERTIES
  IsLedger
CHECK_DEADLOCK FALSE
