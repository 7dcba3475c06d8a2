SPECIFICATION Spec
CONSTANTS
  Tiers <- MCTiers
  Price <- MCPrice
  Threads = {t1, t2}
  CheapestFirst <- LowFirst
  EstInput = 1
  EstOutput = 1
  MaxInput = 1
  MaxOutput = 2
  CallCost = 7
  Limit = 4
  t1 = t1
  t2 = t2
SYMMETRY Alike
INVARIANTS
  TypeOK
  RejectsBelowTheFloor
  DegradesToTheBottom
  OverrunBounded
