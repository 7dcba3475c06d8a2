SPECIFICATION Spec
CONSTANTS
  chat = chat
  lookup = lookup
  again = again
  derive = derive
  t1 = t1
  t2 = t2
  Threads = {t1, t2}
  Vocabulary = {chat, lookup, again, derive}
  Queries <- MCQueries
  HardWords = {derive}
  Threshold <- TwoThirds
  MaxSystem = 1
  MaxUser = 2
  Price <- MCPrice
  MaxCalls = 3
SYMMETRY Alike
INVARIANTS
  TypeOK
  PaidTwiceOnlyAtOnce
  NoRejectedReply
  BilledAsAsked
  SpyCountsCalls
CHECK_DEADLOCK FALSE
