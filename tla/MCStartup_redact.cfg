SPECIFICATION Spec
CONSTANTS
  a = a
  b = b
  c = c
  x = x
  head = head
  tail = tail
  numeral = numeral
  decimal = decimal
  quoted = quoted
  words = words
  Falsy <- MCFalsy
  AsInt <- MCAsInt
  AsFloat <- MCAsFloat
  AsText <- MCAsText
  Null = Null
  Absent = Absent
  Mark = Mark
  Alphabet <- MCAlphabet
  Texts <- MCTexts
  Patterns <- MCPatterns
  Canonical <- MCCanonical
  Ci <- MCCi
  Example <- MCExample
  Paths <- MCPaths
INVARIANTS
  RedactorTypeOK
  OwnSettingsWin
  RaisesForUnreadableFiles
  NoKeyLeft
  RestUntouched
  LogSafeIfUntouched
  OrderIrrelevant
CHECK_DEADLOCK FALSE
