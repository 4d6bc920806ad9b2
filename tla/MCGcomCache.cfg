SPECIFICATION Spec
CONSTANTS
  Keys = {k1}
  Callers = {c1, c2}
  TTL = 2
  Timeout = 1
  NoKey = NoKey
  None = None
  MaxTime = 10
CHECK_DEADLOCK FALSE
INVARIANTS TypeOK AgeBounded IdleItemsLeave
PROPERTIES ActiveItemsStay OutagesKeepAnswers
SYMMETRY Symmetry
