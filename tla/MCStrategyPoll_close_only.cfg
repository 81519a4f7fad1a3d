SPECIFICATION Spec
CONSTANTS
  p1 = p1
  p2 = p2
  A = A
  B = B
  none = none
  NoKey = none
  Callers = {p1}
  Symbols = {A}
  MaxBar = 2
  Keys <- Ids
  Strip <- Identity
  MaxPass = 3
  SkipSame = TRUE
INVARIANTS
  OneOrderPerDirection
