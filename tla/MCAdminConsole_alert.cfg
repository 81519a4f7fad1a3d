SPECIFICATION Spec
CONSTANTS
  t1 = t1
  t2 = t2
  n1 = n1
  n2 = n2
  n3 = n3
  none = none
  NoKey = none
  Callers = {t1, t2}
  Writers = {t1, t2}
  Keys = {n1, n2, n3}
  Strip <- Identity
  MaxPass = 3
  Requests <- HaltRequests
  MaxSends = 2
  MaxClock = 2
  Skew = 0
  SmallTrade = 2
  LargeTrade = 5
  Sizes = {3, 7}
  Crashes = TRUE
INVARIANTS
  HaltsAlerted
