SPECIFICATION Spec
CONSTANTS
  th1 = th1
  th2 = th2
  T1 = T1
  T2 = T2
  none = none
  Callers = {th1, th2}
  Trades <- TwoTrades
  Keys <- TwoTradesEvents
  Strip <- StripTwoTrades
  NoKey = none
  Untagged = {T2}
  Unusable <- UnusableExit
  MaxSends = 5
  ReconcileOnBlock = TRUE
  Faults = {"raise", "lost", "error", "forceexit", "crash"}
  MaxPass = 2
SYMMETRY Threads2
CHECK_DEADLOCK FALSE
INVARIANTS
  OneOrderPerEvent
  NoLastingPhantom
  NoStrandedPosition
