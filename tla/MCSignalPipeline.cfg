SPECIFICATION Spec
CONSTANTS
  w1 = w1
  w2 = w2
  v1 = v1
  id1 = id1
  id2 = id2
  id3 = id3
  none = none
  unknown = unknown
  A = A
  B = B
  Unknown = unknown
  Grain = 3
  One = 3
  NoKey = none
  Callers <- TwoWorkers
  Keys <- Ids
  Strip <- StripIds
  MaxPass = 3
  Writers = {v1}
  Requests <- AllRequests
  MaxSends = 3
  MaxOverlapping = 2
  Symbols <- TwoSymbols
  DefaultSymbol = A
  AllowedSymbols = {A, B}
  Limits <- PlainLimits
  RiskFraction = 40
  ExecutionEnabled = TRUE
  PaperMode = FALSE
  Natives = {TRUE, FALSE}
  Baseline = 100
  InitialEquity = 100
  ContractValue <- Value
  MarkPrice <- Price
  InitialLeverage = 30
  LiquidationBase = 100
  StopLoss <- SmallLoss
  MaxBills = 2
  BillPage = 2
  Faults = {"raise", "lost", "error", "crash"}
SYMMETRY WorkersAlike
INVARIANTS
  StandingHaltBars
  OrdersBacked
  ExposureCapped
  LeverageCapped
  DailyLossBars
  OrdersAccounted
