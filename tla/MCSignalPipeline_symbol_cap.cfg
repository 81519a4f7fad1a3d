SPECIFICATION Spec
CONSTANTS
  w1 = w1
  w2 = w2
  v1 = v1
  id1 = id1
  id2 = id2
  id3 = id3
  none = none
  unknown = unknown
  A = A
  B = B
  Unknown = unknown
  Grain = 3
  One = 3
  NoKey = none
  Callers <- OneWorker
  Keys <- Ids
  Strip <- StripIds
  MaxPass = 3
  Writers = {v1}
  Requests <- SerialRequests
  MaxSends = 2
  MaxOverlapping = 2
  Symbols <- TwoSymbols
  DefaultSymbol = A
  AllowedSymbols = {A, B}
  Limits <- SymbolLimits
  RiskFraction = 40
  ExecutionEnabled = TRUE
  PaperMode = FALSE
  Natives = {TRUE}
  Baseline = 100
  InitialEquity = 100
  ContractValue <- Value
  MarkPrice <- Price
  InitialLeverage = 30
  LiquidationBase = 100
  StopLoss <- Loss
  MaxBills = 1
  BillPage = 2
  Faults = {}
INVARIANTS
  SymbolCapped
