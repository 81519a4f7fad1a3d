SPECIFICATION Spec
CONSTANTS
  A = A
  B = B
  C = C
  D = D
  c1 = c1
  c2 = c2
  c3 = c3
  k1 = k1
  k2 = k2
  unknown = unknown
  none = none
  Unknown = unknown
  Grain = 3
  One = 3
  CaseSignals <- SignalSet
  Accounts <- AccountSet
  LimitSets <- LimitChoices
  CaseFraction = 20
  Allow = {A, B}
  Prices = {10, 0}
  ContractValues = {2, 4}
  Candles <- CandleSet
  MaxBars = 7
  Configs <- ConfigSet
  HigherTf <- HigherSet
  TickerLists <- TickerSet
  Excluded = {D}
  BaseSymbols <- Base
  TopN = 1
  MinChange = 1
  MinVolume = 2
  Symbols = {A, B}
  BarKinds <- FourBars
  Signals <- SignalsHere
  Limits <- Caps
  InitialEquity = 100
  Fraction = 40
  Fee = 10
  Slip = 10
  MaxTs = 3
  NoKey = none
  Callers = {c1, c2, c3}
  Keys <- TwoKeys
  Strip <- StripExact
  MaxPass = 4
  Targets = {0, 2, 4, 6}
  PageLimit = 2
  MaxPages = 2
  MaxLast = 7
  NoSnapshot = none
  Rates <- ThreeRates
  MaxAbsBps = 5
  Ttl = 2
  MaxNow = 4
INVARIANTS
  BuiltForTheGate
  GuardsSpareCloses
  SizeWithinOneContract
  CrossingsSeenOnce
  WindowForgetsSeed
  BetterIsNotPassedOver
  ExitsInOrder
  CapsHold
  CountsAddUp
  ReportBalances
  OneGrantPerKey
  FetchedIsCurrent
  HistoryKept
  GapsNoted
  VerdictIsRecent
PROPERTIES
  KeepsPromise
