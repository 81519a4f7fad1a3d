------------------------------- MODULE MCParts -------------------------------
(***************************************************************************)
(* Instances for TLC of the parts that share no state with any other: the  *)
(* risk gate (RiskCases), the averages and signals (Indicators), the       *)
(* screener (Screening), the backtest (Backtest), the file of used ids     *)
(* (SeenFile), the cache of historical candles (CandleHistory) and the one *)
(* of funding rates (FundingGuard).  A behaviour is about one of them,     *)
(* chosen at the start; the others keep a first state.                     *)
(***************************************************************************)
EXTENDS RiskCases, Indicators, Screening, Backtest, SeenFile, CandleHistory, FundingGuard, TLC

CONSTANTS A, B, C, D, c1, c2, c3, k1, k2, unknown, none

-----------------------------------------------------------------------------
(* The gate: snapshots below, at and above each threshold, with and without*)
(* the parts that may be unknown; amounts and caps that are whole numbers  *)
(* of the unit of rounding (three) and such that are not.                  *)

SignalSet ==
  [side : {"buy"}, action : {"OPEN", "CLOSE"}, symbol : {A, B}, entry : {10, 0},
   stop : {5, 10}, leverage : {0, 7, 27}, slippage : {5, 20}]
  \cup [side : {"SELL", "hold"}, action : {"open", "close"}, symbol : {A}, entry : {10},
        stop : {5}, leverage : {7}, slippage : {5}]

Snapshot(exposure, bySymbol, distance, available, ratio, used) ==
  [equity |-> 100, pnl |-> -1, exposure |-> exposure, bySymbol |-> bySymbol,
   distance |-> distance, available |-> available, marginRatio |-> ratio, used |-> used]

AccountSet ==
  {Snapshot(0, unknown, <<>>, v, unknown, unknown) : v \in {unknown, 5, 100}}
  \cup {Snapshot(n, A :> n, A :> d, 80, r, 20) :
           n \in {31, 50, 69}, d \in {unknown, 5, 15}, r \in {1, 3}}
  \cup {Snapshot(40, A :> 10 @@ B :> 30, A :> 15 @@ B :> 8, 60, 3, u) : u \in {10, 90}}
  \cup {[Snapshot(10, A :> 10, A :> 15, 60, 3, 5) EXCEPT !.pnl = n] : n \in {-2, 0}}
  \cup {[Snapshot(10, A :> 10, A :> 15, 60, 3, 5) EXCEPT !.equity = n] : n \in {-3, 10}}

Cap(halted, leverage, perSymbol, distance, open, ratio, available, utilization) ==
  [maxNotional |-> 60, maxLeverage |-> leverage, dailyLoss |-> 2, maxSlippage |-> 15,
   minEquity |-> 10, halted |-> halted, minMarginRatio |-> ratio,
   maxUtilization |-> utilization, minAvailable |-> available,
   maxPerSymbol |-> perSymbol, minDistance |-> distance, maxOpen |-> open]

LimitChoices ==
  {Cap(h, 9, 0, 0, 0, 0, 0, 100) : h \in BOOLEAN}
  \cup {Cap(FALSE, v, 36, d, o, 2, 10, 50) : v \in {8, 9}, d \in {0, 10}, o \in {0, 1}}

-----------------------------------------------------------------------------
(* The averages: rising, falling and level closes, with a fast average that*)
(* touches the slow one; a timeframe above that is missing, rises or falls.*)

Candle(low, high) == [high |-> high, low |-> low, close |-> high]
CandleSet == {Candle(20, 20), Candle(21, 22), Candle(25, 26)}

Periods(fast, slow, atr, h) ==
  [fast |-> fast, slow |-> slow, atr |-> atr, stopMult |-> 2, tpMult |-> 3, higher |-> h]
ConfigSet == {Periods(1, 2, 1, 0), Periods(2, 3, 1, 0), Periods(1, 3, 2, 2)}
HigherSet == {<<>>, <<1, 2, 3>>, <<3, 2, 1>>}

-----------------------------------------------------------------------------
(* The screener: values at and around each threshold of category and score.*)

Tickers(id) ==
  [id : {id}, live : {TRUE}, priced : {TRUE}, change : {1, 3, 5, 26}, volume : {2, 4},
   below : {1, 8, 999}, spread : {0, 150}]
Unfit == {[t EXCEPT !.live = FALSE] : t \in Tickers(C)}
         \cup {[t EXCEPT !.priced = FALSE] : t \in Tickers(C)}
         \cup Tickers(D)

TickerSet ==
  {<<t, u>> : t \in Tickers(B), u \in Tickers(C)}
  \cup {<<t, u>> : t \in Tickers(B), u \in Unfit}
  \cup {<<t, u, [u EXCEPT !.id = B, !.change = 5]>> : t \in Tickers(A), u \in Tickers(C)}

Base == <<A>>

-----------------------------------------------------------------------------
(* The backtest: one price level, bars that reach neither exit, the stop,  *)
(* the target, or both; a cap per symbol that rounding goes past.          *)

PriceBar(low, high) == [low |-> low, high |-> high, close |-> 10]
FourBars == {PriceBar(8, 12), PriceBar(4, 12), PriceBar(8, 22), PriceBar(4, 22)}
Buy  == [side |-> "buy", stop |-> 5, target |-> 20, leverage |-> 3]
Sell == [side |-> "SELL", stop |-> 20, target |-> 5, leverage |-> 7]
Bold == [Buy EXCEPT !.leverage = 27]
SignalsHere == {Buy, Sell, Bold}

Caps == [Cap(FALSE, 9, 32, 0, 0, 0, 0, 100) EXCEPT !.maxNotional = 52]

-----------------------------------------------------------------------------
(* The stores. *)

TwoKeys == {k1, k2}
StripExact == k1 :> k1 @@ k2 :> k2
ThreeRates == {-8, 3, 8}

-----------------------------------------------------------------------------
VARIABLE part

partVars == <<part, riskVars, indicatorVars, screeningVars, backtestVars,
              seenVars, historyVars, fundingVars>>

Init ==
  /\ part \in {"gate", "averages", "screener", "backtest", "ids", "candles", "rates"}
  /\ RiskInit /\ ScreeningInit /\ BacktestInit /\ SeenInit
  /\ IndicatorInit /\ (part # "averages" => higher = <<>> /\ config = Periods(1, 2, 1, 0))
  /\ HistoryInit /\ (part # "candles" => last = 1)
  /\ FundingInit /\ (part # "rates" => rate = [t \in 0..MaxNow |-> 3])

OthersStay(name) ==
  /\ part = name /\ part' = name
  /\ name # "gate" => UNCHANGED riskVars
  /\ name # "averages" => UNCHANGED indicatorVars
  /\ name # "screener" => UNCHANGED screeningVars
  /\ name # "backtest" => UNCHANGED backtestVars
  /\ name # "ids" => UNCHANGED seenVars
  /\ name # "candles" => UNCHANGED historyVars
  /\ name # "rates" => UNCHANGED fundingVars

\* The bounded history is full, the report written.
Over == Len(bars) = MaxBars \/ half = "over"

Next ==
  \/ OthersStay("gate")     /\ RiskNext
  \/ OthersStay("averages") /\ AppendBar
  \/ OthersStay("screener") /\ ScreeningNext
  \/ OthersStay("backtest") /\ BacktestNext
  \/ OthersStay("ids")      /\ SeenNext
  \/ OthersStay("candles")  /\ HistoryNext
  \/ OthersStay("rates")    /\ FundingNext
  \/ Over /\ UNCHANGED partVars

Spec == Init /\ [][Next]_partVars
=============================================================================
