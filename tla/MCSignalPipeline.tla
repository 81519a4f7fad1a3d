-------------------------- MODULE MCSignalPipeline --------------------------
(***************************************************************************)
(* Instances of SignalPipeline for TLC.  A contract is worth 20, the cap   *)
(* on notional is 50 and a signal asks for 40 (40 percent of an equity of  *)
(* 100, the stop a whole entry price away), so that a second order is cut  *)
(* to a capacity of 10, half a contract, which rounding makes a whole one. *)
(* Grain = One = 3: a notional is rounded to threes, and so is a leverage, *)
(* of which 3 are a leverage of 1.                                         *)
(***************************************************************************)
EXTENDS SignalPipeline, TLC

CONSTANTS w1, w2, v1, id1, id2, id3, none, unknown, A, B

OneWorker == {w1}
TwoWorkers == {w1, w2}
Ids == {id1, id2, id3}
StripIds == id1 :> id1 @@ id2 :> id2 @@ id3 :> id3

Signal(id, side, action, symbol, stop, leverage) ==
  [id |-> id, valid |-> TRUE, side |-> side, action |-> action, symbol |-> symbol,
   entry |-> 10, stop |-> stop, leverage |-> leverage, slippage |-> 5]

BuyA   == Signal(id1, "buy", "OPEN", unknown, 0, 3)
BuyB   == Signal(id2, "buy", "OPEN", B, 0, 6)
CloseA == Signal(id3, "sell", "CLOSE", A, 0, 3)
Broken == [Signal(id2, "buy", "OPEN", B, 0, 6) EXCEPT !.valid = FALSE]
NoId   == [Signal(none, "buy", "OPEN", B, 0, 6) EXCEPT !.symbol = A]

ZeroEntry == [Signal(id2, "buy", "OPEN", A, 0, 6) EXCEPT !.entry = 0]

AllRequests == {BuyA, BuyB, CloseA, Broken, ZeroEntry, NoId}
SerialRequests == {BuyA, BuyB, CloseA}

WorkersAlike == Permutations(TwoWorkers)

TwoSymbols == {A, B}
Value == A :> 2 @@ B :> 2
Price == A :> 10 @@ B :> 10

Caps(perSymbol, open) ==
  [maxNotional |-> 50, maxLeverage |-> 9, dailyLoss |-> 2, maxSlippage |-> 15,
   minEquity |-> 10, halted |-> FALSE, minMarginRatio |-> 0, maxUtilization |-> 100,
   minAvailable |-> 0, maxPerSymbol |-> perSymbol, minDistance |-> 0, maxOpen |-> open]
Loss == -2
SmallLoss == -1
PlainLimits == Caps(0, 0)
SymbolLimits == Caps(15, 0)
=============================================================================
