------------------------------ MODULE Backtest ------------------------------
(***************************************************************************)
(* backtest.run_backtest: bars go by, positions are closed by their stops   *)
(* and targets, signals pass through the production gate (RiskEngine) on a *)
(* simulated account, what is left is closed at the last bar.              *)
(*                                                                         *)
(* One step per symbol and half of a bar, so that what an earlier symbol   *)
(* of the bar did is what a later one is judged on.                        *)
(***************************************************************************)
EXTENDS RiskEngine, Sequences, SequencesExt, Functions

CONSTANTS
  Symbols, BarKinds, \* a bar is a record [low, high, close]
  Signals,           \* [side, stop, target, leverage]
  Limits,            \* risk_limits
  InitialEquity, Fraction, Fee, Slip,   \* the last three in percent
  MaxTs              \* bound: timestamps

NoBar == [close |-> 0]
NoPosition == [notional |-> 0]

ASSUME BacktestAssumption ==
  /\ IsFiniteSet(Symbols) /\ MaxTs \in Nat /\ InitialEquity \in Nat \ {0}
  /\ {Fraction, Fee, Slip} \subseteq Int
  /\ Limits.maxNotional \in Nat /\ Limits.maxPerSymbol \in Int
  /\ \A b \in BarKinds : b.close \in Int
  /\ \A sig \in Signals : sig.stop \in Int /\ sig.target \in Int

VARIABLES
  ts, half,     \* the timestamp, and "exits", "entries", "finish" or "over"
  todo,         \* symbols left in this half
  barAt,        \* Symbols -> the bar at ts, if the symbol has one
  lastBar,      \* Symbols -> timestamp and close of its last bar so far
  equity,
  position,     \* Symbols -> the open position
  trades,       \* closed_trades
  counts,       \* [total, approved, blocked] signals
  entryFees     \* bookkeeping: fees taken from the equity at entries

marketVars == <<ts, barAt, lastBar>>
backtestVars == <<marketVars, half, todo, equity, position, trades, counts, entryFees>>

Held == {s \in Symbols : position[s] # NoPosition}

\* total_pnl_usd
TotalPnl(closed) == FoldSeq(LAMBDA t, sum : t.pnl + sum, 0, closed)
Pnl == TotalPnl(trades)

BacktestInit ==
  /\ ts = 0 /\ half = "entries" /\ todo = <<>>
  /\ barAt = [s \in Symbols |-> NoBar]
  /\ lastBar = [s \in Symbols |-> [ts |-> 0, close |-> 0]]
  /\ equity = InitialEquity
  /\ position = [s \in Symbols |-> NoPosition]
  /\ trades = <<>>
  /\ counts = [total |-> 0, approved |-> 0, blocked |-> 0]
  /\ entryFees = 0

-----------------------------------------------------------------------------
(* Pricing. *)

StopHit(p, b)   == IF p.side = "buy" THEN b.low <= p.stop ELSE b.high >= p.stop
TargetHit(p, b) == IF p.side = "buy" THEN b.high >= p.target ELSE b.low <= p.target
Exits(p, b) == StopHit(p, b) \/ TargetHit(p, b)

ExitPriceMut(p, b) == IF TargetHit(p, b) THEN p.target ELSE p.stop

\* _check_exit: when both could have triggered, the stop did.
ExitPrice(p, b) == IF StopHit(p, b) THEN p.stop ELSE p.target

FeeOf(n) == (n * Fee) \div 100

\* _compute_pnl: gross result less the exit fee.
PnlOf(p, price) ==
  LET move == IF p.side = "buy" THEN price - p.entry ELSE p.entry - price
  IN  IF p.entry <= 0 THEN 0
      ELSE (move * p.notional) \div p.entry - FeeOf(p.notional)

Filled(side, close) ==
  (close * (IF side = "buy" THEN 100 + Slip ELSE 100 - Slip)) \div 100

\* A ClosedTrade: by its bar b when a stop or target triggered, else at the end.
Trade(s, price, at, reason, b) ==
  [side |-> position[s].side, stop |-> position[s].stop,
   entered |-> position[s].entered, exited |-> at, price |-> price,
   pnl |-> PnlOf(position[s], price), reason |-> reason, bar |-> b]

-----------------------------------------------------------------------------
(* The simulated account and the sizing. *)

ExposureMut == 0

\* current_total of _sizing and of _simulate_account.
Exposure == SumFunctionOnSet([s \in Symbols |-> position[s].notional], Symbols)

\* _simulate_account: today's result is always zero, margins are unknown.
SimulatedAccount ==
  [equity |-> AtLeast(equity, 0), pnl |-> 0, exposure |-> Exposure,
   bySymbol |-> IF Held = {} THEN Unknown ELSE [s \in Held |-> position[s].notional],
   distance |-> <<>>, available |-> Unknown, marginRatio |-> Unknown, used |-> Unknown]

\* _sizing: equity times fraction, capped by what the limits leave free.
Candidate(s) ==
  LET budget == (equity * AtLeast(Fraction, 0)) \div 100
      whole  == AtMost(budget, AtLeast(Limits.maxNotional - Exposure, 0))
  IN  IF Limits.maxPerSymbol > 0
      THEN AtMost(whole, AtLeast(Limits.maxPerSymbol - position[s].notional, 0))
      ELSE whole

Sizing(s) == Rounded(Candidate(s))

\* _proposal_from_signal: the leverage asked for, at least one.
ProposalFor(s, sig) ==
  [connector |-> "okx_native", symbol |-> s, side |-> Lower(sig.side), action |-> "OPEN",
   notional |-> Sizing(s), leverage |-> AtLeast(sig.leverage, One), slippage |-> 5]

-----------------------------------------------------------------------------
(* The walk. *)

\* The next timestamp: every symbol has a bar at it or has none.
NextTs ==
  /\ half = "entries" /\ todo = <<>> /\ ts < MaxTs
  /\ ts' = ts + 1
  /\ barAt' \in [Symbols -> BarKinds \cup {NoBar}]
  /\ \E s \in Symbols : barAt'[s] # NoBar
  /\ lastBar' = [s \in Symbols |-> IF barAt'[s] = NoBar THEN lastBar[s]
                                   ELSE [ts |-> ts + 1, close |-> barAt'[s].close]]
  /\ half' = "exits" /\ todo' = SetToSeq(Held)
  /\ UNCHANGED <<equity, position, trades, counts, entryFees>>

\* All open positions have been looked at.
ExitsDone ==
  /\ half = "exits" /\ todo = <<>>
  /\ half' = "entries" /\ todo' = SetToSeq(Symbols)
  /\ UNCHANGED <<marketVars, equity, position, trades, counts, entryFees>>

CheckExitMut ==
  /\ half = "exits" /\ todo # <<>>
  /\ todo' = Tail(todo)
  /\ LET s == Head(todo)
         b == barAt[s]
     IN  IF b # NoBar /\ Exits(position[s], b)
         THEN /\ equity' = equity + PnlOf(position[s], ExitPrice(position[s], b))
              /\ trades' = Append(trades,
                            Trade(s, ExitPrice(position[s], b), ts, "triggered", b))
         ELSE UNCHANGED <<equity, trades>>
  /\ UNCHANGED <<marketVars, half, position, counts, entryFees>>

\* Close what stop or target triggered on this bar.
CheckExit ==
  /\ half = "exits" /\ todo # <<>>
  /\ todo' = Tail(todo)
  /\ LET s == Head(todo)
         b == barAt[s]
     IN  IF b # NoBar /\ Exits(position[s], b)
         THEN /\ equity' = equity + PnlOf(position[s], ExitPrice(position[s], b))
              /\ trades' = Append(trades,
                            Trade(s, ExitPrice(position[s], b), ts, "triggered", b))
              /\ position' = [position EXCEPT ![s] = NoPosition]
         ELSE UNCHANGED <<equity, trades, position>>
  /\ UNCHANGED <<marketVars, half, counts, entryFees>>

\* No bar, a position already, too few bars, or no signal.
NoEntry ==
  /\ half = "entries" /\ todo # <<>>
  /\ todo' = Tail(todo)
  /\ UNCHANGED <<marketVars, half, equity, position, trades, counts, entryFees>>

\* The position an approved proposal opens.  It keeps the signal's own
\* spelling of the side, and whatever is not "buy" is priced as a sell.
Opened(s, sig, p) ==
  [notional |-> p.notional, side |-> sig.side, stop |-> sig.stop, target |-> sig.target,
   entry |-> Filled(sig.side, barAt[s].close), entered |-> ts]

\* A signal on a symbol without a position: gate, then entry and entry fee.
Enter(sig) ==
  LET s  == Head(todo)
      p  == ProposalFor(s, sig)
      ok == Approved(p, SimulatedAccount, Limits, {})
  IN  /\ half = "entries" /\ todo # <<>>
      /\ barAt[s] # NoBar /\ s \notin Held
      /\ todo' = Tail(todo)
      /\ counts' = [counts EXCEPT !.total = @ + 1, !.blocked = @ + IF ok THEN 0 ELSE 1,
                                  !.approved = @ + IF ok /\ p.notional > 0 THEN 1 ELSE 0]
      /\ IF ok /\ p.notional > 0
         THEN /\ position' = [position EXCEPT ![s] = Opened(s, sig, p)]
              /\ equity' = equity - FeeOf(p.notional)
              /\ entryFees' = entryFees + FeeOf(p.notional)
         ELSE UNCHANGED <<position, equity, entryFees>>
      /\ UNCHANGED <<marketVars, half, trades>>

\* No timestamp is left.
Finish ==
  /\ half = "entries" /\ todo = <<>>
  /\ half' = "finish" /\ todo' = SetToSeq(Held)
  /\ UNCHANGED <<marketVars, equity, position, trades, counts, entryFees>>

CloseRemainingMut ==
  /\ half = "finish" /\ todo # <<>>
  /\ todo' = Tail(todo)
  /\ LET s == Head(todo)
     IN  trades' = Append(trades, Trade(s, lastBar[s].close, lastBar[s].ts, "end_of_data", NoBar))
  /\ UNCHANGED <<marketVars, half, equity, position, counts, entryFees>>

\* "end_of_data": what is open is closed at the symbol's last close.  (The
\* table of positions is not emptied: the report does not show it.)
CloseRemaining ==
  /\ half = "finish" /\ todo # <<>>
  /\ todo' = Tail(todo)
  /\ LET s == Head(todo)
     IN  /\ equity' = equity + PnlOf(position[s], lastBar[s].close)
         /\ trades' = Append(trades,
                       Trade(s, lastBar[s].close, lastBar[s].ts, "end_of_data", NoBar))
  /\ UNCHANGED <<marketVars, half, position, counts, entryFees>>

Report ==
  /\ half = "finish" /\ todo = <<>>
  /\ half' = "over"
  /\ UNCHANGED <<marketVars, todo, equity, position, trades, counts, entryFees>>

BacktestNext ==
  \/ NextTs \/ CheckExit \/ ExitsDone
  \/ NoEntry \/ (\E sig \in Signals : Enter(sig))
  \/ Finish \/ CloseRemaining \/ Report

BacktestSpec == BacktestInit /\ [][BacktestNext]_backtestVars

-----------------------------------------------------------------------------
(* Properties. *)

(* A trade that its stop or target closed was open before that bar (it is  *)
(* never stopped on the bar it began on, backtest.py:12-13), and a bar that*)
(* reached the stop is booked at the stop, whatever else it reached.       *)
ExitsInOrder ==
  \A i \in DOMAIN trades :
    LET t == trades[i]
    IN  t.reason = "triggered" =>
          t.entered < t.exited /\ (StopHit(t, t.bar) => t.price = t.stop)

(* The caps hold at every moment of the walk, over all symbols and for each*)
(* of them: a symbol judged later in a bar sees what an earlier one opened.*)
(* (Of one symbol to half a unit: without any position there is no         *)
(* breakdown, the gate skips the symbol's cap, and the size was rounded.)  *)
CapsHold ==
  /\ SumFunctionOnSet([s \in Symbols |-> position[s].notional], Symbols) <= Limits.maxNotional
  /\ Limits.maxPerSymbol > 0 =>
       \A s \in Symbols : 2 * (position[s].notional - Limits.maxPerSymbol) <= Grain

(* Every signal counted is approved or blocked, and every approved one is  *)
(* one open position or one trade of the report: the branch that drops an  *)
(* approved proposal without notional is dead.                             *)
CountsAddUp ==
  /\ counts.total = counts.approved + counts.blocked
  /\ counts.approved = Len(trades) + IF half \in {"finish", "over"} THEN Len(todo)
                                                                   ELSE Cardinality(Held)

(* The report adds up: the final equity is the initial one, the results of *)
(* the trades, and the entry fees, which are in no trade's result.         *)
ReportBalances == half = "over" => equity = InitialEquity + Pnl - entryFees
=============================================================================
