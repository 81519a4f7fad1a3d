----------------------------- MODULE RiskEngine -----------------------------
(***************************************************************************)
(* The hard risk gate: proposal_service.build_trade_proposal,              *)
(* risk.evaluate_trade, main._apply_control_state and the sizing step of   *)
(* okx_execution_service.  Pure operators over records, no variables.      *)
(*                                                                         *)
(* Money and leverage are integers, in units finer than the code rounds to:*)
(* Grain of them are the 1e-8 of round(x, 8), One of them a leverage of 1. *)
(* Percentages are integers.  Python's None is Unknown.                    *)
(*   limits   [maxNotional, maxLeverage, dailyLoss, maxSlippage, minEquity,*)
(*             halted, minMarginRatio, maxUtilization (percent),           *)
(*             minAvailable, maxPerSymbol, minDistance, maxOpen]           *)
(*   account  [equity, pnl (percent), exposure, bySymbol, distance,        *)
(*             available, marginRatio, used]: bySymbol maps each symbol    *)
(*             held to its notional, or is Unknown; distance maps the      *)
(*             symbols of positions_detail to a percentage or Unknown      *)
(*   signal   [side, action, symbol, entry, stop, leverage, slippage]      *)
(***************************************************************************)
EXTENDS Integers, FiniteSets

CONSTANTS Unknown, Grain, One

ASSUME GrainAssumption ==
  /\ Grain \in Nat \ {0}
  /\ One \in Nat \ {0} /\ One % Grain = 0

Sides      == {"buy", "sell"}
Actions    == {"OPEN", "CLOSE"}
Connectors == {"okx_perpetual", "okx_native"}

AtLeast(x, y) == IF x >= y THEN x ELSE y     \* Python's max(x, y)
AtMost(x, y)  == IF x <= y THEN x ELSE y     \* Python's min(x, y)
Distance(x, y) == IF x >= y THEN x - y ELSE y - x

\* Python's round() to whole quotients: half goes to the even one.
RoundHalfEven(n, d) ==
  LET q == n \div d
      r == n % d
  IN  IF 2 * r < d \/ (2 * r = d /\ q % 2 = 0) THEN q ELSE q + 1

Rounded(x) == Grain * RoundHalfEven(x, Grain)    \* round(x, 8)

\* str.lower and str.upper, on the spellings that differ by them.
Lower(side) == CASE side = "BUY" -> "buy" [] side = "SELL" -> "sell" [] OTHER -> side
Upper(action) == CASE action = "open" -> "OPEN" [] action = "close" -> "CLOSE" [] OTHER -> action

Existing(a, symbol) ==
  IF symbol \in DOMAIN a.bySymbol THEN a.bySymbol[symbol] ELSE 0

(***************************************************************************)
(* main._apply_control_state: the persisted halt overrides the environment *)
(* one.  The rebuilt limits keep five fields and take the defaults for the *)
(* margin, per-symbol and liquidation guards.                              *)
(***************************************************************************)
ApplyControlState(base, controlHalted) ==
  IF ~controlHalted \/ base.halted
  THEN base
  ELSE [maxNotional |-> base.maxNotional, maxLeverage |-> base.maxLeverage,
        dailyLoss |-> base.dailyLoss, maxSlippage |-> base.maxSlippage,
        minEquity |-> base.minEquity, halted |-> TRUE,
        minMarginRatio |-> 0, maxUtilization |-> 100, minAvailable |-> 0,
        maxPerSymbol |-> 0, minDistance |-> 0, maxOpen |-> 0]

-----------------------------------------------------------------------------
(* build_trade_proposal.                                                   *)

\* Risk budget, scaled up by entry / stop distance when both are positive.
DesiredNotional(sig, a, fraction) ==
  LET budget == AtLeast(a.equity * AtLeast(fraction, 0), 0)
      entry  == AtLeast(sig.entry, 0)
      stop   == Distance(sig.entry, sig.stop)
  IN  IF entry > 0 /\ stop > 0 THEN (budget * entry) \div (100 * stop)
                               ELSE budget \div 100

\* What the account-wide and the per-symbol cap leave free.
RemainingCapacityMut(a, l, symbol) == AtLeast(l.maxNotional, 0)

RemainingCapacity(a, l, symbol) ==
  LET whole == AtLeast(l.maxNotional - a.exposure, 0)
  IN  IF l.maxPerSymbol > 0 /\ a.bySymbol # Unknown
      THEN AtMost(whole, AtLeast(l.maxPerSymbol - Existing(a, symbol), 0))
      ELSE whole

BuildTradeProposal(sig, a, connector, symbol, l, fraction) ==
  [connector |-> connector,
   symbol    |-> symbol,
   side      |-> Lower(sig.side),
   action    |-> Upper(sig.action),
   notional  |-> Rounded(AtMost(DesiredNotional(sig, a, fraction),
                                RemainingCapacity(a, l, symbol))),
   leverage  |-> Rounded(AtMost(AtLeast(sig.leverage, One), l.maxLeverage)),
   slippage  |-> sig.slippage]

-----------------------------------------------------------------------------
(* evaluate_trade, one operator per family of reasons.  allow is the set   *)
(* of allowed symbols; the empty set allows any.                           *)

Malformed(p, allow) ==
  \/ p.connector \notin Connectors
  \/ p.side \notin Sides
  \/ p.action \notin Actions
  \/ p.symbol = Unknown
  \/ allow # {} /\ p.symbol \notin allow

OutOfRangeMut(p, l) ==
  \/ p.notional < 0
  \/ p.leverage < One \/ p.leverage > l.maxLeverage
  \/ p.slippage <= 0 \/ p.slippage > l.maxSlippage

OutOfRange(p, l) ==
  \/ p.notional <= 0
  \/ p.leverage < One \/ p.leverage > l.maxLeverage
  \/ p.slippage <= 0 \/ p.slippage > l.maxSlippage

AccountUnfit(a, l) ==
  \/ a.equity <= l.minEquity
  \/ a.pnl <= -l.dailyLoss
  \/ l.minAvailable > 0 /\ a.available # Unknown /\ a.available < l.minAvailable
  \/ l.minMarginRatio > 0 /\ a.marginRatio # Unknown /\ a.marginRatio < l.minMarginRatio

NotionalExceeded(p, a, l) == a.exposure + p.notional > l.maxNotional

SymbolCapExceeded(p, a, l) ==
  /\ l.maxPerSymbol > 0
  /\ p.notional > 0
  /\ a.bySymbol # Unknown
  /\ Existing(a, p.symbol) + p.notional > l.maxPerSymbol

\* "Max concurrent open positions": only an OPEN on a symbol not yet held.
TooManyPositionsMut(p, a, l) ==
  /\ l.maxOpen > 0
  /\ a.bySymbol # Unknown
  /\ Cardinality(DOMAIN a.bySymbol) >= l.maxOpen

TooManyPositions(p, a, l) ==
  /\ l.maxOpen > 0
  /\ p.action = "OPEN"
  /\ a.bySymbol # Unknown
  /\ Cardinality(DOMAIN a.bySymbol) >= l.maxOpen
  /\ p.symbol \notin DOMAIN a.bySymbol

\* "Liquidation-distance guard": any held position too close blocks an OPEN.
NearLiquidation(p, a, l) ==
  /\ l.minDistance > 0
  /\ p.action = "OPEN"
  /\ \E s \in DOMAIN a.distance :
        a.distance[s] # Unknown /\ a.distance[s] < l.minDistance

\* notional / leverage, One of it being 1, against total equity and against available equity.
MarginExceeded(p, a, l) ==
  /\ p.notional > 0 /\ p.leverage >= One /\ a.equity > 0
  /\ LET used == IF a.used = Unknown THEN 0 ELSE a.used
     IN  \/ 100 * (used * p.leverage + p.notional * One)
               > l.maxUtilization * a.equity * p.leverage
         \/ a.available # Unknown /\ p.notional * One > a.available * p.leverage

Approved(p, a, l, allow) ==
  /\ ~ l.halted
  /\ ~ Malformed(p, allow)
  /\ ~ OutOfRange(p, l)
  /\ ~ AccountUnfit(a, l)
  /\ ~ NotionalExceeded(p, a, l)
  /\ ~ SymbolCapExceeded(p, a, l)
  /\ ~ TooManyPositions(p, a, l)
  /\ ~ NearLiquidation(p, a, l)
  /\ ~ MarginExceeded(p, a, l)

-----------------------------------------------------------------------------
(* okx_execution_service._contract_size_from_notional: the number of       *)
(* contracts, rounded, and never less than one.                            *)

ContractSizeMut(notional, price, contractValue) ==
  AtLeast((notional \div (price * contractValue)) + 2, 1)

ContractSize(notional, price, contractValue) ==
  AtLeast(RoundHalfEven(notional, price * contractValue), 1)

\* reference_price <= 0 or contract_value <= 0 raises ValueError.
Sizable(price, contractValue) == price > 0 /\ contractValue > 0
=============================================================================
