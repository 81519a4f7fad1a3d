--------------------------- MODULE SignalPipeline ---------------------------
(***************************************************************************)
(* POST /signal from the delivery of a request to its audit events:        *)
(* main.process_signal_request_payload, and one of the two paths below     *)
(* run_primary_signal_pipeline.  OKX-native: process_okx_signal_payload,   *)
(* okx_account_sync, okx_execution_service, okx_client, okx_order_service. *)
(* Hummingbot: process_signal_payload, account_sync, execution_service,    *)
(* hbot_client.                                                            *)
(*                                                                         *)
(* The endpoint is a plain def, so FastAPI runs every request on a thread  *)
(* of its own; nothing is locked.  A worker below is such a thread.  Each  *)
(* file access and each call to OKX (or to Hummingbot, which trades there  *)
(* for us) is a step, because another thread, the exchange or a crash may  *)
(* come between any two of them.                                           *)
(*                                                                         *)
(* Composition: SeenFile is the idempotency file (its Callers are the      *)
(* workers), ControlFile the pause switch (its Writers are the threads of  *)
(* /admin/halt, /ui/halt and their resumes), RiskEngine the pure gate.     *)
(***************************************************************************)
EXTENDS RiskEngine, SeenFile, ControlFile, Sequences, Functions

CONSTANTS
  Requests,        \* signals that may be delivered, as records:
                   \*   [id, valid, side, action, symbol, entry, stop, leverage, slippage]
  MaxSends,        \* bound: deliveries of requests
  MaxOverlapping,  \* bound: the same, once two of them have overlapped
  Symbols, DefaultSymbol, AllowedSymbols,
  Limits,          \* resolved.risk_limits
  RiskFraction,    \* proposal_risk_fraction, percent
  ExecutionEnabled, PaperMode,
  Natives,         \* values of use_okx_native that occur
  Baseline,        \* hummingbot: portfolio value a day ago; 0 while unknown
  InitialEquity, ContractValue, MarkPrice, InitialLeverage, LiquidationBase,
  StopLoss,        \* what a triggered stop realises (negative)
  MaxBills,        \* bound: realised results in a day
  BillPage,        \* limit="100" of get_account_bills
  Faults           \* which external failures happen, a subset of FaultKinds

Workers == Callers

FaultKinds == {"raise", "lost", "error", "crash"}

ASSUME PipelineAssumption ==
  /\ IsFiniteSet(Callers)
  /\ Faults \subseteq FaultKinds /\ Natives \subseteq BOOLEAN
  /\ MaxSends \in Nat /\ MaxOverlapping \in Nat /\ MaxBills \in Nat /\ BillPage \in Nat
  /\ \A r \in Requests : r.id \in Keys \cup {NoKey}
  /\ Limits.maxLeverage \in Int /\ Limits.dailyLoss \in Int /\ Limits.minEquity \in Nat
  /\ InitialEquity \in Int /\ Baseline \in Int /\ StopLoss \in Int /\ StopLoss <= 0
  /\ Limits.maxNotional \in Nat /\ Limits.maxPerSymbol \in Int /\ RiskFraction \in Int
  /\ IsFiniteSet(Symbols) /\ DefaultSymbol \in Symbols
  /\ ContractValue \in [Symbols -> Nat \ {0}] /\ MarkPrice \in [Symbols -> Nat \ {0}]

\* What parses is a number, and names a symbol there is, or none.
ASSUME SignalAssumption ==
  \A r \in Requests : r.valid =>
    /\ r.symbol \in Symbols \cup {Unknown}
    /\ r.entry \in Int /\ r.stop \in Int /\ r.leverage \in Int

VARIABLES
  native,   \* resolved.use_okx_native; it does not change
  job,      \* Workers -> the local state of the request being served
  sends,    \* deliveries so far
  pos,      \* exchange: Symbols -> signed number of units (net mode)
  lever,    \* exchange: Symbols -> leverage set for the symbol
  bills,    \* exchange: today's realised results, newest first
  audited,  \* audit log: <<id, execution status>> of signal_processed events
  orders,   \* bookkeeping: Keys -> orders that took effect at the exchange
  began,    \* bookkeeping: Workers -> what already held when it began
  noted     \* bookkeeping: what went by that some properties except (NoNotes)

exchangeVars == <<pos, lever, bills>>
pipelineVars == <<job, sends, pos, lever, bills, audited, orders, began, noted>>
vars == <<native, pipelineVars, seenVars, controlVars>>

NoRequest == [id |-> NoKey]
NoAccount == [equity |-> 0, used |-> 0, available |-> 0, marginRatio |-> Unknown,
              exposure |-> 0, bySymbol |-> Unknown, distance |-> <<>>, pnl |-> 0]
NoProposal == [symbol |-> Unknown]
NoJob == [pc |-> "idle", req |-> NoRequest, acct |-> NoAccount,
          prop |-> NoProposal, size |-> 0, status |-> "none"]
\* halted:   a halt stood (StandingHalt), and nobody has touched the switch since
\* breached: the day's loss had reached the limit, and the answer to the request
\*           for the day's results, if it came, had them
Fresh == [halted |-> FALSE, breached |-> FALSE]

\* overlap: two requests were being served at once
\* loose:   symbols whose last set_leverage got an error response
\* untold:  ids of orders whose request failed before it could tell of them
\* misread: snapshots that took an error response for an account without positions
NoNotes == [overlap |-> FALSE, loose |-> {}, untold |-> {}, misread |-> 0]
Untold(ids) == [noted EXCEPT !.untold = @ \cup ids]

\* Local states in which the order is approved and can still be sent.
Ordering == {"contract", "leverage", "place"}

PipelineInit ==
  /\ SeenInit /\ ControlInit
  /\ native \in Natives
  /\ job = [w \in Workers |-> NoJob]
  /\ sends = 0
  /\ pos = [s \in Symbols |-> 0]
  /\ lever = [s \in Symbols |-> InitialLeverage]
  /\ bills = <<>>
  /\ audited = {}
  /\ orders = [k \in Keys |-> 0]
  /\ began = [w \in Workers |-> Fresh]
  /\ noted = NoNotes

-----------------------------------------------------------------------------
(* The exchange, as the code sees it. *)

Magnitude(n) == Distance(n, 0)
Total(results) == FoldFunction(+, 0, results)

\* What an order counts: contracts, or units of the base asset.
UnitValue(s)  == IF native THEN ContractValue[s] ELSE 1
NotionalOf(s) == Magnitude(pos[s]) * UnitValue(s) * MarkPrice[s]
Exposure == SumFunctionOnSet([s \in Symbols |-> NotionalOf(s)], Symbols)
Equity   == InitialEquity + Total(bills)
Held     == {s \in Symbols : pos[s] # 0}
UsedMargin ==
  SumFunctionOnSet([s \in Symbols |-> (NotionalOf(s) * One) \div lever[s]], Symbols)

\* pnl / equity as a percentage, rounded towards zero: pnl is compared with
\* whole percentages only, so the rounding does not change the comparison.
Percentage(pnl, equity) ==
  IF equity <= 0 THEN 0
  ELSE IF pnl >= 0 THEN (pnl * 100) \div equity
       ELSE -(((-pnl) * 100) \div equity)

\* Today's result: of the equity; or (hummingbot) what has become of the value a
\* day ago, the history's latest value standing in for an equity of zero.
DayPnl(results, equity) ==
  LET reference == IF equity = 0 THEN Equity ELSE equity
  IN  IF native THEN Percentage(Total(results), equity)
      ELSE IF reference <= 0 THEN 0 ELSE Percentage(reference - Baseline, Baseline)

DayBreached == DayPnl(bills, Equity) <= -Limits.dailyLoss

\* A market order: reduce-only orders never go past zero.
Filled(s, side, size, reduceOnly) ==
  LET signed == IF side = "buy" THEN size ELSE -size
      cut    == AtMost(size, Magnitude(pos[s]))
  IN  IF reduceOnly THEN pos[s] + (IF side = "buy" THEN cut ELSE -cut)
                    ELSE pos[s] + signed

\* "reduceOnly" needs a position on the other side.
Reducible(s, side) == IF side = "buy" THEN pos[s] < 0 ELSE pos[s] > 0

-----------------------------------------------------------------------------
(* The handler. *)

At(w, pc) == job[w].pc = pc
Move(w, pc) == job' = [job EXCEPT ![w].pc = pc]

\* Nothing but the handler's local state changes.
LocalOnly ==
  UNCHANGED <<controlVars, seenVars, sends, exchangeVars, audited, orders, began, noted>>

\* The handler returns or raises: its local state goes.
Finish(w) ==
  /\ job' = [job EXCEPT ![w] = NoJob]
  /\ began' = [began EXCEPT ![w] = Fresh]
  /\ EndCheck(w)

\* It raises (HTTP 500) without having done anything else in this step.
Raise(w) ==
  /\ Finish(w)
  /\ UNCHANGED <<controlVars, sends, exchangeVars, audited, orders, noted>>

\* A call to OKX raises: time-out, connection, API exception.
CallRaises(w) == "raise" \in Faults /\ Raise(w)

\* A request that passed verify_signal_auth reaches the idempotency check.
Receive(w, r) ==
  /\ At(w, "idle")
  /\ noted' = [noted EXCEPT !.overlap = @ \/ \E v \in Workers : ~At(v, "idle")]
  /\ sends' = sends + 1
  /\ sends' <= IF noted'.overlap THEN MaxOverlapping ELSE MaxSends
  /\ job' = [job EXCEPT ![w] = [NoJob EXCEPT !.pc = "check", !.req = r]]
  /\ began' = [began EXCEPT ![w] = [halted   |-> StandingHalt,
                                    breached |-> DayBreached /\ Len(bills) <= BillPage]]
  /\ BeginCheck(w, r.id)
  /\ UNCHANGED <<controlVars, exchangeVars, audited, orders>>

\* ensure_signal_not_duplicate, step by step.
CheckDuplicate(w) ==
  /\ At(w, "check")
  /\ ReadSeen(w) \/ AppendSeen(w)
  /\ UNCHANGED <<controlVars, pipelineVars>>

\* "duplicate signal" / "client_signal_id required": ValueError.
RefuseDuplicate(w) ==
  /\ At(w, "check") /\ call[w].pc = "raised"
  /\ Raise(w)

\* float(payload[...]): a payload that does not parse raises, its id burned.
Parse(w) ==
  /\ At(w, "check") /\ call[w].pc = "passed"
  /\ IF job[w].req.valid THEN Move(w, "balance") /\ LocalOnly ELSE Raise(w)

\* sync_okx_account_state: get_account_balance; sync_account_state:
\* get_portfolio_state, whose equity is all the gate gets.  Here and below the
\* code of a response is not looked at: an error is read as a response without
\* rows, here an account that is worth nothing.
SyncBalance(w) ==
  /\ At(w, "balance")
  /\ \/ /\ job' = [job EXCEPT ![w].pc = "positions",
                 ![w].acct.equity = Equity,
                 ![w].acct.used = IF native THEN UsedMargin ELSE Unknown,
                 ![w].acct.available = IF native THEN Equity - UsedMargin ELSE Unknown]
        /\ LocalOnly
     \/ /\ "error" \in Faults
        /\ job' = [job EXCEPT ![w].pc = "positions",
                 ![w].acct.equity = 0,
                 ![w].acct.used = Unknown,
                 ![w].acct.available = Unknown]
        /\ LocalOnly
     \/ CallRaises(w)

\* positions_by_symbol or None: an account with no position has no breakdown.
BySymbol == IF native /\ Held # {} THEN [s \in Held |-> NotionalOf(s)] ELSE Unknown

\* The symbols whose positions the snapshot counts: all, or the configured pair.
Counted == IF native THEN Symbols ELSE {DefaultSymbol}

ExposureReadMut == 0

\* sum(positions_by_symbol.values()); _filter_positions and sum.
ExposureRead == SumFunctionOnSet([s \in Symbols |-> NotionalOf(s)], Counted)

\* get_positions, folded into exposure, breakdown and distance to liquidation
\* (which shrinks as the book grows); hummingbot: into the pair's exposure.  An
\* error is read as an account that holds nothing.
SyncPositions(w) ==
  /\ At(w, "positions")
  /\ \/ /\ job' = [job EXCEPT ![w].pc = "bills",
                 ![w].acct.exposure = ExposureRead,
                 ![w].acct.bySymbol = BySymbol,
                 ![w].acct.distance =
                    IF native THEN [s \in Held |-> LiquidationBase - Exposure] ELSE <<>>]
        /\ LocalOnly
     \/ /\ "error" \in Faults
        /\ job' = [job EXCEPT ![w].pc = "bills",
                 ![w].acct.exposure = 0,
                 ![w].acct.bySymbol = Unknown,
                 ![w].acct.distance = <<>>]
        /\ noted' = [noted EXCEPT !.misread = @ + (IF ExposureRead > 0 THEN 1 ELSE 0)]
        /\ UNCHANGED <<controlVars, seenVars, sends, exchangeVars, audited, orders, began>>
     \/ CallRaises(w)

DailyPnlMut(equity) ==
  Percentage(Total(SubSeq(bills, 1, AtMost(1, Len(bills)))), equity)

\* _extract_daily_pnl_pct_from_bills over one page of bills;
\* _extract_daily_pnl_pct over two days of get_portfolio_history.
DailyPnl(equity) ==
  DayPnl(SubSeq(bills, 1, AtMost(BillPage, Len(bills))), equity)

\* An error, or a history of less than two days, is read as a day without result.
SyncBills(w) ==
  /\ At(w, "bills")
  /\ \/ /\ job' = [job EXCEPT ![w].pc = "risk",
                               ![w].acct.pnl = DailyPnl(job[w].acct.equity)]
        /\ LocalOnly
     \/ /\ "error" \in Faults
        /\ job' = [job EXCEPT ![w].pc = "risk", ![w].acct.pnl = 0]
        /\ began' = [began EXCEPT ![w].breached = FALSE]
        /\ UNCHANGED <<controlVars, seenVars, sends, exchangeVars, audited, orders, noted>>
     \/ CallRaises(w)

EffectiveLimitsMut == Limits

\* _apply_control_state(resolved).
EffectiveLimits == ApplyControlState(Limits, ReadControlState = "halted")

SymbolOf(r) == IF r.symbol = Unknown THEN DefaultSymbol ELSE r.symbol

Proposal(w) ==
  BuildTradeProposal(job[w].req, job[w].acct,
                     IF native THEN "okx_native" ELSE "okx_perpetual",
                     SymbolOf(job[w].req), EffectiveLimits, RiskFraction)

\* The switch is read, then build_trade_proposal and evaluate_trade run on the
\* snapshot; a control file that is not JSON raises.
Decide(w) ==
  /\ At(w, "risk")
  /\ IF ReadControlState = "raises" THEN Raise(w)
     ELSE /\ LET ok == Approved(Proposal(w), job[w].acct, EffectiveLimits, AllowedSymbols)
             IN  job' = [job EXCEPT ![w].prop = Proposal(w),
                                    ![w].pc = IF ok THEN "contract" ELSE "audit",
                                    ![w].status = IF ok THEN "none" ELSE "blocked"]
          /\ LocalOnly

\* Contracts, at least one; or notional / reference_price units.
OrderSize(notional, price, value) ==
  IF native THEN ContractSize(notional, price, value) ELSE RoundHalfEven(notional, price)

\* execute_okx_trade_proposal up to the order: contract value, size, switches;
\* execute_trade_proposal, which asks nobody for the size.
SizeOrder(w) ==
  LET p == job[w].prop
      price == job[w].req.entry
      value == UnitValue(p.symbol)
  IN  /\ At(w, "contract")
      /\ \/ /\ Sizable(price, value)
            /\ job' = [job EXCEPT
                 ![w].size = OrderSize(p.notional, price, value),
                 ![w].status = IF ~ExecutionEnabled THEN "disabled"
                               ELSE IF PaperMode THEN "paper" ELSE "none",
                 ![w].pc = IF ExecutionEnabled /\ ~PaperMode THEN "leverage" ELSE "audit"]
            /\ LocalOnly
         \/ ~Sizable(price, value) /\ Raise(w)
         \/ native /\ CallRaises(w)

SetLeverageMut(w) == At(w, "leverage") /\ Move(w, "place") /\ LocalOnly

\* place_market_order: set_leverage (the client and its leverage cache are made
\* for one request).  An error response is not looked at; the call raises before
\* or after the exchange did it.
SetLeverage(w) ==
  /\ At(w, "leverage")
  /\ \/ /\ lever' = [lever EXCEPT ![job[w].prop.symbol] = job[w].prop.leverage]
        /\ Move(w, "place")
        /\ noted' = [noted EXCEPT !.loose = @ \ {job[w].prop.symbol}]
        /\ UNCHANGED <<controlVars, seenVars, sends, pos, bills, audited, orders, began>>
     \/ /\ "error" \in Faults
        /\ Move(w, "place")
        /\ noted' = [noted EXCEPT !.loose = @ \cup {job[w].prop.symbol}]
        /\ UNCHANGED <<controlVars, seenVars, sends, exchangeVars, audited, orders, began>>
     \/ /\ "lost" \in Faults
        /\ lever' = [lever EXCEPT ![job[w].prop.symbol] = job[w].prop.leverage]
        /\ Finish(w)
        /\ noted' = [noted EXCEPT !.loose = @ \ {job[w].prop.symbol}]
        /\ UNCHANGED <<controlVars, sends, pos, bills, audited, orders>>
     \/ CallRaises(w)

\* The exchange takes the order of w.
ReduceOnly(w) == job[w].prop.action = "CLOSE"
Accepts(w) ==
  /\ job[w].size > 0
  /\ ReduceOnly(w) => Reducible(job[w].prop.symbol, job[w].prop.side)
TakesEffect(w) ==
  /\ Accepts(w)
  /\ pos' = [pos EXCEPT ![job[w].prop.symbol] =
                Filled(job[w].prop.symbol, job[w].prop.side, job[w].size, ReduceOnly(w))]
  /\ orders' = [orders EXCEPT ![job[w].req.id] = @ + 1]

PlaceOrderTwiceMut(w) ==
  /\ At(w, "place") /\ orders[job[w].req.id] < 3
  /\ TakesEffect(w)
  /\ Move(w, "reconcile") \/ Move(w, "place")
  /\ UNCHANGED <<controlVars, seenVars, sends, lever, bills, audited, began, noted>>

\* What the response makes of the order: "submitted", or hummingbot's own word.
SentStatuses == IF native THEN {"submitted"} ELSE {"submitted", "answered"}

\* The answer to place_order arrives; only an order id is asked about.
Answered(w, next) ==
  \E status \in SentStatuses : job' = [job EXCEPT ![w].pc = next, ![w].status = status]

\* place_order.  The response carries an order id, or none; or the call raises,
\* before or after the exchange took the order.
PlaceOrder(w) ==
  /\ At(w, "place")
  /\ \/ /\ TakesEffect(w)
        /\ Answered(w, IF native THEN "reconcile" ELSE "audit")
        /\ UNCHANGED <<controlVars, seenVars, sends, lever, bills, audited, began, noted>>
     \/ /\ "error" \in Faults \/ ~Accepts(w)
        /\ Answered(w, "audit")
        /\ LocalOnly
     \/ /\ "lost" \in Faults
        /\ TakesEffect(w)
        /\ Finish(w)
        /\ noted' = Untold({job[w].req.id})
        /\ UNCHANGED <<controlVars, sends, lever, bills, audited>>
     \/ CallRaises(w)

ReconcileMut(w) == At(w, "reconcile") /\ Raise(w)

\* reconcile_order_status: one get_order (native only).
Reconcile(w) ==
  /\ At(w, "reconcile")
  /\ \/ Move(w, "audit") /\ LocalOnly
     \/ /\ "raise" \in Faults
        /\ Finish(w)
        /\ noted' = Untold({job[w].req.id})
        /\ UNCHANGED <<controlVars, sends, exchangeVars, audited, orders>>

\* emit_signal_audit_events; then the response goes out.
Audit(w) ==
  /\ At(w, "audit")
  /\ audited' = audited \cup {<<job[w].req.id, job[w].status>>}
  /\ Finish(w)
  /\ UNCHANGED <<controlVars, sends, exchangeVars, orders, noted>>

HandlerStep(w) ==
  \/ CheckDuplicate(w) \/ RefuseDuplicate(w) \/ Parse(w)
  \/ SyncBalance(w) \/ SyncPositions(w) \/ SyncBills(w)
  \/ Decide(w)
  \/ SizeOrder(w) \/ SetLeverage(w) \/ PlaceOrder(w) \/ Reconcile(w)
  \/ Audit(w)

-----------------------------------------------------------------------------
(* Around the handlers. *)

\* A thread of /admin/halt, /ui/halt, /admin/resume or /ui/resume.
SwitchBegins(v, t) ==
  /\ OpenForWrite(v, t)
  /\ began' = [w \in Workers |-> [began[w] EXCEPT !.halted = FALSE]]
  /\ UNCHANGED <<seenVars, job, sends, exchangeVars, audited, orders, noted>>

SwitchWrites(v) ==
  /\ CloseWrite(v)
  /\ UNCHANGED <<seenVars, pipelineVars>>

\* The stop attached to the entry (or the holder) closes a position at a loss.
StopTriggers(s) ==
  /\ pos[s] # 0 /\ Len(bills) < MaxBills
  /\ pos' = [pos EXCEPT ![s] = 0]
  /\ bills' = <<StopLoss>> \o bills
  /\ UNCHANGED <<controlVars, seenVars, job, sends, lever, audited, orders, began, noted>>

\* The process dies and is restarted; files and exchange keep their state.
Crash ==
  /\ "crash" \in Faults
  /\ SeenCrash /\ ControlCrash
  /\ job' = [w \in Workers |-> NoJob]
  /\ began' = [w \in Workers |-> Fresh]
  /\ noted' = Untold({job[w].req.id : w \in {v \in Workers : job[v].status \in SentStatuses}})
  /\ UNCHANGED <<sends, exchangeVars, audited, orders>>

Step ==
  \/ \E w \in Workers, r \in Requests : Receive(w, r)
  \/ \E w \in Workers : HandlerStep(w)
  \/ \E v \in Writers, t \in Commands : SwitchBegins(v, t)
  \/ \E v \in Writers : SwitchWrites(v)
  \/ \E s \in Symbols : StopTriggers(s)
  \/ Crash

Next == UNCHANGED native /\ Step

Spec == PipelineInit /\ [][Next]_vars

-----------------------------------------------------------------------------
(* Properties. *)

HandlerStates == {"idle", "check", "balance", "positions", "bills", "risk", "contract",
                  "leverage", "place", "reconcile", "audit"}

Statuses == {"blocked", "disabled", "paper", "submitted", "answered"}

PipelineTypeOK ==
  /\ native \in BOOLEAN
  /\ SeenTypeOK /\ ControlTypeOK
  /\ job = [w \in Workers |-> job[w]]
  /\ \A w \in Workers :
       /\ DOMAIN job[w] = DOMAIN NoJob
       /\ job[w].pc \in HandlerStates
       /\ job[w].req \in Requests \cup {NoRequest}
       /\ job[w].size \in Nat
       /\ job[w].status \in Statuses \cup {"none"}
  /\ sends \in 0..MaxSends
  /\ pos \in [Symbols -> Int] /\ lever \in [Symbols -> Nat]
  /\ audited \subseteq Keys \X Statuses
  /\ orders \in [Keys -> Nat]
  /\ began \in [Workers -> [halted : BOOLEAN, breached : BOOLEAN]]
  /\ noted \in [overlap : BOOLEAN, loose : SUBSET Symbols, untold : SUBSET Keys,
               misread : Nat]

(* A request that arrives while the pause switch stands (the halt has      *)
(* returned, nobody has touched the switch since) never gets to the        *)
(* exchange, whatever the other requests, crashes and failures do.         *)
StandingHaltBars ==
  \A w \in Workers : began[w].halted => job[w].pc \notin Ordering \cup {"reconcile"}

(* Every order at the exchange, and every one that may still be sent, is   *)
(* covered by a passed idempotency check of its own: failed calls, lost    *)
(* answers and restarts never send an order twice for one check.           *)
Committed(k) == {w \in Workers : job[w].req.id = k /\ job[w].pc \in
                   {"balance", "positions", "bills", "risk"} \cup Ordering}
OrdersBacked ==
  \A k \in Keys : orders[k] + Cardinality(Committed(k)) <= grants[k]

(* The same in one line: an id makes at most one order, over all deliveries*)
(* and restarts, unless two deliveries of it were checked at once          *)
(* (.env.example:86: never replayed into two positions).                   *)
OneOrderPerKey == \A k \in Exact \ shared : orders[k] <= 1

\* The largest value of one unit.
OneUnit ==
  CHOOSE n \in {UnitValue(s) * MarkPrice[s] : s \in Symbols} :
    \A s \in Symbols : UnitValue(s) * MarkPrice[s] <= n

ExposureCounted == SumFunctionOnSet([s \in Symbols |-> NotionalOf(s)], Counted)

\* No signal quotes less than the price: orders are sized by the price a signal
\* quotes, the account is judged at the market's, and nothing compares the two.
QuotedAtMarket ==
  \A r \in Requests : r.valid => r.entry <= 0 \/ r.entry >= MarkPrice[SymbolOf(r)]

(* Requests served one after another keep the account-wide cap, up to the  *)
(* rounding of an order, whatever stops, failures and restarts come between*)
(* them: the capacity is computed on a snapshot that is still true when the*)
(* order is placed.  Two things cost the cap once more.  Overlapping       *)
(* requests each take the same snapshot: once for every thread.  An error  *)
(* response to get_positions counts as an empty account: once for every    *)
(* such snapshot.  On the Hummingbot path the snapshot, and so the cap, is *)
(* about one pair only.                                                    *)
ExposureCapped ==
  QuotedAtMarket =>
  ExposureCounted
    <= ((IF noted.overlap THEN Cardinality(Workers) ELSE 1) + noted.misread)
       * (Limits.maxNotional + OneUnit)

(* The account-wide cap as it is documented (README.md:80): new proposals  *)
(* and what is open stay within RISK_MAX_NOTIONAL_USD, up to the rounding  *)
(* of one order, as long as requests come one at a time.                   *)
ExposureWithinCap ==
  QuotedAtMarket /\ ~noted.overlap =>
    ExposureCounted <= Limits.maxNotional + OneUnit

(* No position is ever held at a leverage above RISK_MAX_LEVERAGE, also    *)
(* when two requests set the leverage of one symbol in turns; except that  *)
(* an error response to set_leverage is not looked at.                     *)
LeverageCapped ==
  \A s \in Symbols \ noted.loose : pos[s] # 0 => lever[s] <= Limits.maxLeverage

(* A request that arrives after the day's realised loss has reached the    *)
(* limit never gets to the exchange, as long as the day's results fit one  *)
(* page of bills and the request for them is not answered with an error:   *)
(* that, and a Hummingbot history of less than two days, is read as a day  *)
(* without loss, and such a request is not held back (SyncBills).          *)
DailyLossBars ==
  \A w \in Workers : began[w].breached => job[w].pc \notin Ordering \cup {"reconcile"}

(* An order that took effect is in the audit log as sent, or its      *)
(* request is still on the way there; except that a lost answer, a failed  *)
(* status query and a crash leave an order nobody is told of.              *)
OrdersAccounted ==
  \A k \in Keys : orders[k] > 0 =>
    \/ \E status \in SentStatuses : <<k, status>> \in audited
    \/ k \in noted.untold
    \/ \E w \in Workers : job[w].req.id = k /\ job[w].pc \in {"reconcile", "audit"}

(* RISK_MAX_NOTIONAL_PER_SYMBOL_USD, up to the rounding of one order: the *)
(* concentration cap as it is documented (README.md:79).                   *)
SymbolCapped ==
  Limits.maxPerSymbol > 0 =>
    \A s \in Symbols : NotionalOf(s) <= Limits.maxPerSymbol + OneUnit
=============================================================================
