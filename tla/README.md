# make-money: specifications, model checking and proofs

TLA+ modules for the trading agent in this repository (`src/src/agent_trader`),
the TLC instances that check them, and TLAPS proofs of the properties that do
not depend on the size of an instance. Paths below are relative to the
repository; a bare file name is in `src/agent_trader/`.

Contents: [the system](#the-system), [modules](#modules-and-the-code-they-model),
[runs](#runs), [fairness](#fairness), [proofs](#proofs),
[disagreements](#where-the-code-and-its-documents-disagree),
[known limits](#known-limits-of-the-code-that-the-properties-except),
[what is not modelled](#what-is-not-modelled), [what could follow](#what-could-follow).

## The system

A service receives trading signals over HTTP, sizes them, passes them through a
hard risk gate, and places market orders at OKX. Around that path: a persisted
pause switch, signed management endpoints, an inline strategy polled by a
scheduler, a private websocket runtime, a candle stream, a bridge to freqtrade, a
backtester that reuses the gate, a cache of historical candles, a screener that
picks the symbols to poll, and a funding guard. Orders go to OKX directly or, on
the older path, through a Hummingbot instance.

| component | files | state it keeps | operations | hard behaviour | correct when |
|---|---|---|---|---|---|
| risk gate and sizing | `risk.py`, `proposal_service.py`, `models.py`, part of `okx_execution_service.py` | none | `build_trade_proposal`, `evaluate_trade`, `_contract_size_from_notional`, `_apply_control_state` | two implementations of the same caps, optional guards, values that may be unknown, rounding | both switches refuse everything; what was sized fits the caps but for its rounding; the guards on new positions spare closing orders |
| pause switch | `control_state.py` | one JSON file | halt, resume, read | rewritten in place by threads, read by others, crash in the middle | once halts have finished, the switch never reads "not halted" |
| idempotency and nonce files | `signal_security.py`, `_consume_nonce` in `admin_api.py` | two append-only files | check and append | check-then-append without a lock, restarts | a key is granted at most once, except to calls that overlap |
| signal pipeline | `main.py`, `okx_account_sync.py`, `okx_execution_service.py`, `okx_order_service.py`, `okx_client.py` | local state of each request; the positions, leverages and bills at OKX | `/signal`: check, sync, decide, size, leverage, order, status, audit | requests on threads share files and account; every call may raise, return an error, or lose its answer; crashes | an order needs a passed check and an open switch; caps hold; every order is audited |
| management | `admin_api.py`, `main.py` | nonce file, audit log | status, halt, resume, manual trade, strategy poll, `/ui/halt`, `/ui/resume` | replay inside and outside the time window, over restarts; overlapping commands | one effect per signed request; the audit log tells the state of the switch |
| inline strategy | `strategy_runner.py`, `strategy_scheduler.py` | none of its own (ids in the idempotency file) | poll: positions map, candles, signal, dispatch | the map is stale when used; the scheduler and `/admin/strategy/poll` overlap; polls repeat within a bar | one order per bar and side, no repeated adding |
| websocket runtime | `okx_ws*.py`, `runtime_*.py`, `reconcile_*.py` | connection, `connected`, open orders | iterate: connect, login, subscribe, receive, poll orders | connections fail anywhere; one transport object is reused | one login and subscription per connection; start-up succeeds in the end; open orders are polled |
| candle stream | `candle_stream.py`, `okx_ws_candles.py` | connection, subscription flag, last bar per symbol | connect, subscribe, receive, back off | repeated, forming, malformed rows; bars closing while down | every closed bar once, in order |
| freqtrade bridge | `freqtrade_adapter.py`, `freqtrade_reconciler.py`, `main.py` | ids; freqtrade's own book of trades | translate, pipeline, forceexit | webhooks are sent again; the two books differ after a block | one order per event; no trade stays open in freqtrade that was refused here |
| backtester | `backtest.py` | positions, equity, trades of a walk | exits, entries, close at the end | order within a bar, several symbols, missing bars | exits before entries, stop before target, report adds up, same gate as production |
| historical candles | `market_data.py` | one cache file | page back, merge, save, return | bars close between two pages, short pages, error responses, crash while saving | a fetch that was not cut short returns the newest bars; nothing saved is lost but by a crash |
| Hummingbot path | `account_sync.py`, `execution_service.py`, `hbot_client.py` | as the signal pipeline | the pipeline's other execution path, behind the same check, switch and gate | as the signal pipeline, with fewer facts about the account | as the signal pipeline |
| strategy indicators | `strategy.py` | none | EMA, ATR, crossing, stop and target | averages that touch, windows of different length | each crossing is signalled once |
| funding guard | `funding.py` | rate per symbol, in memory | check | the rate changes while cached, fetches fail | a verdict is about a recent rate |
| alt screener | `alt_screener.py` | none | filter, score, sort, cut | caps and bonuses at thresholds | a better symbol is not passed over |
| the rest | `alerting.py`, `audit_log.py`, `grid_search.py`, `config.py`, `web_ui.py`, `healthcheck.py`, `cli.py`, `demo_smoke.py` | see `PROJECT.json` | | | [not modelled](#what-is-not-modelled) |

**How they interact.** FastAPI runs the endpoints, which are plain `def`s, on
threads of one process. They share three things: the files (ids, nonces, pause
switch, audit log), the exchange account, and nothing in memory that the order
path relies on; there is no lock. `/signal`, `/signal/freqtrade`,
`/admin/manual_trade` and the strategy poll all enter the same pipeline. The
scheduler and the websocket runtime are asyncio tasks of another process
(`cli.py`, `runtime_entry.py`), which reaches the same files and account.

What is hard to test in this code is listed line by line in `PROJECT.json`
under `hazards`, each with the properties that would catch it going wrong.

## Modules and the code they model

Each definition's source lines are in `PROJECT.json` under `map`. A composed
module EXTENDS the modules of its parts, so a thread of `SignalPipeline` *is* a
caller of `SeenFile`, and the pause switch it reads *is* the one of
`ControlFile`.

```
RiskEngine ──┬─ RiskCases ─────── MCParts
             ├─ Backtest ──────── MCParts
             │   └─ RiskGate_proofs        (both of them)
             └─ SignalPipeline ── SignalPipeline_proofs
Indicators, Screening ─────────── MCParts
SeenFile ────┬─ SignalPipeline    (implements AtMostOnce)
             ├─ AdminConsole ──── AdminConsole_proofs
             ├─ StrategyPoll ──── StrategyPoll_proofs  (Indicators and Screening, too)
             ├─ FreqtradeBridge ─ FreqtradeBridge_proofs
             └─ MCParts
ControlFile ─┬─ SignalPipeline
             └─ AdminConsole
SeenFile, ControlFile ─────────── Files_proofs   (used by the four above)
CandleHistory, FundingGuard ───── MCParts
WsRuntime, CandleStream ───────── MCFeeds
CandleHistory, FundingGuard, WsRuntime, CandleStream ── Feeds_proofs
DataLemmas                        (sums, ranks, averages; used by the proofs)
```

The `MC` modules hold the instances. Two of them put parts next to each other
that do not touch: a behaviour of `MCParts` is about the gate, the averages, the
screener, the backtest, the ids, the candles or the rates, one of `MCFeeds` about
the private or the public websocket, chosen in its first state; the others keep a
state of their own and take no step. Nothing is composed by that; it is one run
instead of several.

* **RiskEngine**: pure operators. Money and leverage are integers in a unit finer
  than the code rounds to: `Grain` of them are the 1e-8 of `round(x, 8)`
  (`Rounded`, half to even), `One` of them a leverage of 1. Percentages are
  integers, `None` is the constant `Unknown`. One operator per family of refusals of `evaluate_trade`
  (`Malformed`, `OutOfRange`, `AccountUnfit`, ...), so that `Approved` reads as
  the list of reasons. Comparisons of quotients are cross-multiplied;
  `RoundHalfEven` is Python's `round`.
* **RiskCases**: a step draws a signal, an account, limits and a switch, and
  runs sizing, gate and contract size on them, as one call of
  `process_okx_signal_payload` does.
* **ControlFile**: `open(path, "w")` (the file is empty now) and the closing of
  the handle (the text is there) are two steps; `Overwritten` says what is left
  when texts of different lengths are written over each other. `round` is
  bookkeeping: the kinds of writes begun since the file was last at rest.
* **SeenFile**: `BeginCheck`, `ReadSeen`, `AppendSeen`, `EndCheck`, one per
  moment another thread may come in. `Strip` is what `line.strip()` makes of a
  key on the way back. `grants` and `shared` are bookkeeping: how often a key
  passed, and the keys two calls were asking about at once. **AtMostOnce** is the
  promise, an abstract machine that grants a key in one step; `KeepsPromise` is
  the refinement.
* **Indicators**: a history grows bar by bar, as a backtest and the polls see it.
  `Ema` and `Atr` are `Smoothed`, one running average on exact fractions: a mean as
  the seed, then a `Blend` of the last average and the next value. `EmaAtrSignal`
  is `generate_ema_atr_signal` on a history.
* **Screening**: one round of `resolve_strategy_symbols` on an answer of OKX's
  tickers: filter, score (in twentieths of a point), stable sort (`Rank` counts,
  for each place of the answer, those that are sorted before it), cut-off, and the
  loop that adds what is new to the configured symbols.
* **SignalPipeline**: a worker's `pc` goes through
  `check → balance → positions → bills → risk → contract → leverage → place →
  reconcile → audit`, one step per file access and per call to OKX. The exchange
  is `pos`, `lever` and `bills`, with reduce-only orders, an error response, a
  raised call and a lost answer as alternatives of the calls (`Faults`). An error
  response to a read is what the code makes of `data: []`: an equity of 0, margins
  that are unknown, no positions and no breakdown, a day without losses. Stops
  may trigger and halts may come at any time, the process may die between any
  two steps. `orders`, `began` and `noted` are bookkeeping: what the exchange
  executed for an id, what stood when a request began, and whether requests
  overlapped (`overlap`), which symbols have a leverage whose setting failed
  with an error response (`loose`), which orders nobody was told of (`untold`),
  and how often an error response hid the positions there were (`misread`). The variable `native` is `use_okx_native`, fixed at the start: when
  it is FALSE the same handler is the Hummingbot path, which syncs the equity, the
  exposure of the configured pair and the day's result from the portfolio history,
  knows no margin and no liquidation price, orders units of the base asset and
  takes the status from the answer.
* **AdminConsole**: time window, nonce (SeenFile), handler, audit event, alert;
  threads are writers of the switch (ControlFile). The order inside a handler is
  the code's: the nonce is used up before the tier is looked at, the switch is
  set before the event is logged. `overlap` and `cut` remember that requests
  overlapped and which ones a crash cut off.
* **StrategyPoll**: a poller reads the map of directions once, then walks its
  symbols. The generator's verdict on a bar is an arbitrary value per bar; ids
  are the records their text is made of, the action included. `closeOnly` is the
  reverse mode, chosen once; `blind` remembers that a poll had to do without a
  map (the account sync failed), `overlap` that two polls ran at once.
* **WsRuntime**: `run_iteration` as `runtime_entry` wires it: one transport,
  handed out by the factory again and again. A step ends where an `await` may
  suspend or fail. `session` is what the exchange received on a connection.
  `Failing` are the orders whose query may raise, now or for ever; the list of
  open orders comes in any order (`cli.py:32` supplies an empty one, so what
  it would be is up to the caller of `build_runtime_daemon`).
* **CandleStream**: `run_forever` and the listener; `wire` is what the exchange
  has pushed and the client has not received; bars close whether or not anyone
  is connected.
* **FreqtradeBridge**: freqtrade's book and its retries are external; the
  endpoint is idempotency check, outcome of the pipeline, forceexit on a block.
  `failed` has the events whose forceexit failed or was cut off by a crash or by
  an audit append that raised, `refused` those whose order OKX refused (reported
  as submitted), `reduced` the exits whose order left part of the position, `holds`
  the trades that have a position.
* **CandleHistory**: one call of `load_or_fetch_candles` step by step, with the
  exchange closing bars in between. A candle is the number of its bar, the file a
  set of bars, a file that was cut off the set of its oldest lines. `kept` has the
  bars that were saved, `holes` the bars a fetch passed over between the cache and
  its pages.
* **FundingGuard**: clock, rate, cached snapshot, last verdict; a fetch works or
  fails. No order path of the repository calls it yet, so it is composed with
  nothing.
* **Backtest**: one step per symbol and half of a bar, with the production gate.
  `entryFees` is the sum of the fees taken when positions were opened.

Operators whose name ends in `Mut` are the changed forms used to find out
whether a property notices a bug in the definition they stand next to; no
specification uses them.

## Runs

Six runs pass, six end in a counterexample. Faults, overlaps and restarts are
together in one run per component, so that a property is checked where they
meet. Deadlock is checked except where the environment is bounded and the system
then rightly stops (no attempt left at a webhook, the walk over); these
configurations say `CHECK_DEADLOCK FALSE`.

| run | question | instance | distinct states |
|---|---|---|---|
| `parts` | do sizing, gate, switches and rounding agree; is each crossing signalled once; does the screener prefer the better symbol; order, caps, counts and balance of a walk; what do the three small stores promise? | signals × accounts at, below and above each threshold × limits × prices, amounts that are whole units of the rounding and such that are not; all histories of up to 7 bars out of 3 candles; up to 3 tickers around each threshold; 2 symbols that may miss bars, 3 timestamps, 4 shapes of bar, fee and slippage; 3 callers, 2 keys, up to 4 passes; 7 bars, targets 0, 2, 4, 6 on pages of 2 and at most 2 of them; 3 rates over 5 ticks; crashes and failing fetches | 962,055 |
| `pipeline` | what stays true of the account, the caps, the switch and the log? | both execution paths, 2 workers, 1 halter, 6 requests (default symbol, other symbol, close, unusable, no entry price, no id), all four kinds of fault | 1,773,610 |
| `console` | log versus switch, replays, forged and expired requests, tiers | 2 threads, 9 requests, 3 deliveries, clock 0..2, crashes | 358,309 |
| `poll` | one order per bar and side, no repeated adding | 2 pollers, 1 symbol, 2 bars, both reverse modes, failing syncs, crashes | 228,354 |
| `feeds` | sessions, start-up, polling; once, in order, closed bars only; recovery | 3 orders, one of which may raise whenever it is queried, 2 refused and 1 lost connection; 2 symbols × 2 bars, 2 messages on the wire, 2 lost and 1 refused connection | 77,211 |
| `bridge` | one order per event, no lasting phantom, nothing stranded | 2 threads, 2 trades (one without trade_id), 5 attempts in all, all five kinds of fault | 452,586 |
| `pipeline_symbol_cap`, `pipeline_misread`, `console_alert`, `console_log`, `poll_close_only`, `runtime_reconnect` | [disagreements](#where-the-code-and-its-documents-disagree) | one worker without faults; one worker, error responses only; as `console`, with the requests in question; as `poll`; one order | |

Each module has a type invariant, which held on the same instances; the runs list
what a bug of the code could break. The types of `ControlFile`, `SeenFile`,
`StrategyPoll`, `CandleHistory`, `WsRuntime`, `CandleStream` and `Backtest` are
theorems.

**Why these bounds are enough.** The protocols here treat keys, symbols,
requests and threads alike: none is compared with another except for equality,
so a violation needs as many of them as there are roles in it (two deliveries of
one signal; two requests and one capacity; a halter and a trader). The proofs
remove the bound: every invariant of the passing runs is proved for any number of
threads, keys, requests, symbols and bars. What rests on the bounds alone is
liveness. The bounds on counts (`MaxPass`, `MaxSends`,
`MaxOverlapping`, `MaxBills`, `MaxBar`, `MaxWire`, `MaxDrops`, `MaxRefusals`,
`MaxChannelDrops`, `MaxChannelRefusals`, `MaxClock`, `MaxTs`, `MaxBars`, `MaxLast`, `MaxNow`) bound the
environment, never the program. `PageLimit`, `MaxPages`, `Targets` and `Ttl` are
parameters of the code.

In `pipeline` three deliveries are served one after another, but only two once two
of them have overlapped (`MaxOverlapping`): the long histories (fill the cap, lose
by a stop, close, try again after a crash) are sequential ones, and the races in
question (one capacity spent twice, one leverage set twice, one id passed twice,
a request and a halt) have two parties. Values of money are chosen around the
thresholds: a contract is 20, the cap 50 and a signal asks for 40, so that the
second order is cut to half a contract and rounded up. Three units are what a
notional is rounded to, and three a leverage of 1 (`Grain`, `One`), so the caps
and free amounts around them leave remainders of 0, 1 and 2. A page of bills holds two
and a day has at most two (`BillPage`, `MaxBills`), each loss is one percent of
the equity and the limit is two. `DailyLossBars` says of itself that it speaks of
days that fit a page, so a third bill would add states and no case. In `console`
the skew is 0, so that of three readings of the clock one is inside the window
and two are not. In `parts` a target of 6 is more than two pages reach back for, 4
takes two pages, 2 one, and 0 is the code's own special case; with 7 bars the cache
can fall behind by more than a page, which is what makes a hole. A time to live of
2 within 5 ticks lets a cached rate be younger, exactly as old and older;
7 bars are four more than the slowest average needs, enough to touch,
stand equal and part again. Symmetry is used for callers, pollers and threads in safety runs
only.

What the passing properties say is in the comment above each of them; the ones
worth knowing first:

* `OrdersBacked`: every order at the exchange, and every one on its way, has a
  passed idempotency check of its own, over failures, lost answers and crashes.
* `StandingHaltBars`: a request that arrives while a halt stands never gets to
  the exchange, whatever else runs.
* `ExposureCapped`: requests one after another overshoot the cap by at most one
  contract, with stops, failures and restarts in between; the race on the account
  snapshot costs at most one cap per thread, and a snapshot that an error response
  emptied one cap more.
* `BuiltForTheGate`: what the service sizes itself is past a cap by at most half a
  unit of its own rounding.
* `LeverageCapped`: no position above `RISK_MAX_LEVERAGE`, although the leverage
  is set in one call and used in the next, by requests that may alternate.
* `OneGrantPerKey`, `KeepsPromise`: the check-then-append race is confined to
  keys that two calls asked about at once.
* `BurnedForEffect`: no effect of a signed command without its nonce on disk,
  and no nonce on disk for a command that was not the operator's.
* `AuditTellsSwitch`: the last switch event of the log is what the switch says.
* `FetchedIsCurrent`, `GapsNoted`: a fetch that was not cut short has exactly the
  newest bars, whatever the cache held, although bars close between two pages; the
  cache file misses bars inside only where a fetch did not reach back to it.
* `CrossingsSeenOnce`: a crossing is found from two bars only, yet averages that
  touch and part again give one signal, not none and not two.
* `WindowForgetsSeed`: a poll, which sees a window, and a backtest, which sees all
  bars, differ by no more than the weight the seed still has.
* `NoStrandedPosition`: once freqtrade has the answer to an exit, nothing of that
  trade is held here, unless the exit was blocked, refused, or smaller than the
  position.
* `NoLastingPhantom`: an entry that was blocked does not stay in freqtrade's
  book, even when a retry overlaps the attempt that was blocked.
* `PolledWhileLooping`: as long as the loop gets through its iterations every
  open order is polled again and again, unless the list has it behind one whose
  query may raise.

## Fairness

Only `WsRuntime` and `CandleStream` have liveness properties. `FairSpec`,
`FairStreamSpec` and, for whichever of the two a behaviour is about, `FeedsSpec`
assume weak fairness of the program's own steps,
`WF_vars(LoopStep)` and `WF_streamVars(StreamStep)`: an asyncio
task that is not waiting is run by the event loop, a sleep ends, an attempt to
connect or to send ends with an answer or an exception. Nothing is assumed of the
exchange, the network or the operator: no message has to come and no connection
has to stand; `WsRuntime.Message` and `CandleStream.CandleCloses` are not fair. Lost
and refused connections are finitely many in an instance, which is what "is
eventually reachable" means there; queries that raise are not bounded. The other modules are checked for safety only;
what must not get lost there is stated as an invariant ("it is in the log, or its
request is still on the way there", `OrdersAccounted`, `CommandsAccounted`).

## Proofs

Eight modules hold theorems; `tlapm` checks every leaf with Z3, Zenon and LS4.
Every invariant that a passing run checks is a theorem for all values of the
constants, and so are the refinement of `AtMostOnce` and the types of the modules
named above. Assumptions are the `ASSUME`s of the modules (checked by TLC for each
instance) and the hypothesis of a theorem where it has one: `Exact = Keys` (no key
with white space at an end), `ReconcileOnBlock` (reconciliation is switched on),
`SkipSame` (`strategy_skip_same_direction`, the default at
`config.py:183`).

* **DataLemmas** (no component of its own). The provers cannot use an induction
  theorem that takes a predicate; they can use one that takes a *set*
  (`NatSetInduction`: a set that has 0 and with n also n + 1 has all of Nat; the
  same for the subsets of a finite set and for the places of an interval). With
  it: a fold of a sequence or a sum over a set is the value of one recursive
  function, so it changes by the change of one term, is bounded by its terms, and
  grows by what is appended; a finite set has a smallest element; places that are
  ordered totally have the ranks 0 to n - 1, each exactly once.
* **RiskGate_proofs**, the gate (constants: integers and sets, `RiskAssumption`).
  The invariant `RiskInv` says that what was drawn and decided are the values of
  the operators on admissible inputs. `CapacityRespectsCaps` (what is left of the
  caps never exceeds them together with what is used) and the bounds of `Rounded`
  (half a `Grain` at most, nothing for a multiple of it) give `SizingMeetsGate`;
  `RoundingError` (half-to-even is
  within half a divisor, by division with remainder) gives `SizeOvershoot`;
  `ClosesIgnoreGuards` gives `ClosesAreSpared`, `HaltedNeverApproves` gives
  `SwitchesRefuse` (no run lists that one: the theorem says all of it).
* **RiskGate_proofs**, the backtester (any candles, signals, limits). `WalkInv`
  adds to the four properties that the open positions, and the trades, lie in the
  order of the walk (`ListInOrder`), that a position was entered on a bar before
  the present half of the present one (`EnteredEarlier`: without it an exit on the
  bar of the entry could not be excluded), and that the equity *at every moment* is
  the initial one plus the booked results less the entry fees (`Balanced`; the
  property speaks of the end of the walk only). `CapsAlwaysHold` takes the sum over the open
  positions apart with the lemmas on folds and meets it with the same
  `CapacityRespectsCaps`.
* **Files_proofs**, the switch (any finite set of writers). `SettledFileAgrees` is
  not inductive: that the file is "clear" only if a resume wrote it depends on who
  is still writing. `ControlInv` adds that a text in the file was begun in this
  round, that a writer's command is in the round, and that an empty file has an
  unfinished or a dead writer. `SettledHalt` and `CorruptionOrigin` (a file that
  does not parse needs a halt among overlapping writers) follow.
* **Files_proofs**, the keys (any callers and keys, any `Strip` that
  `SeenAssumption` allows). `OneGrantPerKey` is not inductive. `SeenInv` adds four
  facts: a key that passed has its stripped form on disk (`PassedKeysBurned`); a
  caller past its read has a key; with keys that read back as themselves, what is
  on disk is there because a key passed; and, the heart of it, as long as a key is
  not in `shared` at most one caller asks about it, and one that is about to append
  asks about a key that has not passed (`AloneInv`). `KeysStayBurned` and
  `GrantsOnce` follow; `SeenSimulates` maps every step to a step of `AtMostOnce` or
  a stutter, which gives the refinement `FileKeepsPromise`, for keys that read back
  as themselves.
* **SignalPipeline_proofs** (any workers, requests, symbols, limits, faults, on
  both execution paths). `HaltBars`: `HaltInv` strengthens `StandingHaltBars` by
  "and the halt still stands"; the file's own invariant `ControlInv` then says that
  the decision reads "halted" or raises, and `HaltedRefuses` that the gate refuses.
  `PipelineUsesSeenFile` shows that a worker is a caller of `SeenFile`, so that
  module's theorems hold of it. `EveryOrderBacked`: `OrdersBacked` compares two
  counters and is not inductive; the strengthening counts, for each id, the orders
  together with the requests that have passed the check and may still order
  (`Waiting`), against the grants. A grant makes one such request, an order uses
  one up, everything else only loses them. With `GrantsOnce` it gives
  `OneOrderPerId`. `LeverageStaysCapped`: the leverage of a symbol is in bounds from
  when it was set for an order, not only from when there is a position (`LeverInv`),
  so it does not matter whose setting comes last before an order. `OrdersAreTold`:
  a request on its way to the audit log stands for an order only if it has the
  exchange's answer itself (`ToldInv`); a refused request of the same id, on the same
  way, would satisfy the property and leave without telling.
  `DailyLossHolds`: `DayInv` follows the result of the day from the bills to the
  gate, per worker: whoever began after the breach has, once it has read the bills,
  a result that breaches (`Noticed`), since a page that holds the day's bills can only
  have grown by losses, or was told that there were none, which is where `began` forgets
  the breach (`SyncBills`). `ExposureStaysCapped`: an order is approved on one snapshot
  and placed some calls later, so the property is not inductive; `CapInv` counts
  the exposure together with what each worker may still add to it (its *claim*),
  against the number of threads, and of snapshots that an error response emptied,
  times the cap and one unit (`MisreadBooked`, `SnapshotBooked`). A stop or a
  close only lowers the sum, an approval makes a claim within the capacity of a
  snapshot that nobody else can outdate while requests do not overlap, an order
  turns the claim into a position.
* **FreqtradeBridge_proofs** (any trades, threads, faults). The bridge, too, uses
  `SeenFile` as specified (`BridgeUsesSeenFile`). `EventsOrderOnce`: `Single` says
  of an event that was never shared that before the grant there is no order, after
  it one thread may order, and afterwards nobody. `NothingStranded`: `KeptInv`
  follows an exit from its order to its answer: once freqtrade could have been told,
  the position is gone and cannot come back, for its entry was ordered already; or
  the exit is one of the three kinds the property excepts.
  `PhantomsPass` (with reconciliation switched on): as long as a blocked trade is
  open in the book, a thread is on its way to reconcile it; and nothing is blocked
  that is not in the book.
* **AdminConsole_proofs** (any threads, requests, sizes). `ConsoleUsesSeenFile` and
  `ConsoleSwitchSettles` carry over the theorems of the two files. `SignedActOnce`
  and `NoncesBurned` need that every effect, done or still to be done, has a grant
  of its nonce, and that only genuine requests get to the file. `CommandsLogged`
  follows a command from its effect to the log, over the threads beside it.
  `TradesHaveTheirTier` carries what was checked to the point where the trade is
  placed. `AuditLogTrusted`: `AuditInv` says that without overlap one thread is
  served at a time, that a thread between the switch and its event has put the
  file where its own event will say it is (`Turns`), and that at all other times
  the last such event is told already (`LastTold`).
* **StrategyPoll_proofs**, the polls (any pollers, symbols, bars). `PollTypeCorrect`
  is part of the invariant (a poller's list of symbols is a sequence because the set
  is finite). `BarsOrderOnce` counts, for a bar and a side, orders and polls that may
  still order against the grants of the one or two ids the bar can have: the id has
  the action in it, so close_only mode has two. `PositionsDoNotPileUp` (with
  `SkipSame`): `StackInv` counts what is held together with the pollers that saw the
  symbol free of that side and have not passed it yet.
* **StrategyPoll_proofs**, the screener (any answers, thresholds, `top_n`).
  `RanksAbove` with the place as the last key is a total order, so the ranks are the
  numbers below the count of candidates and the list has each candidate at its rank;
  a score does not fall when a ticker gets better in one respect
  (`BetterRanksAbove`), so the better one of two has the smaller rank and is within
  the cut-off whenever the other is. That the score does not fall across the borders
  of the categories needs the order in which the code tests them.
* **StrategyPoll_proofs**, the averages (any history, periods, multiples). A running
  average stays between bounds of its values, and a prefix of a history has the same
  averages as the whole: what a poll finds on bar n is a fact about n. Two averages
  that are on opposite sides at two bars cross at a bar between them, by induction
  over the interval; averages that are equal belong to the side they came from, which
  is what makes `CrossingsSignalledOnce` hold of averages that touch. A stop or a
  target that is not positive needs closes no greater than a multiple of a true
  range, which the veto in the property spells out. `WindowsForget`: a bar shrinks
  the difference of two averages to (p - 1)/(p + 1) of what it was, whatever the
  close; the powers of that factor are the weight the property speaks of.
* **Feeds_proofs**, candles and rates (any targets, page sizes, numbers of bars,
  rates, times to live). The heart of `FetchesAreCurrent` and `GapsAreNoted` is
  `LoadInv`: what has been fetched is an interval that ends at the bar that had
  closed when the first page was read, and the cache has nothing newer. Then the
  newest `target` bars of cache and pages together are those of the exchange
  (`NewestAreRecent`), and a bar missing between two others was missing from the
  cache before or lies between the cache and the pages (`MergeGaps`).
  `SavedBarsStay` adds that while the file is being written the call itself holds
  what was in it. `VerdictsAreRecent` adds that what is cached was the rate when it
  was fetched.
* **Feeds_proofs**, the two streams. `OneSession`: `SessionInv` ties what the
  exchange saw on a connection to the place of the loop, also while the connection
  is down and the loop has not noticed. `ClosedBarsFireOnce`: `StreamInv` adds that
  what is confirmed on the wire has closed (`WireClosed`; the exchange never
  pushes a bar as confirmed before), and that the listener's last confirmed bar is
  no older than any bar the callback saw (`CallsInOrder`); a message is a fold over
  its rows in the order of their times, `TakenInOrder` is one row.

What the proofs found out about the models: two arms of the screener's `Category`
overlapped, which a CASE leaves open and the code's order of tests decides; a stop
or a target can fail to be positive, and then the code gives no signal, which the
first form of `CrossingsSeenOnce` did not except; a position whose entry price is
not positive has no result (`PnlOf`); with the rounding of the sizing, "the gate
never refuses what was just sized" is false, and `BuiltForTheGate` says by how
much. The assumptions of `Backtest`,
`SignalPipeline`, `Screening` and `Indicators` now say what their proofs used of
prices, limits and candles: they are numbers, and prices and contract values are
positive. `ExposureCapped` is proved of signals that quote no less than the market
price; without that it is false ([known limits](#known-limits-of-the-code-that-the-properties-except)).

Only model-checked: the four liveness properties (`PolledWhileLooping`,
`EventuallySubscribed`, `Recovers`, `PushedBarsSettle`), which need fairness and
ENABLED, out of this prover's reach, and the disagreements below. The modules
write recursion as recursive functions and folds and multiply out powers
(`Power`), because the provers see nothing in a RECURSIVE operator or in `^`.

## Where the code and its documents disagree

Each is a run that TLC ends with a counterexample; `PROJECT.json` under
`findings` has the quoted sentence and the lines.

| run | property | what happens |
|---|---|---|
| `pipeline_symbol_cap` | `SymbolCapped` | an account without positions has no breakdown, so no per-symbol cap for the first order |
| `pipeline_misread` | `ExposureWithinCap` | an error response to the positions query reads as an empty account: requests one after another go past the account-wide cap |
| `console_alert` | `HaltsAlerted` | `/admin/halt` pushes no alert, although it is listed among what does |
| `console_log` | `ActionsLogged` | `/admin/strategy/poll`, and a manual trade whose pipeline raises, leave no `admin_action` event |
| `poll_close_only` | `OneOrderPerDirection` | in close_only mode one bar closes the long and later opens the short: two orders of one side |
| `runtime_reconnect` | `Reconnects` | a lost connection is never replaced: the factory hands out the transport with the dead connection |

## Known limits of the code that the properties except

A property that holds in general says in its comment what it excepts. These are
the exceptions, each a behaviour of the code that the models have:

* Two calls that read a file of keys at once both pass (`shared`), and a key with
  white space at an end never matches its line (keys outside `Exact`).
* The pause switch is read once per request: one that is past it when a halt
  returns still orders; and while a second halt rewrites the file it reads as
  "not halted" for a moment. `StandingHaltBars` is about requests that arrive
  under a halt that stands.
* Requests that overlap judge the same snapshot of the account (`noted.overlap`);
  any order may be rounded up by a contract.
* An error response to `set_leverage` is dropped (`noted.loose`), and the
  day's result is the sum of one page of bills (`DailyLossBars`).
* An error response to an account read is taken for an answer. Without positions
  the whole cap is free (`noted.misread`, the run `pipeline_misread`); without bills
  the day has no loss, so a request goes through after the limit was reached
  (`DailyLossBars`; `.env.example:131-133` and `docs/architecture.md:19` have it
  refused), and so does one on the Hummingbot path while the portfolio history has
  fewer than two rows. An equity of 0 is refused, as it should be.
* What `build_trade_proposal` has rounded up, `evaluate_trade` refuses for the
  fraction of a unit it is past the cap or past the leverage limit
  (`BuiltForTheGate`).
* The caps, the margin guards and the minimum of available equity hold back a
  closing order as they do an opening one; only the two guards on new positions
  look at the action (`GuardsSpareCloses`).
* A lost answer, a failing status query or a crash after an order leaves it
  without a "submitted" event (`noted.untold`).
* `CommandsAccounted` is about halts and resumes and the page's alert, which is
  less than the documents promise (`console_alert`, `console_log`). A crash between
  switch and log loses the event (`cut`).
* The tier of a manual trade is that of the declared notional (`TradesConfirmed`).
* A poll whose account sync fails has no map and may add to a position (`blind`).
* The runtime waits for a message before it polls open orders. A query that raises
  ends the iteration, so an order whose query always raises starves every order
  that the list has after it (`Behind`). A candle that closes while the stream is
  down is not asked for.
* A blocked exit, too, makes freqtrade drop the trade; a forceexit that fails is
  not repeated, and an audit append that raises behind a block (`main.py:462`)
  leaves it out (`failed`). An exit is sized like an entry, by what the caps have
  left, and may close a part of its position only; freqtrade gets its 200 all the
  same (`reduced`). An order that OKX refuses is reported as submitted, so
  nothing is forced out of freqtrade's book for it (`refused`). An exit closes
  the symbol, not the trade: `FreqtradeBridge` gives each trade a position of its
  own, as if no two trades shared a symbol.
* The cap is judged at the mark price, the order is sized at the signal's entry
  price, and nothing compares the two: a signal that quotes less than the market
  gets more contracts than the cap has room for. `ExposureCapped` is about signals
  that quote no less (`QuotedAtMarket`).
* On the Hummingbot path the exposure is that of the configured pair only
  (`README.md:80` speaks of the account), and the day's result is measured from
  the first point of the history the instance returns.
* A gap between the candle cache and what was fetched stays (`holes`); a target of
  0 returns the whole cache; when the refresh is answered with an error response
  the old cache is returned as if it were current (`short`).
* The funding guard lets an entry in when it has no rate.
* The backtest's entry fees are in no trade (`entryFees`), its account never has
  a daily loss, and it does not cap the leverage before the gate as production
  does. A signal whose side is not spelled "buy" in lower case passes the gate as a
  buy and is priced as a sell (`Opened`).

## What is not modelled

* **Inside modelled parts**: hedge-mode `pos_side`, limit and take-profit orders
  and `cancel_order` of the OKX client; the texts of reasons, events and alerts;
  the several appends of one request's audit events (one step here); the
  synchronous twins of the websocket manager; derived ratios of the backtest
  report; floating point (amounts are integral, with the rounding of the sizing in
  `Rounded`, and averages are exact fractions, so an error of the last binary digit
  is not seen); the screener's `round` of score (two digits)
  and change (four) before the sort, which may tie what differs by less, so that
  `BetterIsNotPassedOver` speaks of the exact values; a candle row without a confirm
  column, which the listener takes for a confirmed one (`okx_ws_candles.py:53`)
  and OKX does not send; a subscription that OKX answers with an error, after which
  the stream waits for candles that do not come until the connection breaks; two
  processes that write the same
  candle cache.
* **External**: OKX, Hummingbot, freqtrade, the file system's buffering and the
  websocket library are modelled from how this code uses them; the map marks them.
* **Alert routing** (`alerting.py`): a URL per level and a POST whose failure is
  swallowed; `AdminConsole` keeps whether an alert is pushed.
* **Audit log** (`audit_log.py`): one short append per event; the modules keep
  what was appended.
* **Grid search** (`grid_search.py`): a loop over `run_backtest` and a sort of
  its reports; it keeps no state and `Backtest` has what one iteration does.
  (Its summary leaves `higher_tf_slow_ema` out of the configuration it prints.)
* **Configuration** (`config.py`, `models.py`): environment variables into
  records. They are the CONSTANTS of the modules.
* **Page, health check, command line, demo workflow**: presentation and one-shot
  commands. The demo workflow builds a second `Settings` field by field
  (`main.py:733`) and leaves the later fields at their defaults; a model of two
  records says no more than the two lists of fields.

## What could follow

Positions per symbol under `FreqtradeBridge`, composed with the exchange of
`SignalPipeline`: of the two hazards of `PROJECT.json` that no property covers, one
is the exit of a trade that reduces another trade's position of the same symbol
(`freqtrade_adapter.py:87`); the other, an exit of a blocked entry that is never
asked for again (`main.py:937`), needs code that remembers it. An abstract order
gateway that `SignalPipeline` implements, with a refinement theorem beside that of
`SeenFile`. The per-symbol cap of the pipeline where the account has a breakdown,
the positive companion of `SymbolCapped`. The liveness properties, once the prover
has ENABLED.
