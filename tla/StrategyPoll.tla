---------------------------- MODULE StrategyPoll ----------------------------
(***************************************************************************)
(* The inline strategy: main.run_strategy_poll over                        *)
(* strategy_runner.run_strategy_once, called by strategy_scheduler's loop  *)
(* and by /admin/strategy/poll, whose requests run on threads.             *)
(*                                                                         *)
(* A poll reads the directions of the open positions once, then goes       *)
(* through its symbols: candles, signal, dispatch into the /signal         *)
(* pipeline, of which the idempotency file (SeenFile, the pollers being    *)
(* its callers) and the effect of the order on the position are kept.  An  *)
(* id is the record of what its text is made of.                           *)
(***************************************************************************)
EXTENDS SeenFile, Sequences, SequencesExt

CONSTANTS
  Symbols,
  MaxBar,       \* bound: bars that close
  SkipSame      \* STRATEGY_SKIP_SAME_DIRECTION

Pollers == Callers
Sides == {"buy", "sell"}
Ids == [symbol : Symbols, bar : 1..MaxBar, side : Sides, action : {"OPEN", "CLOSE"}]

ASSUME PollAssumption ==
  /\ Keys = Ids /\ MaxBar \in Nat /\ SkipSame \in BOOLEAN
  /\ IsFiniteSet(Symbols) /\ IsFiniteSet(Callers)

VARIABLES
  closeOnly,  \* STRATEGY_REVERSE_SIGNAL_MODE = "close_only"; never changes
  bar,     \* exchange: Symbols -> the last closed bar
  cross,   \* Symbols -> what the generator says of that bar
  units,   \* exchange: Symbols -> signed position, one unit per order
  poll,    \* Pollers -> [pc, map, todo, id]
  orders,  \* bookkeeping: <<symbol, bar, side>> -> orders that took effect
  blind,   \* bookkeeping: a poll went on without a positions map
  overlap  \* bookkeeping: two polls were running at once

marketVars == <<bar, cross, units>>
noteVars == <<orders, blind, overlap>>
vars == <<closeOnly, marketVars, poll, noteVars, seenVars>>

Directions == {"none", "long", "short"}
NoMap  == [s \in Symbols |-> "none"]
NoPoll == [pc |-> "idle", map |-> NoMap, todo |-> <<>>, id |-> NoKey]

PollTypeOK ==
  /\ SeenTypeOK
  /\ bar \in [Symbols -> 0..MaxBar]
  /\ cross \in [Symbols -> Sides \cup {"none"}]
  /\ units \in [Symbols -> Int]
  /\ poll \in [Pollers -> [pc : {"idle", "sync", "symbols", "dispatch"},
                           map : [Symbols -> Directions], todo : Seq(Symbols),
                           id : Ids \cup {NoKey}]]
  /\ orders \in [Symbols \X (1..MaxBar) \X Sides -> Nat]
  /\ {closeOnly, blind, overlap} \subseteq BOOLEAN

Init ==
  /\ SeenInit
  /\ bar = [s \in Symbols |-> 0]
  /\ cross = [s \in Symbols |-> "none"]
  /\ units = [s \in Symbols |-> 0]
  /\ poll = [p \in Pollers |-> NoPoll]
  /\ orders = [o \in Symbols \X (1..MaxBar) \X Sides |-> 0]
  /\ closeOnly \in BOOLEAN /\ blind = FALSE /\ overlap = FALSE

-----------------------------------------------------------------------------
(* Decisions of run_strategy_once. *)

SameDirectionMut(direction, side) == FALSE

SameDirection(direction, side) ==
  <<direction, side>> \in {<<"long", "buy">>, <<"short", "sell">>}

IsReverse(direction, side) ==
  <<direction, side>> \in {<<"long", "sell">>, <<"short", "buy">>}

\* What the exchange does with one unit: a reduce-only order only shrinks.
Ordered(n, side, action) ==
  LET by == IF side = "buy" THEN 1 ELSE -1
  IN  CASE action = "OPEN"             -> n + by
        [] action = "CLOSE" /\ n * by < 0 -> n + by
        [] OTHER                       -> n

\* _signal_to_request_payload: in close_only mode a signal against the
\* position becomes a CLOSE.
SignalId(s, direction) ==
  [symbol |-> s, bar |-> bar[s], side |-> cross[s],
   action |-> IF closeOnly /\ IsReverse(direction, cross[s]) THEN "CLOSE" ELSE "OPEN"]

-----------------------------------------------------------------------------
(* One poll. *)

BeginPoll(p) ==
  /\ poll[p].pc = "idle"
  /\ poll' = [poll EXCEPT ![p] =
                [NoPoll EXCEPT !.pc = IF SkipSame THEN "sync" ELSE "symbols",
                               !.todo = SetToSeq(Symbols)]]
  /\ overlap' = (overlap \/ \E q \in Pollers : poll[q].pc # "idle")
  /\ UNCHANGED <<closeOnly, marketVars, orders, blind, seenVars>>

\* positions_detail[symbol].side; a symbol without a position has no entry.
DirectionOf(s) == CASE units[s] > 0 -> "long"
                    [] units[s] < 0 -> "short"
                    [] OTHER        -> "none"

\* sync_okx_account_state; when it raises the poll goes on without a map.
SyncDirections(p) ==
  /\ poll[p].pc = "sync"
  /\ \/ /\ poll' = [poll EXCEPT ![p].pc = "symbols",
                                ![p].map = [s \in Symbols |-> DirectionOf(s)]]
        /\ blind' = blind
     \/ poll' = [poll EXCEPT ![p].pc = "symbols"] /\ blind' = TRUE
  /\ UNCHANGED <<closeOnly, marketVars, orders, overlap, seenVars>>

Current(p) == Head(poll[p].todo)
AtSymbol(p) == poll[p].pc = "symbols" /\ poll[p].todo # <<>>

\* The next symbol: no_signal, same_direction_open_position, or fetch_error,
\* which may come at any time.
SkipSymbol(p) ==
  /\ AtSymbol(p)
  /\ poll' = [poll EXCEPT ![p].todo = Tail(@)]
  /\ UNCHANGED <<closeOnly, marketVars, noteVars, seenVars>>

\* A signal: the request payload enters process_signal_request_payload.
Dispatch(p) ==
  LET s == Current(p)
      direction == poll[p].map[s]
      id == SignalId(s, direction)
  IN  /\ AtSymbol(p)
      /\ cross[s] # "none"
      /\ ~ SameDirection(direction, cross[s])
      /\ poll' = [poll EXCEPT ![p].pc = "dispatch", ![p].id = id]
      /\ BeginCheck(p, id)
      /\ UNCHANGED <<closeOnly, marketVars, noteVars>>

CheckDuplicate(p) ==
  /\ poll[p].pc = "dispatch"
  /\ ReadSeen(p) \/ AppendSeen(p)
  /\ UNCHANGED <<closeOnly, marketVars, poll, noteVars>>

NextSymbol(p) ==
  /\ poll' = [poll EXCEPT ![p].pc = "symbols", ![p].todo = Tail(@), ![p].id = NoKey]
  /\ EndCheck(p)

\* ValueError "duplicate signal".
Duplicate(p) ==
  /\ poll[p].pc = "dispatch" /\ call[p].pc = "raised"
  /\ NextSymbol(p)
  /\ UNCHANGED <<closeOnly, marketVars, noteVars>>

\* The rest of the pipeline: blocked, failed (dispatch_error), or an order.
NotSubmitted(p) ==
  /\ poll[p].pc = "dispatch" /\ call[p].pc = "passed"
  /\ NextSymbol(p)
  /\ UNCHANGED <<closeOnly, marketVars, noteVars>>

Submitted(p) ==
  LET id == poll[p].id
  IN  /\ poll[p].pc = "dispatch" /\ call[p].pc = "passed"
      /\ units[id.symbol] # Ordered(units[id.symbol], id.side, id.action)
      /\ units' = [units EXCEPT ![id.symbol] = Ordered(@, id.side, id.action)]
      /\ orders' = [orders EXCEPT ![<<id.symbol, id.bar, id.side>>] = @ + 1]
      /\ NextSymbol(p)
      /\ UNCHANGED <<closeOnly, bar, cross, blind, overlap>>

EndPoll(p) ==
  /\ poll[p].pc = "symbols" /\ poll[p].todo = <<>>
  /\ poll' = [poll EXCEPT ![p] = NoPoll]
  /\ UNCHANGED <<closeOnly, marketVars, noteVars, seenVars>>

PollStep(p) ==
  \/ BeginPoll(p) \/ SyncDirections(p) \/ SkipSymbol(p) \/ Dispatch(p)
  \/ CheckDuplicate(p) \/ Duplicate(p) \/ NotSubmitted(p) \/ Submitted(p)
  \/ EndPoll(p)

-----------------------------------------------------------------------------
(* The market, and a restart of the process. *)

BarCloses(s) ==
  /\ bar[s] < MaxBar
  /\ bar' = [bar EXCEPT ![s] = @ + 1]
  /\ cross' \in {[cross EXCEPT ![s] = d] : d \in Sides \cup {"none"}}
  /\ UNCHANGED <<closeOnly, units, poll, noteVars, seenVars>>

StopTriggers(s) ==
  /\ units[s] # 0
  /\ units' = [units EXCEPT ![s] = 0]
  /\ UNCHANGED <<closeOnly, bar, cross, poll, noteVars, seenVars>>

Restart ==
  /\ SeenCrash
  /\ poll' = [p \in Pollers |-> NoPoll]
  /\ UNCHANGED <<closeOnly, marketVars, noteVars>>

Next ==
  \/ \E p \in Pollers : PollStep(p)
  \/ \E s \in Symbols : BarCloses(s) \/ StopTriggers(s)
  \/ Restart

Spec == Init /\ [][Next]_vars

-----------------------------------------------------------------------------
(* Properties. *)

\* Two polls asked about a bar and side at the same time.
Shared(o) == \E id \in shared : <<id.symbol, id.bar, id.side>> = o

(* For one bar and one side a symbol is ordered once (README.md:98),       *)
(* however often it is polled within the bar, over restarts and account    *)
(* syncs that fail; in close_only mode twice, the id having the action in  *)
(* it: once to close and once to open.                                     *)
OneOrderPerBarSide ==
  \A o \in DOMAIN orders : ~Shared(o) => orders[o] <= IF closeOnly THEN 2 ELSE 1

(* The same as documented: one bar, symbol and direction, one order        *)
(* (README.md:98).                                                         *)
OneOrderPerDirection ==
  \A o \in DOMAIN orders : ~Shared(o) => orders[o] <= 1

(* Documented: no repeated adding to a position in a trend (README.md:122).*)
(* The positions map is stale by the time it is used: a poll on its own    *)
(* still never holds more than one order's worth of a symbol, overlapping  *)
(* polls one each, as long as every poll got its map.                      *)
NoPyramiding ==
  ~blind => LET most == IF overlap THEN Cardinality(Pollers) ELSE 1
            IN  \A s \in Symbols : units[s] \in -most..most
=============================================================================
