---------------------------- MODULE CandleStream ----------------------------
(***************************************************************************)
(* The public candle stream: candle_stream.OKXCandleStream.run_forever over*)
(* an AsyncWebSocketTransport, feeding okx_ws_candles.CandleStreamListener *)
(* (parse_candle_push and on_message), which calls the strategy back once  *)
(* per closed bar.                                                         *)
(*                                                                         *)
(* A bar's timestamp is its number; rows carry what the listener tells     *)
(* apart: confirmed, still forming, or not parsable.                       *)
(***************************************************************************)
EXTENDS Integers, Sequences, SequencesExt

CONSTANTS
  Symbols,
  MaxBar,               \* bound: bars that close
  MaxWire,              \* bound: messages on their way
  MaxChannelDrops,      \* bound: connections lost
  MaxChannelRefusals    \* bound: connection attempts that fail

ASSUME StreamAssumption ==
  /\ MaxBar \in Nat /\ MaxWire \in Nat
  /\ MaxChannelDrops \in Nat /\ MaxChannelRefusals \in Nat

VARIABLES
  stage,          \* where run_forever is
  online,         \* stream.connected
  sent,           \* subscriptions_sent
  channel,        \* transport.connection: "none", "up", "down"
  subscribed,     \* the exchange has a subscription on this connection
  wire,           \* messages pushed and not yet received
  closed,         \* exchange: Symbols -> number of the last closed bar
  lastConfirmed,  \* listener.last_confirmed_ts (0: no entry)
  fired,          \* Symbols -> the bars on_confirmed was called with
  mishaps         \* [drops, refusals] so far

runnerVars == <<stage, online, sent>>
channelVars == <<channel, subscribed, wire>>
listenerVars == <<lastConfirmed, fired>>
streamVars == <<runnerVars, channelVars, closed, listenerVars, mishaps>>

ClosedBars == 1..MaxBar
Rows == [ts : 1..(MaxBar + 1), kind : {"confirmed", "forming", "malformed"}]
Row(t, k) == [ts |-> t, kind |-> k]

StreamTypeOK ==
  /\ stage \in {"connect", "subscribe", "listen", "backoff"}
  /\ {online, sent, subscribed} \subseteq BOOLEAN
  /\ channel \in {"none", "up", "down"}
  /\ wire \in Seq([symbol : Symbols, rows : Seq(Rows)]) /\ Len(wire) <= MaxWire
  /\ closed \in [Symbols -> 0..MaxBar]
  /\ lastConfirmed \in [Symbols -> 0..(MaxBar + 1)]
  /\ fired \in [Symbols -> Seq(1..(MaxBar + 1))]
  /\ mishaps \in [drops : 0..MaxChannelDrops, refusals : 0..MaxChannelRefusals]

StreamInit ==
  /\ stage = "connect" /\ online = FALSE /\ sent = FALSE
  /\ channel = "none" /\ subscribed = FALSE /\ wire = <<>>
  /\ closed = [s \in Symbols |-> 0]
  /\ lastConfirmed = [s \in Symbols |-> 0]
  /\ fired = [s \in Symbols |-> <<>>]
  /\ mishaps = [drops |-> 0, refusals |-> 0]

-----------------------------------------------------------------------------
(* CandleStreamListener. *)

NewlyClosedMut(row, prior) == row.kind = "confirmed"

\* Confirmed, and neither a duplicate nor older than the last one.
NewlyClosed(row, prior) == row.kind = "confirmed" /\ row.ts > prior

\* The rows of one push, in their order; what does not parse is skipped.
OnMessageMut(m, before) ==
  LET take(acc, row) == IF NewlyClosed(row, acc.last)
                        THEN [last |-> row.ts, fired |-> Append(acc.fired, row.ts)]
                        ELSE acc
  IN  IF \E i \in DOMAIN m.rows : m.rows[i].kind = "malformed" THEN before
      ELSE FoldLeft(take, before, m.rows)

OnMessage(m, before) ==
  LET take(acc, row) == IF NewlyClosed(row, acc.last)
                        THEN [last |-> row.ts, fired |-> Append(acc.fired, row.ts)]
                        ELSE acc
  IN  FoldLeft(take, before, m.rows)

-----------------------------------------------------------------------------
(* run_forever. *)

\* connect_and_subscribe: transport.connect() makes a NEW connection.
Connect ==
  /\ stage = "connect"
  /\ IF online
     THEN /\ stage' = "subscribe"
          /\ UNCHANGED <<online, channelVars>>
     ELSE /\ channel' = "up" /\ subscribed' = FALSE /\ wire' = <<>>
          /\ online' = TRUE
          /\ stage' = "subscribe"
  /\ UNCHANGED <<sent, closed, listenerVars, mishaps>>

GiveUpConnectedMut ==
  /\ sent' = FALSE
  /\ channel' = IF channel = "up" THEN "down" ELSE channel
  /\ stage' = "backoff"
  /\ UNCHANGED <<online, subscribed, wire, closed, listenerVars>>

\* The except branch: forget everything, close the transport, back off.
GiveUp ==
  /\ online' = FALSE /\ sent' = FALSE
  /\ channel' = IF channel = "up" THEN "down" ELSE channel
  /\ stage' = "backoff"
  /\ UNCHANGED <<subscribed, wire, closed, listenerVars>>

ConnectRefused ==
  /\ stage = "connect" /\ ~online
  /\ mishaps.refusals < MaxChannelRefusals
  /\ mishaps' = [mishaps EXCEPT !.refusals = @ + 1]
  /\ GiveUp

\* The subscribe message, unless it went out already.
SubscribeCandles ==
  /\ stage = "subscribe" /\ (sent \/ channel = "up")
  /\ sent' = TRUE
  /\ subscribed' = (subscribed \/ ~sent)
  /\ stage' = "listen"
  /\ UNCHANGED <<online, channel, wire, closed, listenerVars, mishaps>>

\* process_one: recv(), then the listener.
Receive ==
  /\ stage = "listen" /\ wire # <<>>
  /\ LET m   == Head(wire)
         now == OnMessage(m, [last |-> lastConfirmed[m.symbol], fired |-> fired[m.symbol]])
     IN  /\ lastConfirmed' = [lastConfirmed EXCEPT ![m.symbol] = now.last]
         /\ fired' = [fired EXCEPT ![m.symbol] = now.fired]
  /\ wire' = Tail(wire)
  /\ stage' = "connect"
  /\ UNCHANGED <<online, sent, channel, subscribed, closed, mishaps>>

\* send() or recv() on a lost connection raises.
TransportRaises ==
  /\ \/ stage = "subscribe" /\ ~sent
     \/ stage = "listen"
  /\ channel = "down"
  /\ GiveUp
  /\ UNCHANGED mishaps

BackOff ==
  /\ stage = "backoff"
  /\ stage' = "connect"
  /\ UNCHANGED <<online, sent, channelVars, closed, listenerVars, mishaps>>

StreamStep ==
  Connect \/ ConnectRefused \/ SubscribeCandles \/ Receive \/ TransportRaises \/ BackOff

-----------------------------------------------------------------------------
(* The exchange. *)

Pushed(s, rows) ==
  wire' = IF subscribed /\ channel = "up" THEN Append(wire, [symbol |-> s, rows |-> rows])
          ELSE wire

\* A bar closes and is pushed, confirmed, to whoever is subscribed now.
CandleCloses(s) ==
  /\ closed[s] < MaxBar /\ Len(wire) < MaxWire
  /\ closed' = [closed EXCEPT ![s] = @ + 1]
  /\ Pushed(s, <<Row(closed[s] + 1, "confirmed")>>)
  /\ UNCHANGED <<runnerVars, channel, subscribed, listenerVars, mishaps>>

\* Pushes of the bar being formed, and repeated pushes of closed ones.
PushesAgain(s) ==
  /\ subscribed /\ channel = "up" /\ Len(wire) < MaxWire
  /\ \/ Pushed(s, <<Row(closed[s] + 1, "forming")>>)
     \/ \E b \in 1..closed[s] :
          Pushed(s, <<Row(b, "malformed"), Row(b, "confirmed")>>)
  /\ UNCHANGED <<runnerVars, channel, subscribed, closed, listenerVars, mishaps>>

ChannelDrops ==
  /\ channel = "up" /\ mishaps.drops < MaxChannelDrops
  /\ channel' = "down"
  /\ mishaps' = [mishaps EXCEPT !.drops = @ + 1]
  /\ UNCHANGED <<runnerVars, subscribed, wire, closed, listenerVars>>

StreamNext ==
  \/ StreamStep
  \/ \E s \in Symbols : CandleCloses(s) \/ PushesAgain(s)
  \/ ChannelDrops

StreamSpec == StreamInit /\ [][StreamNext]_streamVars

FairStreamSpec == StreamSpec /\ WF_streamVars(StreamStep)

-----------------------------------------------------------------------------
(* Properties. *)

(* The strategy is called at most once per bar, in order, and never for a  *)
(* bar that is still forming: with repeated pushes, several rows in a push,*)
(* rows that do not parse, and reconnects.                                 *)
FiresClosedBarsOnce ==
  \A s \in Symbols : \A i, j \in DOMAIN fired[s] :
    /\ i < j => fired[s][i] < fired[s][j]
    /\ fired[s][i] <= closed[s]

(* A lost connection is replaced and subscribed again.                     *)
Recovers == (channel = "down") ~> (channel = "up" /\ subscribed)

(* A closed bar that reached the wire is acted on, unless a later one was  *)
(* first or the connection went away with it.                              *)
PushedBarsSettle ==
  \A s \in Symbols, b \in ClosedBars :
    (\E i \in DOMAIN wire : /\ wire[i].symbol = s
                            /\ Row(b, "confirmed") \in ToSet(wire[i].rows))
      ~> (lastConfirmed[s] >= b \/ channel = "down")
=============================================================================
