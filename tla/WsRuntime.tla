----------------------------- MODULE WsRuntime -----------------------------
(***************************************************************************)
(* The long-running runtime: runtime_daemon._supervisor_loop over          *)
(* runtime_supervisor.run_iteration, the private websocket (okx_ws,        *)
(* okx_ws_transport) and the polling of open orders (reconcile_scheduler,  *)
(* reconcile_job), wired as runtime_entry.build_runtime_daemon does it:    *)
(* ONE transport object, handed out by the factory again and again, and a  *)
(* client that has no websocket until the first failure.                   *)
(*                                                                         *)
(* One asyncio task; a step ends where an await may suspend or fail.       *)
(***************************************************************************)
EXTENDS Integers, FiniteSets, Sequences, SequencesExt

CONSTANTS
  Orders,        \* orders that may be open
  Failing,       \* those whose get_order (or audit append) may raise, ever again
  SendPing,      \* send_ping
  MaxRefusals,   \* bound: connection attempts that fail
  MaxDrops       \* bound: connections that are lost

ASSUME RuntimeAssumption ==
  /\ IsFiniteSet(Orders) /\ Failing \subseteq Orders /\ SendPing \in BOOLEAN
  /\ MaxRefusals \in Nat /\ MaxDrops \in Nat

VARIABLES
  pc,         \* where the loop is
  repairing,  \* connect_async runs inside reconnect_async
  attached,   \* client.websocket is the transport (it starts as None)
  connected,  \* manager.connected
  link,       \* transport.connection: "none", "up", or "down" (object kept)
  session,    \* what the exchange got on this connection: <<"login", ...>>
  open,       \* the orders load_open_orders() returns
  batch,      \* what is left of the list being polled
  faults      \* [refusals, drops] so far

loopVars == <<pc, repairing, attached, connected>>
linkVars == <<link, session>>
orderVars == <<open, batch>>
vars == <<loopVars, linkVars, orderVars, faults>>

LoopStates == {"start", "ping", "login", "subscribe", "listen", "repair",
               "load", "poll", "sleep"}

RuntimeTypeOK ==
  /\ pc \in LoopStates
  /\ {repairing, attached, connected} \subseteq BOOLEAN
  /\ link \in {"none", "up", "down"}
  /\ session \in Seq({"login", "subscribe"})
  /\ open \subseteq Orders
  /\ batch \in Seq(Orders)
  /\ faults \in [refusals : 0..MaxRefusals, drops : 0..MaxDrops]

Init ==
  /\ pc = "start"
  /\ repairing = FALSE /\ attached = FALSE /\ connected = FALSE
  /\ link = "none" /\ session = <<>>
  /\ open = {} /\ batch = <<>>
  /\ faults = [refusals |-> 0, drops |-> 0]

-----------------------------------------------------------------------------
(* AsyncWebSocketTransport. *)

\* connection is None, so send() or recv() connects first, and is refused.
Refused ==
  /\ link = "none" /\ faults.refusals < MaxRefusals
  /\ faults' = [faults EXCEPT !.refusals = @ + 1]

\* send(payload): connects when there is no connection object at all.
Sends(payload) ==
  /\ link # "down"
  /\ link' = "up"
  /\ session' = Append(session, payload)

\* A lost connection is not replaced: the object is there, its send raises.
SendRaises ==
  /\ (link = "down" /\ UNCHANGED faults) \/ Refused
  /\ UNCHANGED linkVars

-----------------------------------------------------------------------------
(* One iteration. *)

\* An exception inside run_once is caught and answered with a reconnect; one
\* inside that reconnect ends the iteration (the daemon notes last_error).
AfterFailure == IF repairing THEN "sleep" ELSE "repair"

StartMut ==
  /\ pc = "start"
  /\ repairing' = FALSE
  /\ pc' = IF attached THEN "login" ELSE "repair"
  /\ UNCHANGED <<attached, connected, linkVars, orderVars, faults>>

\* run_once: connect unless connected; without a websocket that raises.
Start ==
  /\ pc = "start"
  /\ repairing' = FALSE
  /\ pc' = CASE ~connected /\ ~attached -> "repair"
             [] ~connected /\ attached  -> "login"
             [] OTHER                   -> IF SendPing THEN "ping" ELSE "listen"
  /\ UNCHANGED <<attached, connected, linkVars, orderVars, faults>>

\* subscribe_private_channels_async, first half.
Login ==
  /\ pc = "login"
  /\ \/ Sends("login") /\ pc' = "subscribe" /\ UNCHANGED faults
     \/ SendRaises /\ pc' = AfterFailure
  /\ UNCHANGED <<repairing, attached, connected, orderVars>>

\* Second half; then manager.connected is set.
Subscribe ==
  /\ pc = "subscribe"
  /\ \/ /\ Sends("subscribe")
        /\ connected' = TRUE
        /\ pc' = CASE repairing -> "load"
                   [] OTHER     -> IF SendPing THEN "ping" ELSE "listen"
        /\ UNCHANGED faults
     \/ /\ SendRaises
        /\ pc' = AfterFailure
        /\ UNCHANGED connected
  /\ UNCHANGED <<repairing, attached, orderVars>>

\* The exchange answers a ping and keeps no state for it.
Ping ==
  /\ pc = "ping"
  /\ pc' = IF link = "down" THEN "repair" ELSE "listen"
  /\ UNCHANGED <<repairing, attached, connected, linkVars, orderVars, faults>>

\* recv() returns a message; no handler is registered, so it goes nowhere.
Message ==
  /\ pc = "listen" /\ link = "up" /\ session # <<>>
  /\ pc' = "load"
  /\ UNCHANGED <<repairing, attached, connected, linkVars, orderVars, faults>>

\* recv() on a lost connection raises.
ListenRaises ==
  /\ pc = "listen" /\ link = "down"
  /\ pc' = "repair"
  /\ UNCHANGED <<repairing, attached, connected, linkVars, orderVars, faults>>

RepairMut ==
  /\ pc = "repair"
  /\ link' = IF attached /\ link = "up" THEN "down" ELSE link
  /\ repairing' = TRUE
  /\ pc' = IF attached THEN "login" ELSE "sleep"
  /\ UNCHANGED <<attached, connected, session, orderVars, faults>>

\* reconnect_async(factory()): the previous websocket is closed (it is the
\* very object the factory returns), attached again, and connect_async runs.
Repair ==
  /\ pc = "repair"
  /\ link' = IF attached /\ link = "up" THEN "down" ELSE link
  /\ attached' = TRUE
  /\ repairing' = TRUE
  /\ pc' = "login"
  /\ UNCHANGED <<connected, session, orderVars, faults>>

\* load_open_orders(), in whatever order its supplier lists them;
\* reconcile_open_orders_job runs on the list, if any.
LoadOrders ==
  /\ pc = "load"
  /\ batch' \in SetToSeqs(open)
  /\ pc' = IF open = {} THEN "sleep" ELSE "poll"
  /\ UNCHANGED <<repairing, attached, connected, linkVars, open, faults>>

PollMut ==
  /\ pc = "poll"
  /\ batch' = <<>>
  /\ pc' = "sleep"
  /\ UNCHANGED <<repairing, attached, connected, linkVars, open, faults>>

\* One order of the list: get_order, then its audit event.
Poll ==
  /\ pc = "poll"
  /\ batch' = Tail(batch)
  /\ pc' = IF Len(batch) = 1 THEN "sleep" ELSE "poll"
  /\ UNCHANGED <<repairing, attached, connected, linkVars, open, faults>>

\* The query raises.  The job has no handler of its own: the rest of the list
\* is dropped with the iteration, and the daemon notes last_error.
PollRaises ==
  /\ pc = "poll" /\ Head(batch) \in Failing
  /\ batch' = <<>>
  /\ pc' = "sleep"
  /\ UNCHANGED <<repairing, attached, connected, linkVars, open, faults>>

\* sleep_fn(0), and round again.
Sleep ==
  /\ pc = "sleep"
  /\ pc' = "start"
  /\ UNCHANGED <<repairing, attached, connected, linkVars, orderVars, faults>>

LoopStep ==
  \/ Start \/ Login \/ Subscribe \/ Ping \/ ListenRaises \/ Repair
  \/ LoadOrders \/ Poll \/ PollRaises \/ Sleep

-----------------------------------------------------------------------------
(* Around the loop. *)

LinkDrops ==
  /\ link = "up" /\ faults.drops < MaxDrops
  /\ link' = "down"
  /\ faults' = [faults EXCEPT !.drops = @ + 1]
  /\ UNCHANGED <<loopVars, session, orderVars>>

OrderOpens(o) ==
  /\ o \notin open
  /\ open' = open \cup {o}
  /\ UNCHANGED <<loopVars, linkVars, batch, faults>>

Next == LoopStep \/ Message \/ LinkDrops \/ \E o \in Orders : OrderOpens(o)

Spec == Init /\ [][Next]_vars

\* The event loop keeps running the task; nothing says when a message comes.
FairSpec == Spec /\ WF_vars(LoopStep)

-----------------------------------------------------------------------------
(* Properties. *)

(* A connection sees one login and one subscription, in this order: the    *)
(* loop never logs in again on a session it has (OKX counts logins); and it*)
(* waits for messages only where the subscription went out, or on a lost   *)
(* connection: recv() never has to open one of its own.                    *)
OneSessionPerConnection ==
  /\ session \in {<<>>, <<"login">>, <<"login", "subscribe">>}
  /\ pc \in {"ping", "listen"} => link = "down" \/ session = <<"login", "subscribe">>

(* Connection attempts that fail at first are repeated until the session   *)
(* stands, or a connection is lost (which is final, see Reconnects).       *)
EventuallySubscribed == <>(link = "down" \/ (link = "up" /\ connected))

\* o is the order the job queries now.
Polling(o) == pc = "poll" /\ Head(batch) = o

\* The list has an order whose query may raise ahead of o.
Behind(o) == \E i, j \in DOMAIN batch : i < j /\ batch[i] \in Failing /\ batch[j] = o

(* As long as iterations keep reaching their second half, every open order *)
(* is queried again and again, with one exception: an order listed behind  *)
(* one whose query may raise.  reconcile_job.py has no handler per order,  *)
(* so a query that always raises starves what the list has after it.       *)
PolledWhileLooping ==
  []<>(pc = "load") =>
    \A o \in Orders : (o \in open) ~> (Polling(o) \/ Behind(o))

(* Documented: "supports reconnects" (docs/okx-native-sdk.md:69).          *)
Reconnects == (link = "down") ~> (link = "up" /\ connected)
=============================================================================
