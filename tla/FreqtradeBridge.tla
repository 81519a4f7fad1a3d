-------------------------- MODULE FreqtradeBridge --------------------------
(***************************************************************************)
(* The bridge to a freqtrade instance: POST /signal/freqtrade translates a *)
(* webhook (freqtrade_adapter), runs it through the /signal pipeline, and  *)
(* when the pipeline blocked it calls freqtrade's forceexit back           *)
(* (main._maybe_reconcile_freqtrade, freqtrade_reconciler).                *)
(*                                                                         *)
(* Freqtrade itself is external: it books a trade as open before it sends  *)
(* the entry webhook, as closed before the exit webhook, and sends again   *)
(* while it has no 2xx answer ("retries": 3 in the documented config).     *)
(* The pipeline is reduced to its idempotency check (SeenFile) and its     *)
(* outcome; SignalPipeline has the rest.                                   *)
(***************************************************************************)
EXTENDS SeenFile, Functions

CONSTANTS
  Trades,
  Untagged,          \* trades whose webhooks carry no trade_id
  Unusable,          \* webhooks without a usable pair, direction or price
  MaxSends,          \* bound: attempts to send a webhook
  ReconcileOnBlock,  \* FREQTRADE_RECONCILE_ON_BLOCK, and an API url
  Faults             \* a subset of FaultKinds

Threads == Callers
FaultKinds == {"raise", "lost", "error", "forceexit", "crash"}
Events == [trade : Trades, action : {"OPEN", "CLOSE"}]

ASSUME BridgeAssumption ==
  /\ Keys = Events /\ Untagged \subseteq Trades /\ Unusable \subseteq Events
  /\ MaxSends \in Nat /\ Faults \subseteq FaultKinds

VARIABLES
  book,      \* freqtrade: Trades -> "none", "open", "closed"
  attempts,  \* freqtrade: Events -> attempts so far, for webhooks it has to send
  acked,     \* freqtrade: webhooks that were answered with a 2xx
  serve,     \* Threads -> [pc, event]
  holds,     \* exchange: trades whose entry took effect and whose exit did not
  orders,    \* bookkeeping: Events -> orders that took effect
  reduced,   \* bookkeeping: exits whose order left part of the position
  blocked,   \* bookkeeping: events the pipeline blocked
  failed,    \* bookkeeping: blocked events whose reconciliation did not happen
  refused    \* bookkeeping: events whose order OKX refused, answered like others

freqtradeVars == <<book, attempts, acked>>
exchangeVars == <<holds, orders, reduced>>
notedVars == <<blocked, failed, refused>>
vars == <<freqtradeVars, serve, exchangeVars, notedVars, seenVars>>

Entry(t) == [trade |-> t, action |-> "OPEN"]
Exit(t)  == [trade |-> t, action |-> "CLOSE"]
NoEvent == [trade |-> NoKey]
NoServe == [pc |-> "idle", event |-> NoEvent]

BridgeTypeOK ==
  /\ SeenTypeOK
  /\ book \in [Trades -> {"none", "open", "closed"}]
  /\ attempts \in [Events -> 0..MaxSends] /\ acked \subseteq Events
  /\ serve \in [Threads -> [pc : {"idle", "check", "blocked", "reply"},
                           event : Events \cup {NoEvent}]]
  /\ holds \subseteq Trades /\ orders \in [Events -> Nat] /\ reduced \subseteq Events
  /\ blocked \subseteq Events /\ failed \subseteq Events /\ refused \subseteq Events

Init ==
  /\ SeenInit
  /\ book = [t \in Trades |-> "none"]
  /\ attempts = [e \in Events |-> 0] /\ acked = {}
  /\ serve = [th \in Threads |-> NoServe]
  /\ holds = {} /\ orders = [e \in Events |-> 0] /\ reduced = {}
  /\ blocked = {} /\ failed = {} /\ refused = {}

-----------------------------------------------------------------------------
(* Freqtrade. *)

EnterTrade(t) ==
  /\ book[t] = "none"
  /\ book' = [book EXCEPT ![t] = "open"]
  /\ UNCHANGED <<attempts, acked, serve, exchangeVars, notedVars, seenVars>>

ExitTrade(t) ==
  /\ book[t] = "open"
  /\ book' = [book EXCEPT ![t] = "closed"]
  /\ UNCHANGED <<attempts, acked, serve, exchangeVars, notedVars, seenVars>>

\* Webhooks freqtrade has to send.
Due(e) ==
  /\ book[e.trade] \in (IF e.action = "OPEN" THEN {"open", "closed"} ELSE {"closed"})
  /\ e \notin acked
  /\ FoldFunction(+, 0, attempts) < MaxSends

-----------------------------------------------------------------------------
(* The endpoint. *)

At(th, pc) == serve[th].pc = pc
Event(th) == serve[th].event
Move(th, pc) == serve' = [serve EXCEPT ![th].pc = pc]
Reply(th) == serve' = [serve EXCEPT ![th] = NoServe]

\* The id is made of trade id, action, symbol and side; none without a trade id.
IdOf(e) == IF e.trade \in Untagged THEN NoKey ELSE e

\* translate_freqtrade_webhook comes first: 400 for what it cannot use.
Receive(th, e) ==
  /\ At(th, "idle") /\ Due(e)
  /\ attempts' = [attempts EXCEPT ![e] = @ + 1]
  /\ IF e \in Unusable
     THEN UNCHANGED <<serve, seenVars>>
     ELSE /\ serve' = [serve EXCEPT ![th] = [pc |-> "check", event |-> e]]
          /\ BeginCheck(th, IdOf(e))
  /\ UNCHANGED <<book, acked, exchangeVars, notedVars>>

CheckDuplicate(th) ==
  /\ At(th, "check")
  /\ ReadSeen(th) \/ AppendSeen(th)
  /\ UNCHANGED <<freqtradeVars, serve, exchangeVars, notedVars>>

\* ValueError out of the endpoint: 500, and no reconciliation.
Refuse(th) ==
  /\ At(th, "check") /\ call[th].pc = "raised"
  /\ Reply(th) /\ EndCheck(th)
  /\ UNCHANGED <<freqtradeVars, exchangeVars, notedVars>>

\* A CLOSE is reduce-only: it needs a position.
Accepts(e) == e.action = "CLOSE" => e.trade \in holds

TakesEffectMut(e) ==
  /\ Accepts(e)
  /\ orders' = [orders EXCEPT ![e] = @ + 1]
  /\ holds' = holds \cup {e.trade}
  /\ UNCHANGED reduced

\* The side of an exit is turned: freqtrade sends the direction of the trade.
\* The order is sized like any other, by what the caps have left, so an exit
\* may leave part of the position.
TakesEffect(e) ==
  /\ Accepts(e)
  /\ orders' = [orders EXCEPT ![e] = @ + 1]
  /\ \/ /\ holds' = IF e.action = "OPEN" THEN holds \cup {e.trade} ELSE holds \ {e.trade}
        /\ UNCHANGED reduced
     \/ /\ e.action = "CLOSE"
        /\ reduced' = reduced \cup {e}
        /\ UNCHANGED holds

\* The rest of the pipeline: blocked, submitted, or an exception (500).  An
\* order that OKX refuses is reported as submitted.  The audit append comes
\* last and may raise as well: behind a blocked event that means 500 and no
\* reconciliation.
Pipeline(th) ==
  LET e == Event(th)
  IN  /\ At(th, "check") /\ call[th].pc = "passed"
      /\ \/ /\ blocked' = blocked \cup {e}
            /\ Move(th, "blocked")
            /\ UNCHANGED <<exchangeVars, failed, refused, seenVars>>
         \/ /\ "raise" \in Faults
            /\ blocked' = blocked \cup {e}
            /\ failed' = failed \cup {e}
            /\ Reply(th) /\ EndCheck(th)
            /\ UNCHANGED <<exchangeVars, refused>>
         \/ /\ TakesEffect(e)
            /\ Move(th, "reply")
            /\ UNCHANGED <<notedVars, seenVars>>
         \/ /\ "error" \in Faults \/ ~Accepts(e)
            /\ refused' = refused \cup {e}
            /\ Move(th, "reply")
            /\ UNCHANGED <<exchangeVars, blocked, failed, seenVars>>
         \/ /\ "lost" \in Faults /\ TakesEffect(e)
            /\ Reply(th) /\ EndCheck(th)
            /\ UNCHANGED notedVars
         \/ /\ "raise" \in Faults
            /\ Reply(th) /\ EndCheck(th)
            /\ UNCHANGED <<exchangeVars, notedVars>>
      /\ UNCHANGED freqtradeVars

ForceExitsMut(e) == ReconcileOnBlock /\ e.trade \notin Untagged /\ e.action = "CLOSE"

\* _maybe_reconcile_freqtrade: whatever was blocked, if it carries a trade id.
ForceExits(e) == ReconcileOnBlock /\ e.trade \notin Untagged

\* forceexit takes effect on an open trade (whose exit webhook is due then);
\* what goes wrong with the call is logged and forgotten.
Reconcile(th) ==
  LET t == Event(th).trade
  IN  /\ At(th, "blocked")
      /\ \/ /\ ForceExits(Event(th))
            /\ book' = [book EXCEPT ![t] = IF @ = "open" THEN "closed" ELSE @]
            /\ UNCHANGED failed
         \/ /\ ForceExits(Event(th)) /\ "forceexit" \in Faults
            /\ failed' = failed \cup {Event(th)}
            /\ UNCHANGED book
         \/ ~ForceExits(Event(th)) /\ UNCHANGED <<book, failed>>
      /\ Move(th, "reply")
      /\ UNCHANGED <<attempts, acked, exchangeVars, blocked, refused, seenVars>>

\* 200; freqtrade may have hung up on this attempt.
Answer(th) ==
  /\ At(th, "reply")
  /\ acked' \in {acked, acked \cup {Event(th)}}
  /\ Reply(th) /\ EndCheck(th)
  /\ UNCHANGED <<book, attempts, exchangeVars, notedVars>>

ThreadStep(th) ==
  CheckDuplicate(th) \/ Refuse(th) \/ Pipeline(th) \/ Reconcile(th) \/ Answer(th)

Restart ==
  /\ "crash" \in Faults
  /\ SeenCrash
  /\ serve' = [th \in Threads |-> NoServe]
  /\ failed' = failed \cup {Event(th) : th \in {u \in Threads : At(u, "blocked")}}
  /\ UNCHANGED <<freqtradeVars, exchangeVars, blocked, refused>>

Next ==
  \/ \E t \in Trades : EnterTrade(t) \/ ExitTrade(t)
  \/ \E th \in Threads, e \in Events : Receive(th, e)
  \/ \E th \in Threads : ThreadStep(th)
  \/ Restart

Spec == Init /\ [][Next]_vars

-----------------------------------------------------------------------------
(* Properties. *)

(* Freqtrade repeats a webhook it has no answer to; whatever got lost, one *)
(* event of one trade is ordered at most once (README.md:148), restarts    *)
(* included, unless two attempts were checked at once.                     *)
OneOrderPerEvent == \A e \in Exact \ shared : orders[e] <= 1

(* A phantom, a trade that freqtrade has open and whose entry was blocked, *)
(* does not outlive the request that was blocked: also when retries        *)
(* overlap it and are refused as duplicates.  Three things leave one, and  *)
(* nothing repeats the call then: a crash between the two, a forceexit call*)
(* that fails, and an audit append that raises behind the block.           *)
(* (README.md:202-214.)                                                    *)
Serving(e) == \E th \in Threads : ~At(th, "idle") /\ Event(th) = e
NoLastingPhantom ==
  \A t \in Trades \ Untagged :
    book[t] = "open" /\ Entry(t) \in blocked \ failed /\ t \notin holds => Serving(Entry(t))

(* The other way round: once freqtrade has the answer to an exit, nothing  *)
(* of that trade is held here any more; except after an exit that the gate *)
(* blocked (freqtrade is told to drop the trade, whose position stays,     *)
(* main.py:508), one that OKX refused, as it does when the exit overtook   *)
(* its own entry, or one that the caps left too small for the position     *)
(* (proposal_service.py:25-33): then 200 is all that freqtrade ever hears. *)
NoStrandedPosition ==
  \A t \in Trades :
    t \in holds /\ Exit(t) \in acked /\ Entry(t) \in Exact \ shared =>
      Exit(t) \in blocked \cup refused \cup reduced
=============================================================================
