---------------------------- MODULE AdminConsole ----------------------------
(***************************************************************************)
(* The management side: the /admin/* endpoints (admin_api and main), which *)
(* an operator's agent calls with signed requests, and the /ui/halt and    *)
(* /ui/resume buttons of the local page.  FastAPI serves each on a thread. *)
(*                                                                         *)
(* Composition: SeenFile is the file of used nonces and ControlFile the    *)
(* pause switch; a thread is a caller of the one and a writer of the other.*)
(***************************************************************************)
EXTENDS SeenFile, ControlFile, SequencesExt

CONSTANTS
  Requests,      \* as records [kind, nonce, ts, signed, declared, confirmed, pin]
  MaxSends,      \* bound: deliveries of requests
  MaxClock,      \* bound on time
  Skew,          \* CLOCK_SKEW_SECONDS
  SmallTrade, LargeTrade,   \* admin_small_trade_usd, admin_large_trade_usd
  Sizes,         \* what the pipeline may make of a manual trade, in USD
  Crashes        \* whether the process may die

Threads == Callers
AdminKinds == {"status", "halt", "resume", "manual_trade", "strategy_poll"}
UiKinds == {"ui_halt", "ui_resume"}

ASSUME ConsoleAssumption ==
  /\ Writers = Callers
  /\ Requests \subseteq [kind : AdminKinds \cup UiKinds, nonce : Keys, ts : Int, signed : BOOLEAN,
                         declared : Int, confirmed : BOOLEAN, pin : BOOLEAN]
  /\ MaxSends \in Nat /\ MaxClock \in Nat /\ Skew \in Nat
  /\ SmallTrade \in Int /\ LargeTrade \in Int /\ Sizes \subseteq Int

VARIABLES
  serve,    \* Threads -> [pc, req]
  clock,    \* the server's clock
  sends,    \* Requests -> deliveries so far
  log,      \* admin_action events, in order: the requests they are about
  alerts,   \* requests an alert was pushed for
  effects,  \* bookkeeping: Requests -> how often it had its effect
  trades,   \* bookkeeping: <<request, size>> of manual trades executed
  overlap,  \* bookkeeping: two requests were being served at once
  cut       \* bookkeeping: requests whose process died on them

bookVars == <<clock, sends, log, alerts, effects, trades, overlap, cut>>
vars == <<serve, bookVars, seenVars, controlVars>>

NoRequest == [kind |-> "none"]
NoServe == [pc |-> "idle", req |-> NoRequest]

ConsoleTypeOK ==
  /\ SeenTypeOK /\ ControlTypeOK
  /\ serve \in [Threads -> [pc : {"idle", "verify", "nonce", "act", "write", "trade",
                                  "log", "alert"},
                            req : Requests \cup {NoRequest}]]
  /\ clock \in 0..MaxClock /\ sends \in [Requests -> 0..MaxSends]
  /\ overlap \in BOOLEAN /\ cut \subseteq Requests
  /\ log \in Seq(Requests) /\ alerts \subseteq Requests
  /\ effects \in [Requests -> Nat]
  /\ trades \subseteq Requests \X Sizes

Init ==
  /\ SeenInit /\ ControlInit
  /\ serve = [t \in Threads |-> NoServe]
  /\ clock = 0
  /\ sends = [r \in Requests |-> 0]
  /\ log = <<>> /\ alerts = {}
  /\ effects = [r \in Requests |-> 0]
  /\ trades = {} /\ overlap = FALSE /\ cut = {}

-----------------------------------------------------------------------------
At(t, pc) == serve[t].pc = pc
Kind(t) == serve[t].req.kind
Move(t, pc) == serve' = [serve EXCEPT ![t].pc = pc]

\* The reply goes out.
Reply(t) == serve' = [serve EXCEPT ![t] = NoServe]
ReplyAuthorised(t) == Reply(t) /\ IF Kind(t) \in UiKinds THEN UNCHANGED seenVars
                                                         ELSE EndCheck(t)

\* A request reaches a thread; /ui/* from this machine needs no signature.
Deliver(t, r) ==
  /\ At(t, "idle") /\ FoldFunction(+, 0, sends) < MaxSends
  /\ sends' = [sends EXCEPT ![r] = @ + 1]
  /\ serve' = [serve EXCEPT ![t] =
                 [pc |-> IF r.kind \in UiKinds THEN "act" ELSE "verify", req |-> r]]
  /\ overlap' = (overlap \/ \E u \in Threads : ~At(u, "idle"))
  /\ UNCHANGED <<clock, log, alerts, effects, trades, cut, seenVars, controlVars>>

GenuineMut(r) == r.ts - Skew <= clock /\ clock <= r.ts + Skew

\* _verify_hmac: the signature, and a timestamp within the window either way.
Genuine(r) == r.signed /\ r.ts - Skew <= clock /\ clock <= r.ts + Skew

Verify(t) ==
  /\ At(t, "verify")
  /\ IF Genuine(serve[t].req)
     THEN Move(t, "nonce") /\ BeginCheck(t, serve[t].req.nonce)
     ELSE Reply(t) /\ UNCHANGED seenVars                              \* 401
  /\ UNCHANGED <<bookVars, controlVars>>

\* _consume_nonce, step by step; it comes before the handler acts.
ConsumeNonce(t) ==
  /\ At(t, "nonce")
  /\ \/ ReadSeen(t) /\ UNCHANGED serve
     \/ AppendSeen(t) /\ Move(t, "act")
     \/ call[t].pc = "raised" /\ ReplyAuthorised(t)                   \* 409
  /\ UNCHANGED <<bookVars, controlVars>>

\* handle_status reads the switch; /admin/strategy/poll runs a poll (its own
\* module) and returns.  Neither writes an event; each may end in a 500.
Answer(t) ==
  /\ At(t, "act") /\ Kind(t) \in {"status", "strategy_poll"}
  /\ ReplyAuthorised(t)
  /\ effects' = IF Kind(t) = "strategy_poll"
                THEN [effects EXCEPT ![serve[t].req] = @ + 1] ELSE effects
  /\ UNCHANGED <<clock, sends, log, alerts, trades, overlap, cut, controlVars>>

\* halt_trading and resume_trading, in two steps.
SwitchTo(t) == IF Kind(t) \in {"halt", "ui_halt"} THEN "halted" ELSE "clear"

OpenSwitch(t) ==
  /\ At(t, "act") /\ Kind(t) \in {"halt", "resume"} \cup UiKinds
  /\ OpenForWrite(t, SwitchTo(t))
  /\ Move(t, "write")
  /\ UNCHANGED <<bookVars, seenVars>>

WriteSwitch(t) ==
  /\ At(t, "write")
  /\ CloseWrite(t)
  /\ Move(t, "log")
  /\ effects' = [effects EXCEPT ![serve[t].req] = @ + 1]
  /\ UNCHANGED <<clock, sends, log, alerts, trades, overlap, cut, seenVars>>

\* classify_trade_tier on the notional_usd the body declares, and what the
\* tier asks for.
TierSatisfied(r) ==
  CASE r.declared >= LargeTrade -> r.confirmed /\ r.pin
    [] r.declared >= SmallTrade /\ r.declared < LargeTrade -> r.confirmed
    [] OTHER -> TRUE

CheckTierMut(t) ==
  /\ At(t, "act") /\ Kind(t) = "manual_trade"
  /\ IF serve[t].req.confirmed \/ serve[t].req.declared < LargeTrade
     THEN Move(t, "trade") /\ UNCHANGED seenVars
     ELSE ReplyAuthorised(t)
  /\ UNCHANGED <<bookVars, controlVars>>

CheckTier(t) ==
  /\ At(t, "act") /\ Kind(t) = "manual_trade"
  /\ IF TierSatisfied(serve[t].req) THEN Move(t, "trade") /\ UNCHANGED seenVars
                                    ELSE ReplyAuthorised(t)           \* 400
  /\ UNCHANGED <<bookVars, controlVars>>

\* pipeline_runner: sized from the account by build_trade_proposal, which is
\* not given the declared notional; or blocked; or it raises, before or after
\* the order (no event then).
Trade(t) ==
  /\ At(t, "trade")
  /\ \/ \E n \in Sizes :
          /\ trades' = trades \cup {<<serve[t].req, n>>}
          /\ effects' = [effects EXCEPT ![serve[t].req] = @ + 1]
          /\ \/ Move(t, "log") /\ UNCHANGED seenVars
             \/ ReplyAuthorised(t)                                    \* 500
     \/ Move(t, "log") /\ UNCHANGED <<trades, effects, seenVars>>
     \/ ReplyAuthorised(t) /\ UNCHANGED <<trades, effects>>           \* 500
  /\ UNCHANGED <<clock, sends, log, alerts, overlap, cut, controlVars>>

LogMut(t) ==
  /\ At(t, "log")
  /\ log' = IF Kind(t) \in UiKinds THEN log ELSE Append(log, serve[t].req)
  /\ IF Kind(t) = "ui_halt" THEN Move(t, "alert") /\ UNCHANGED seenVars
                            ELSE ReplyAuthorised(t)
  /\ UNCHANGED <<clock, sends, alerts, effects, trades, overlap, cut, controlVars>>

\* The admin_action event; only /ui/halt goes on to push an alert.
Log(t) ==
  /\ At(t, "log")
  /\ log' = Append(log, serve[t].req)
  /\ IF Kind(t) = "ui_halt" THEN Move(t, "alert") /\ UNCHANGED seenVars
                            ELSE ReplyAuthorised(t)
  /\ UNCHANGED <<clock, sends, alerts, effects, trades, overlap, cut, controlVars>>

\* push_level_alert, which swallows what goes wrong with the webhook.
Alert(t) ==
  /\ At(t, "alert")
  /\ alerts' = alerts \cup {serve[t].req}
  /\ Reply(t)
  /\ UNCHANGED <<clock, sends, log, effects, trades, overlap, cut, seenVars, controlVars>>

ThreadStep(t) ==
  \/ Verify(t) \/ ConsumeNonce(t) \/ Answer(t)
  \/ OpenSwitch(t) \/ WriteSwitch(t)
  \/ CheckTier(t) \/ Trade(t) \/ Log(t) \/ Alert(t)

Tick ==
  /\ clock < MaxClock
  /\ clock' = clock + 1
  /\ UNCHANGED <<serve, sends, log, alerts, effects, trades, overlap, cut, seenVars, controlVars>>

Restart ==
  /\ Crashes
  /\ SeenCrash /\ ControlCrash
  /\ serve' = [t \in Threads |-> NoServe]
  /\ cut' = cut \cup {serve[t].req : t \in {u \in Threads : ~At(u, "idle")}}
  /\ UNCHANGED <<clock, sends, log, alerts, effects, trades, overlap>>

Next ==
  \/ \E t \in Threads, r \in Requests : Deliver(t, r)
  \/ \E t \in Threads : ThreadStep(t)
  \/ Tick
  \/ Restart

Spec == Init /\ [][Next]_vars

-----------------------------------------------------------------------------
(* Properties. *)

(* A captured request that is sent again has its effect at most once, over *)
(* restarts too (README.md:368), unless the copies arrived at once.        *)
OneEffectPerRequest ==
  \A r \in Requests :
    r.kind \in AdminKinds /\ r.nonce \notin shared => effects[r] <= 1

(* The nonce file and the effects agree, over restarts: whatever a request *)
(* did, its nonce was on disk by then, and only signed requests get nonces *)
(* there: a request that is not the operator's cannot use up one of his.   *)
BurnedForEffect ==
  /\ \A r \in Requests : r.kind \in AdminKinds /\ effects[r] > 0 => r.nonce \in seen
  /\ \A n \in seen : \E r \in Requests : r.nonce = n /\ r.signed /\ sends[r] > 0

Switching(r) == r.kind \in {"halt", "resume"} \cup UiKinds
Undisturbed == ~overlap /\ ~ \E r \in cut : Switching(r)

(* When no request is being served, the last halt or resume in the audit   *)
(* log is what the switch says: the log can be trusted by whoever reads it.*)
(* That takes requests that neither overlap nor die on the way.            *)
AuditTellsSwitch ==
  Undisturbed /\ (\A t \in Threads : At(t, "idle")) =>
    \A i \in DOMAIN log :
      Switching(log[i]) /\ (\A j \in (i + 1)..Len(log) : ~Switching(log[j])) =>
        ReadControlState = IF log[i].kind \in {"halt", "ui_halt"} THEN "halted" ELSE "clear"

Serving(r, states) == \E t \in Threads : serve[t].req = r /\ serve[t].pc \in states

(* Every halt and resume that took effect has its admin_action event, and  *)
(* a halt from the page its alert, or is on the way there: only a crash    *)
(* leaves one without, never a thread that ran beside it.  The documents   *)
(* promise more than that: HaltsAlerted and ActionsLogged.                 *)
CommandsAccounted ==
  \A r \in Requests \ cut : Switching(r) /\ effects[r] > 0 =>
    /\ r \in ToSet(log) \/ Serving(r, {"log"})
    /\ r.kind = "ui_halt" => r \in alerts \/ Serving(r, {"log", "alert"})

(* A halt pushes an alert, whichever of the two endpoints it came by       *)
(* (README.md:220, .env.example:210).                                      *)
HaltsAlerted ==
  \A r \in Requests \ cut : r.kind \in {"halt", "ui_halt"} /\ effects[r] > 0 =>
    r \in alerts \/ Serving(r, {"log", "alert"})

(* Every management operation writes an admin_action event                 *)
(* (README.md:375).                                                        *)
ActionsLogged ==
  \A r \in Requests \ cut : r.kind \in AdminKinds /\ effects[r] > 0 =>
    r \in ToSet(log) \/ Serving(r, {"log"})

(* A manual trade no larger than its request declared has the confirmation,*)
(* and the pin, of the tier its size is in (.env.example:112-116).  One    *)
(* that the pipeline made larger may not: it is not told what was declared.*)
TradesConfirmed ==
  \A x \in trades : x[2] <= x[1].declared =>
    /\ x[2] >= SmallTrade => x[1].confirmed
    /\ x[2] >= LargeTrade => x[1].pin
=============================================================================
