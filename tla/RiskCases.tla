----------------------------- MODULE RiskCases -----------------------------
(***************************************************************************)
(* The risk gate on its own: each step draws a signal, an account snapshot,*)
(* the configured limits and the state of the pause switch, and runs the   *)
(* two calls of process_okx_signal_payload on them, as the pipeline does.  *)
(***************************************************************************)
EXTENDS RiskEngine

CONSTANTS CaseSignals, Accounts, LimitSets, CaseFraction, Allow, Prices, ContractValues

IntOrUnknown == Int \cup {Unknown}

ASSUME RiskAssumption ==
  /\ Unknown \notin Int
  /\ CaseFraction \in Int
  /\ \A a \in Accounts :
        /\ a.equity \in Int /\ a.exposure \in Int /\ a.pnl \in Int
        /\ a.used \in IntOrUnknown /\ a.available \in IntOrUnknown
        /\ a.bySymbol = Unknown \/ \A s \in DOMAIN a.bySymbol : a.bySymbol[s] \in Int
  /\ \A l \in LimitSets :
        /\ l \in [maxNotional : Int, maxLeverage : Int, dailyLoss : Int,
                  maxSlippage : Int, minEquity : Int, halted : BOOLEAN,
                  minMarginRatio : Int, maxUtilization : Int, minAvailable : Int,
                  maxPerSymbol : Int, minDistance : Int, maxOpen : Int]
  /\ \A s \in CaseSignals : s.entry \in Int /\ s.stop \in Int /\ s.leverage \in Int
  /\ Prices \subseteq Int /\ ContractValues \subseteq Int

VARIABLES
  drawn,    \* the inputs of the last decision
  decision  \* its outcome

riskVars == <<drawn, decision>>

NoCase == [account |-> Unknown]
NoDecision == [approved |-> FALSE, size |-> 0]

RiskInit == drawn = NoCase /\ decision = NoDecision

(***************************************************************************)
(* One request: the limits in force, the proposal, the verdict, and the    *)
(* size that would be ordered.                                             *)
(***************************************************************************)
Draw ==
  drawn = NoCase /\ \E sig \in CaseSignals, a \in Accounts, base \in LimitSets, switch \in BOOLEAN,
     price \in Prices, value \in ContractValues :
    LET l == ApplyControlState(base, switch)
        p == BuildTradeProposal(sig, a, "okx_native", sig.symbol, l, CaseFraction)
    IN  /\ drawn' = [account |-> a, base |-> base, limits |-> l, switch |-> switch,
                     proposal |-> p, price |-> price, value |-> value]
        /\ decision' = [approved |-> Approved(p, a, l, Allow),
                        size |-> IF Sizable(price, value) /\ p.notional > 0
                                 THEN ContractSize(p.notional, price, value) ELSE 0]

\* The request is over.
Forget == drawn' = NoCase /\ decision' = NoDecision

RiskNext == Draw \/ Forget

RiskSpec == RiskInit /\ [][RiskNext]_riskVars

-----------------------------------------------------------------------------
(* Properties. *)

Decided == drawn # NoCase

(* Either pause switch, the environment's or the persisted one, makes the  *)
(* gate refuse everything, CLOSE orders included (README.md:59).           *)
EitherSwitchRefuses ==
  Decided /\ (drawn.base.halted \/ drawn.switch) => ~decision.approved

(* The sizing and the gate agree but for the sizing's last rounding: what  *)
(* the service sized itself is past a cap, and refused for it, by half a   *)
(* unit at most; never when the capacity left is a whole number of units.  *)
(* (With a cap of 100 and an exposure of 33.333333333 it is refused.)      *)
BuiltForTheGate ==
  Decided =>
    LET a == drawn.account
        l == drawn.limits
        p == drawn.proposal
        bySymbol == l.maxPerSymbol > 0 /\ a.bySymbol # Unknown
    IN  /\ 2 * (p.leverage - l.maxLeverage) <= Grain
        /\ p.notional > 0 =>
             /\ 2 * (a.exposure + p.notional - l.maxNotional) <= Grain
             /\ (l.maxNotional - a.exposure) % Grain = 0 => ~ NotionalExceeded(p, a, l)
        /\ p.notional > 0 /\ bySymbol =>
             /\ 2 * (Existing(a, p.symbol) + p.notional - l.maxPerSymbol) <= Grain
             /\ (l.maxPerSymbol - Existing(a, p.symbol)) % Grain = 0
                  => ~ SymbolCapExceeded(p, a, l)

(* The two guards on new positions do not apply to a CLOSE: switching them *)
(* off changes no verdict on one (README.md:87-88).                        *)
GuardsSpareCloses ==
  Decided /\ drawn.proposal.action = "CLOSE" =>
    (decision.approved <=>
       Approved(drawn.proposal, drawn.account,
                [drawn.limits EXCEPT !.minDistance = 0, !.maxOpen = 0], Allow))

(* Rounding to whole contracts, at least one, adds less than one contract  *)
(* to the notional that was approved.                                      *)
SizeWithinOneContract ==
  Decided /\ decision.size > 0 =>
    decision.size * (drawn.price * drawn.value)
      <= drawn.proposal.notional + drawn.price * drawn.value
=============================================================================
