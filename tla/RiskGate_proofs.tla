--------------------------- MODULE RiskGate_proofs ----------------------------
(***************************************************************************)
(* The risk gate for every signal, snapshot and configuration; and on the  *)
(* walk of a backtest, for any symbols, bars, signals and limits.           *)
(***************************************************************************)
EXTENDS RiskCases, Backtest, DataLemmas

-----------------------------------------------------------------------------
(* The gate on its own.                                                    *)

(* Whatever the proposal and the account, limits that are halted approve   *)
(* nothing (risk.py:24-25, 133).                                           *)
LEMMA HaltedNeverApproves ==
  ASSUME NEW p, NEW a, NEW l, NEW allow, l.halted
  PROVE  ~ Approved(p, a, l, allow)
BY DEF Approved

(* Both switches end up in the limits (main.py:29-41).                     *)
LEMMA SwitchReachesLimits ==
  ASSUME NEW base \in LimitSets, NEW switch \in BOOLEAN, base.halted \/ switch
  PROVE  ApplyControlState(base, switch).halted
BY RiskAssumption DEF ApplyControlState

(* The limits in force are numbers whenever the configured ones are.       *)
LEMMA LimitsStayTyped ==
  ASSUME NEW base \in LimitSets, NEW switch \in BOOLEAN
  PROVE  /\ ApplyControlState(base, switch).maxNotional \in Int
         /\ ApplyControlState(base, switch).maxPerSymbol \in Int
         /\ ApplyControlState(base, switch).maxLeverage \in Int
BY RiskAssumption DEF ApplyControlState

(* Rounding half to even is off by half a divisor at most, and stays below *)
(* a whole number of divisors the exact value is below.                    *)
LEMMA RoundingError ==
  ASSUME NEW n \in Int, NEW d \in Nat \ {0}
  PROVE  /\ RoundHalfEven(n, d) \in Int
         /\ n >= 0 => RoundHalfEven(n, d) \in Nat
         /\ 2 * (d * RoundHalfEven(n, d)) <= 2 * n + d
         /\ \A y \in Int : n <= y /\ y % d = 0 => d * RoundHalfEven(n, d) <= y
<1> DEFINE q == n \div d
           r == n % d
           k == RoundHalfEven(n, d)
<1>1. /\ q \in Int /\ r \in 0..(d - 1) /\ n = d * q + r
      /\ n >= 0 => q \in Nat
  OBVIOUS
<1>2. (k = q /\ 2 * r <= d) \/ (k = q + 1 /\ 2 * r >= d /\ r > 0)
  <2>1. k = IF 2 * r < d \/ (2 * r = d /\ q % 2 = 0) THEN q ELSE q + 1
    BY DEF RoundHalfEven
  <2>2. r \in Int /\ r >= 0 /\ d \in Int /\ d >= 1
    BY <1>1
  <2> HIDE DEF q, r, k
  <2>3. QED
    BY <2>1, <2>2
<1>3. d * (q + 1) = d * q + d /\ d * q \in Int
  BY <1>1
<1>4. ASSUME NEW y \in Int, n <= y, y % d = 0
      PROVE  d * k <= y
  <2>1. CASE k = q
    BY <2>1, <1>1, <1>3, <1>4
  <2>2. CASE k = q + 1 /\ r > 0
    <3> DEFINE m == y \div d
    <3>1. m \in Int /\ y = d * m
      BY <1>4
    <3>2. d * q < d * m
      BY <2>2, <1>1, <1>3, <1>4, <3>1
    <3> HIDE DEF q, m, k, r
    <3>3. q + 1 <= m
      <4>1. \A i \in Int, j \in Int : i <= j => d * i <= d * j
        OBVIOUS
      <4>2. q \in Int /\ m \in Int
        BY <1>1, <3>1
      <4>3. ~ (m <= q)
        BY <4>1, <4>2, <3>2
      <4>4. QED
        BY <4>2, <4>3
    <3>4. d * (q + 1) <= d * m
      BY <3>3, <1>1, <3>1
    <3>5. QED
      BY <2>2, <3>1, <3>4
  <2>3. QED
    BY <2>1, <2>2, <1>2
<1> HIDE DEF q, r, k
<1>5. k \in Int /\ (n >= 0 => k \in Nat) /\ 2 * (d * k) <= 2 * n + d
  BY <1>1, <1>2, <1>3
<1>6. QED
  BY <1>4, <1>5 DEF k

(* round(x, 8).                                                            *)
LEMMA RoundedNear ==
  ASSUME NEW x \in Int
  PROVE  /\ Rounded(x) \in Int
         /\ 2 * Rounded(x) <= 2 * x + Grain
         /\ \A y \in Int : x <= y /\ y % Grain = 0 => Rounded(x) <= y
<1>1. Grain \in Nat \ {0}
  BY GrainAssumption
<1>2. /\ RoundHalfEven(x, Grain) \in Int
      /\ 2 * (Grain * RoundHalfEven(x, Grain)) <= 2 * x + Grain
      /\ \A y \in Int : x <= y /\ y % Grain = 0 => Grain * RoundHalfEven(x, Grain) <= y
  BY <1>1, RoundingError
<1>3. Grain * RoundHalfEven(x, Grain) \in Int
  BY <1>1, <1>2
<1>4. QED
  BY <1>2, <1>3 DEF Rounded

(* build_trade_proposal asks for the capacity left at most, and rounds.    *)
LEMMA ProposalWithinCapacity ==
  ASSUME NEW sig, NEW a, NEW c, NEW s, NEW l, NEW f,
         RemainingCapacity(a, l, s) \in Int,
         DesiredNotional(sig, a, f) \in Int
  PROVE  LET p == BuildTradeProposal(sig, a, c, s, l, f)
             room == RemainingCapacity(a, l, s)
         IN  /\ p.notional \in Int
             /\ 2 * p.notional <= 2 * room + Grain
             /\ \A y \in Int : room <= y /\ y % Grain = 0 => p.notional <= y
             /\ p.symbol = s
<1> DEFINE room == RemainingCapacity(a, l, s)
           x == AtMost(DesiredNotional(sig, a, f), room)
           p == BuildTradeProposal(sig, a, c, s, l, f)
<1>1. p.notional = Rounded(x) /\ p.symbol = s
  BY DEF BuildTradeProposal
<1>2. x \in Int /\ x <= room
  BY DEF AtMost
<1> HIDE DEF x, p, room
<1>3. /\ Rounded(x) \in Int
      /\ 2 * Rounded(x) <= 2 * x + Grain
      /\ \A y \in Int : x <= y /\ y % Grain = 0 => Rounded(x) <= y
  BY <1>2, RoundedNear
<1>4. room \in Int /\ Grain \in Int
  BY GrainAssumption DEF room
<1>5. /\ p.notional \in Int
      /\ 2 * p.notional <= 2 * room + Grain
      /\ \A y \in Int : room <= y /\ y % Grain = 0 => p.notional <= y
  BY <1>1, <1>2, <1>3, <1>4
<1>6. QED
  BY <1>1, <1>5 DEF p, room

-----------------------------------------------------------------------------
(* The state after a decision is a function of the inputs drawn.           *)
Judged(sig, a, base, switch, price, value) ==
  LET l == ApplyControlState(base, switch)
      p == BuildTradeProposal(sig, a, "okx_native", sig.symbol, l, CaseFraction)
  IN  /\ drawn = [account |-> a, base |-> base, limits |-> l, switch |-> switch,
                  proposal |-> p, price |-> price, value |-> value]
      /\ decision = [approved |-> Approved(p, a, l, Allow),
                     size |-> IF Sizable(price, value) /\ p.notional > 0
                              THEN ContractSize(p.notional, price, value) ELSE 0]

RiskInv ==
  \/ drawn = NoCase /\ decision = NoDecision
  \/ \E sig \in CaseSignals, a \in Accounts, base \in LimitSets, switch \in BOOLEAN,
        price \in Prices, value \in ContractValues :
       Judged(sig, a, base, switch, price, value)

(* Every reachable state is the start or the outcome of one decision.      *)
THEOREM RiskInvariant == RiskSpec => []RiskInv
<1>1. RiskInit => RiskInv
  BY DEF RiskInit, RiskInv
<1>2. RiskInv /\ [RiskNext]_riskVars => RiskInv'
  <2> SUFFICES ASSUME RiskInv, [RiskNext]_riskVars PROVE RiskInv'
    OBVIOUS
  <2>1. CASE Draw
    BY <2>1 DEF Draw, RiskInv, Judged
  <2>2. CASE Forget
    BY <2>2 DEF Forget, RiskInv
  <2>3. CASE UNCHANGED riskVars
    BY <2>3 DEF riskVars, RiskInv, Judged
  <2>4. QED
    BY <2>1, <2>2, <2>3 DEF RiskNext
<1>3. QED
  BY <1>1, <1>2, PTL DEF RiskSpec

(* Either switch refuses everything, for every input.                      *)
THEOREM SwitchesRefuse == RiskSpec => []EitherSwitchRefuses
<1>1. RiskInv => EitherSwitchRefuses
  <2> SUFFICES ASSUME RiskInv, Decided, drawn.base.halted \/ drawn.switch
               PROVE  ~decision.approved
    BY DEF EitherSwitchRefuses
  <2>1. PICK sig \in CaseSignals, a \in Accounts, base \in LimitSets, switch \in BOOLEAN,
             price \in Prices, value \in ContractValues :
               Judged(sig, a, base, switch, price, value)
    BY DEF RiskInv, Decided
  <2>2. base.halted \/ switch
    BY <2>1 DEF Judged
  <2>3. ApplyControlState(base, switch).halted
    BY <2>2, SwitchReachesLimits
  <2>4. QED
    BY <2>1, <2>3, HaltedNeverApproves DEF Judged
<1>2. QED
  BY <1>1, RiskInvariant, PTL

(* The capacity left is within both caps.                                  *)
LEMMA CapacityRespectsCaps ==
  ASSUME NEW a \in Accounts, NEW base \in LimitSets, NEW switch \in BOOLEAN, NEW s
  PROVE  LET l == ApplyControlState(base, switch)
             room == RemainingCapacity(a, l, s)
         IN  /\ room \in Nat
             /\ room <= AtLeast(l.maxNotional - a.exposure, 0)
             /\ l.maxPerSymbol > 0 /\ a.bySymbol # Unknown
                  => room <= AtLeast(l.maxPerSymbol - Existing(a, s), 0)
<1> DEFINE l == ApplyControlState(base, switch)
<1>1. l.maxNotional \in Int /\ l.maxPerSymbol \in Int
  BY LimitsStayTyped
<1>2. a.exposure \in Int
  BY RiskAssumption
<1>3. a.bySymbol # Unknown => Existing(a, s) \in Int
  BY RiskAssumption DEF Existing
<1> HIDE DEF l
<1>4. LET room == RemainingCapacity(a, l, s)
      IN  /\ room \in Nat
          /\ room <= AtLeast(l.maxNotional - a.exposure, 0)
          /\ l.maxPerSymbol > 0 /\ a.bySymbol # Unknown
               => room <= AtLeast(l.maxPerSymbol - Existing(a, s), 0)
  BY <1>1, <1>2, <1>3 DEF RemainingCapacity, AtLeast, AtMost
<1>5. QED
  BY <1>4 DEF l

(* The sizing computes whole amounts from whole amounts.                   *)
LEMMA DesiredIsInt ==
  ASSUME NEW sig \in CaseSignals, NEW a \in Accounts
  PROVE  DesiredNotional(sig, a, CaseFraction) \in Int
<1> DEFINE budget == AtLeast(a.equity * AtLeast(CaseFraction, 0), 0)
           entry  == AtLeast(sig.entry, 0)
           stop   == Distance(sig.entry, sig.stop)
<1>1. budget \in Int /\ entry \in Int /\ stop \in Int
  <2>1. /\ a.equity \in Int /\ CaseFraction \in Int /\ sig.entry \in Int /\ sig.stop \in Int
    BY RiskAssumption
  <2>2. AtLeast(CaseFraction, 0) \in Int
    BY <2>1 DEF AtLeast
  <2>3. a.equity * AtLeast(CaseFraction, 0) \in Int
    BY <2>1, <2>2
  <2>4. QED
    BY <2>1, <2>3 DEF AtLeast, Distance
<1> HIDE DEF budget, entry, stop
<1>2. budget \div 100 \in Int
  BY <1>1
<1>3. stop > 0 => 100 * stop \in Nat \ {0}
  BY <1>1
<1>4. budget * entry \in Int
  BY <1>1
<1>5. stop > 0 => (budget * entry) \div (100 * stop) \in Int
  BY <1>3, <1>4
<1>6. QED
  BY <1>2, <1>5 DEF DesiredNotional, budget, entry, stop

(* A size of at most the free amount, rounded, is past the cap by half a   *)
(* unit at most, and by nothing when the free amount is whole units.       *)
LEMMA RoundedFits ==
  ASSUME NEW cap \in Int, NEW taken \in Int, NEW room \in Int, NEW n \in Int,
         room <= AtLeast(cap - taken, 0), n > 0,
         2 * n <= 2 * room + Grain,
         \A y \in Int : room <= y /\ y % Grain = 0 => n <= y
  PROVE  /\ 2 * (taken + n - cap) <= Grain
         /\ (cap - taken) % Grain = 0 => taken + n <= cap
<1>1. Grain \in Nat \ {0}
  BY GrainAssumption
<1>2. CASE cap - taken >= 0
  <2>1. room <= cap - taken /\ cap - taken \in Int
    BY <1>2 DEF AtLeast
  <2>2. (cap - taken) % Grain = 0 => n <= cap - taken
    BY <2>1
  <2>3. QED
    BY <1>1, <2>1, <2>2
<1>3. CASE cap - taken < 0
  <2>1. room <= 0 /\ 0 % Grain = 0
    BY <1>1, <1>3 DEF AtLeast
  <2>2. n <= 0
    BY <2>1
  <2>3. QED
    BY <2>2
<1>4. QED
  BY <1>2, <1>3

(* What a proposal the service built has to do with the caps.              *)
LEMMA BuiltProposalFits ==
  ASSUME NEW sig \in CaseSignals, NEW a \in Accounts, NEW base \in LimitSets,
         NEW switch \in BOOLEAN
  PROVE  LET l == ApplyControlState(base, switch)
             p == BuildTradeProposal(sig, a, "okx_native", sig.symbol, l, CaseFraction)
         IN  /\ p.notional \in Int
             /\ p.notional > 0 =>
                  /\ 2 * (a.exposure + p.notional - l.maxNotional) <= Grain
                  /\ (l.maxNotional - a.exposure) % Grain = 0
                       => a.exposure + p.notional <= l.maxNotional
             /\ p.notional > 0 /\ l.maxPerSymbol > 0 /\ a.bySymbol # Unknown =>
                  /\ 2 * (Existing(a, p.symbol) + p.notional - l.maxPerSymbol) <= Grain
                  /\ (l.maxPerSymbol - Existing(a, p.symbol)) % Grain = 0
                       => Existing(a, p.symbol) + p.notional <= l.maxPerSymbol
             /\ 2 * (p.leverage - l.maxLeverage) <= Grain
<1> DEFINE l    == ApplyControlState(base, switch)
           p    == BuildTradeProposal(sig, a, "okx_native", sig.symbol, l, CaseFraction)
           room == RemainingCapacity(a, l, sig.symbol)
           v    == AtMost(AtLeast(sig.leverage, One), l.maxLeverage)
<1>1. /\ room \in Nat
      /\ room <= AtLeast(l.maxNotional - a.exposure, 0)
      /\ l.maxPerSymbol > 0 /\ a.bySymbol # Unknown
           => room <= AtLeast(l.maxPerSymbol - Existing(a, sig.symbol), 0)
  BY CapacityRespectsCaps
<1>2. DesiredNotional(sig, a, CaseFraction) \in Int
  BY DesiredIsInt
<1>3. /\ p.notional \in Int /\ 2 * p.notional <= 2 * room + Grain
      /\ \A y \in Int : room <= y /\ y % Grain = 0 => p.notional <= y
      /\ p.symbol = sig.symbol
  BY <1>1, <1>2, ProposalWithinCapacity
<1>4. l.maxNotional \in Int /\ l.maxPerSymbol \in Int /\ l.maxLeverage \in Int
      /\ a.exposure \in Int
  BY LimitsStayTyped, RiskAssumption
<1>5. a.bySymbol # Unknown => Existing(a, sig.symbol) \in Int
  BY RiskAssumption DEF Existing
<1>6. p.leverage = Rounded(v)
  BY DEF BuildTradeProposal
<1>7. v \in Int /\ v <= l.maxLeverage
  <2>1. sig.leverage \in Int /\ One \in Int
    BY RiskAssumption, GrainAssumption
  <2> HIDE DEF l
  <2>2. QED
    BY <1>4, <2>1 DEF AtMost, AtLeast
<1> HIDE DEF l, p, room, v
<1>8. 2 * (p.leverage - l.maxLeverage) <= Grain
  <2>1. Rounded(v) \in Int /\ 2 * Rounded(v) <= 2 * v + Grain
    BY <1>7, RoundedNear
  <2>2. QED
    BY <2>1, <1>4, <1>6, <1>7, GrainAssumption
<1> DEFINE Below(n) == \A y \in Int : room <= y /\ y % Grain = 0 => n <= y
<1>12. Below(p.notional) /\ room \in Int
  BY <1>1, <1>3
<1>13. \A cap, taken, n \in Int :
         room <= AtLeast(cap - taken, 0) /\ n > 0 /\ 2 * n <= 2 * room + Grain /\ Below(n)
           => /\ 2 * (taken + n - cap) <= Grain
              /\ (cap - taken) % Grain = 0 => taken + n <= cap
  BY <1>12, RoundedFits
<1> HIDE DEF Below
<1>9. p.notional > 0 =>
        /\ 2 * (a.exposure + p.notional - l.maxNotional) <= Grain
        /\ (l.maxNotional - a.exposure) % Grain = 0
             => a.exposure + p.notional <= l.maxNotional
  BY <1>1, <1>3, <1>4, <1>12, <1>13
<1>10. p.notional > 0 /\ l.maxPerSymbol > 0 /\ a.bySymbol # Unknown =>
         /\ 2 * (Existing(a, p.symbol) + p.notional - l.maxPerSymbol) <= Grain
         /\ (l.maxPerSymbol - Existing(a, p.symbol)) % Grain = 0
              => Existing(a, p.symbol) + p.notional <= l.maxPerSymbol
  BY <1>1, <1>3, <1>4, <1>5, <1>12, <1>13
<1>11. QED
  BY <1>3, <1>8, <1>9, <1>10 DEF l, p

(* Sizing and gate agree for every input, and every unit of rounding, up   *)
(* to half a unit.                                                         *)
THEOREM SizingMeetsGate == RiskSpec => []BuiltForTheGate
<1>1. RiskInv => BuiltForTheGate
  <2> SUFFICES ASSUME RiskInv, Decided PROVE BuiltForTheGate
    BY DEF BuiltForTheGate
  <2>1. PICK sig \in CaseSignals, a \in Accounts, base \in LimitSets, switch \in BOOLEAN,
             price \in Prices, value \in ContractValues :
               Judged(sig, a, base, switch, price, value)
    BY DEF RiskInv, Decided
  <2> DEFINE l == ApplyControlState(base, switch)
             p == BuildTradeProposal(sig, a, "okx_native", sig.symbol, l, CaseFraction)
  <2>2. drawn.account = a /\ drawn.limits = l /\ drawn.proposal = p
    BY <2>1 DEF Judged
  <2>3. /\ p.notional \in Int
        /\ p.notional > 0 =>
             /\ 2 * (a.exposure + p.notional - l.maxNotional) <= Grain
             /\ (l.maxNotional - a.exposure) % Grain = 0
                  => a.exposure + p.notional <= l.maxNotional
        /\ p.notional > 0 /\ l.maxPerSymbol > 0 /\ a.bySymbol # Unknown =>
             /\ 2 * (Existing(a, p.symbol) + p.notional - l.maxPerSymbol) <= Grain
             /\ (l.maxPerSymbol - Existing(a, p.symbol)) % Grain = 0
                  => Existing(a, p.symbol) + p.notional <= l.maxPerSymbol
        /\ 2 * (p.leverage - l.maxLeverage) <= Grain
    BY BuiltProposalFits
  <2>4. l.maxNotional \in Int /\ l.maxPerSymbol \in Int /\ a.exposure \in Int
    BY LimitsStayTyped, RiskAssumption
  <2>5. a.bySymbol # Unknown => Existing(a, p.symbol) \in Int
    BY RiskAssumption DEF Existing
  <2> HIDE DEF l, p
  <2>6. p.notional > 0 /\ (l.maxNotional - a.exposure) % Grain = 0
          => ~NotionalExceeded(p, a, l)
    BY <2>3, <2>4 DEF NotionalExceeded
  <2>7. p.notional > 0 /\ l.maxPerSymbol > 0 /\ a.bySymbol # Unknown =>
          ((l.maxPerSymbol - Existing(a, p.symbol)) % Grain = 0
             => ~SymbolCapExceeded(p, a, l))
    <3> SUFFICES ASSUME p.notional > 0, l.maxPerSymbol > 0, a.bySymbol # Unknown,
                        (l.maxPerSymbol - Existing(a, p.symbol)) % Grain = 0
                 PROVE  ~SymbolCapExceeded(p, a, l)
      OBVIOUS
    <3>1. Existing(a, p.symbol) + p.notional <= l.maxPerSymbol
      BY <2>3
    <3>2. Existing(a, p.symbol) \in Int
      BY <2>5
    <3>3. ~(Existing(a, p.symbol) + p.notional > l.maxPerSymbol)
      BY <2>3, <2>4, <3>1, <3>2
    <3>4. QED
      BY <3>3 DEF SymbolCapExceeded
  <2>8. QED
    BY <2>2, <2>3, <2>6, <2>7 DEF BuiltForTheGate
<1>2. QED
  BY <1>1, RiskInvariant, PTL

(* The size sent overshoots the approved notional by less than a contract. *)
THEOREM SizeOvershoot == RiskSpec => []SizeWithinOneContract
<1>1. RiskInv => SizeWithinOneContract
  <2> SUFFICES ASSUME RiskInv, Decided, decision.size > 0 PROVE SizeWithinOneContract
    BY DEF SizeWithinOneContract
  <2>1. PICK sig \in CaseSignals, a \in Accounts, base \in LimitSets, switch \in BOOLEAN,
             price \in Prices, value \in ContractValues :
               Judged(sig, a, base, switch, price, value)
    BY DEF RiskInv, Decided
  <2> DEFINE l == ApplyControlState(base, switch)
             p == BuildTradeProposal(sig, a, "okx_native", sig.symbol, l, CaseFraction)
             n == p.notional
             d == price * value
  <2>2. /\ drawn.proposal = p /\ drawn.price = price /\ drawn.value = value
        /\ decision.size = IF Sizable(price, value) /\ n > 0
                           THEN ContractSize(n, price, value) ELSE 0
    BY <2>1 DEF Judged
  <2>3. n \in Int /\ price \in Int /\ value \in Int
    BY BuiltProposalFits, RiskAssumption
  <2> HIDE DEF n
  <2>4. n > 0 /\ price > 0 /\ value > 0 /\ decision.size = ContractSize(n, price, value)
    BY <2>2, <2>3 DEF Sizable
  <2>5. d \in Nat \ {0} /\ n \in Nat
    BY <2>3, <2>4
  <2>6. decision.size = AtLeast(RoundHalfEven(n, d), 1)
    BY <2>4 DEF ContractSize
  <2> HIDE DEF d
  <2>7. RoundHalfEven(n, d) \in Nat /\ RoundHalfEven(n, d) * d <= n + d
    <3>1. RoundHalfEven(n, d) \in Nat /\ 2 * (d * RoundHalfEven(n, d)) <= 2 * n + d
      BY <2>5, RoundingError
    <3>2. QED
      BY <2>5, <3>1
  <2>8. decision.size * d <= n + d
    BY <2>5, <2>6, <2>7 DEF AtLeast
  <2>9. QED
    BY <2>2, <2>8 DEF SizeWithinOneContract, d, n
<1>2. QED
  BY <1>1, RiskInvariant, PTL

Limit == [maxNotional : Int, maxLeverage : Int, dailyLoss : Int,
          maxSlippage : Int, minEquity : Int, halted : BOOLEAN,
          minMarginRatio : Int, maxUtilization : Int, minAvailable : Int,
          maxPerSymbol : Int, minDistance : Int, maxOpen : Int]

LEMMA LimitsAreLimits ==
  ASSUME NEW base \in LimitSets, NEW switch \in BOOLEAN
  PROVE  ApplyControlState(base, switch) \in Limit
BY RiskAssumption DEF ApplyControlState, Limit

(* A CLOSE is judged as if the two guards on new positions were off.       *)
LEMMA ClosesIgnoreGuards ==
  ASSUME NEW p, NEW a, NEW l, NEW allow, p.action = "CLOSE",
         l \in Limit
  PROVE  Approved(p, a, l, allow) <=>
           Approved(p, a, [l EXCEPT !.minDistance = 0, !.maxOpen = 0], allow)
<1> DEFINE m == [l EXCEPT !.minDistance = 0, !.maxOpen = 0]
<1>1. /\ m.maxNotional = l.maxNotional /\ m.maxLeverage = l.maxLeverage
      /\ m.dailyLoss = l.dailyLoss /\ m.maxSlippage = l.maxSlippage
      /\ m.minEquity = l.minEquity /\ m.halted = l.halted
      /\ m.minMarginRatio = l.minMarginRatio /\ m.maxUtilization = l.maxUtilization
      /\ m.minAvailable = l.minAvailable /\ m.maxPerSymbol = l.maxPerSymbol
  BY DEF Limit
<1> HIDE DEF m
<1>2. ~TooManyPositions(p, a, l) /\ ~TooManyPositions(p, a, m)
  BY DEF TooManyPositions
<1>3. ~NearLiquidation(p, a, l) /\ ~NearLiquidation(p, a, m)
  BY DEF NearLiquidation
<1>4. /\ OutOfRange(p, l) <=> OutOfRange(p, m)
      /\ AccountUnfit(a, l) <=> AccountUnfit(a, m)
      /\ NotionalExceeded(p, a, l) <=> NotionalExceeded(p, a, m)
      /\ SymbolCapExceeded(p, a, l) <=> SymbolCapExceeded(p, a, m)
      /\ MarginExceeded(p, a, l) <=> MarginExceeded(p, a, m)
  BY <1>1 DEF OutOfRange, AccountUnfit, NotionalExceeded, SymbolCapExceeded, MarginExceeded
<1>5. Approved(p, a, l, allow) <=> Approved(p, a, m, allow)
  BY <1>1, <1>2, <1>3, <1>4 DEF Approved
<1>6. QED
  BY <1>5 DEF m

(* The guards on new positions never keep anyone from closing one.         *)
THEOREM ClosesAreSpared == RiskSpec => []GuardsSpareCloses
<1>1. RiskInv => GuardsSpareCloses
  <2> SUFFICES ASSUME RiskInv, Decided, drawn.proposal.action = "CLOSE"
               PROVE  GuardsSpareCloses
    BY DEF GuardsSpareCloses
  <2>1. PICK sig \in CaseSignals, a \in Accounts, base \in LimitSets, switch \in BOOLEAN,
             price \in Prices, value \in ContractValues :
               Judged(sig, a, base, switch, price, value)
    BY DEF RiskInv, Decided
  <2> DEFINE l == ApplyControlState(base, switch)
             p == BuildTradeProposal(sig, a, "okx_native", sig.symbol, l, CaseFraction)
  <2>2. /\ drawn.account = a /\ drawn.limits = l /\ drawn.proposal = p
        /\ decision.approved = Approved(p, a, l, Allow)
    BY <2>1 DEF Judged
  <2>3. l \in Limit
    BY LimitsAreLimits
  <2> HIDE DEF l, p
  <2>4. p.action = "CLOSE"
    BY <2>2
  <2>5. Approved(p, a, l, Allow) <=>
          Approved(p, a, [l EXCEPT !.minDistance = 0, !.maxOpen = 0], Allow)
    BY <2>3, <2>4, ClosesIgnoreGuards
  <2>6. QED
    BY <2>2, <2>5 DEF GuardsSpareCloses
<1>2. QED
  BY <1>1, RiskInvariant, PTL

-----------------------------------------------------------------------------
(* The walk.                                                               *)

-----------------------------------------------------------------------------
(* Types. *)

Spellings == {sig.side : sig \in Signals}

Positions == [notional : Nat \ {0}, side : Spellings, stop : Int, target : Int,
              entry : Int, entered : 0..MaxTs]
Trades == [side : Spellings, stop : Int, entered : 0..MaxTs, exited : Int, price : Int,
           pnl : Int, reason : {"triggered", "end_of_data"}, bar : BarKinds \cup {NoBar}]

CountRecords == [total : Nat, approved : Nat, blocked : Nat]

BacktestTypeOK ==
  /\ ts \in 0..MaxTs /\ half \in {"exits", "entries", "finish", "over"}
  /\ todo \in Seq(Symbols)
  /\ barAt \in [Symbols -> BarKinds \cup {NoBar}]
  /\ lastBar \in [Symbols -> [ts : Int, close : Int]]
  /\ equity \in Int /\ entryFees \in Int
  /\ position \in [Symbols -> Positions \cup {NoPosition}]
  /\ trades \in Seq(Trades)
  /\ counts \in CountRecords

(* What is still to be closed is held, and is on the list once.            *)
ListInOrder ==
  /\ half \in {"exits", "finish"} =>
       /\ \A i \in 1..Len(todo) : todo[i] \in Held
       /\ \A i, j \in 1..Len(todo) : i # j => todo[i] # todo[j]
  /\ half = "over" => todo = <<>>

(* A position is no newer than the bar, and older where exits are checked. *)
EnteredEarlier ==
  \A s \in Held : /\ position[s].entered <= ts
                  /\ half = "exits" => position[s].entered < ts

Balanced == equity = InitialEquity + Pnl - entryFees

WalkInv ==
  /\ BacktestTypeOK /\ ListInOrder /\ EnteredEarlier
  /\ ExitsInOrder /\ CapsHold /\ CountsAddUp /\ Balanced

-----------------------------------------------------------------------------
(* Money is counted in integers.                                           *)

LEMMA Divides == \A a \in Int : a \div 100 \in Int
OBVIOUS

LEMMA FeeIsInt == ASSUME NEW n \in Int PROVE FeeOf(n) \in Int
<1>1. Fee \in Int
  BY BacktestAssumption
<1>2. n * Fee \in Int
  BY <1>1
<1>3. QED
  BY <1>2, Divides DEF FeeOf

LEMMA PnlIsInt ==
  ASSUME NEW p \in Positions, NEW price \in Int
  PROVE  PnlOf(p, price) \in Int
<1> DEFINE move == IF p.side = "buy" THEN price - p.entry ELSE p.entry - price
<1>1. p.entry \in Int /\ p.notional \in Int /\ move \in Int
  BY DEF Positions
<1>2. move * p.notional \in Int /\ FeeOf(p.notional) \in Int
  BY <1>1, FeeIsInt
<1>3. \A a \in Int, b \in Int : b > 0 => a \div b \in Int
  OBVIOUS
<1>4. p.entry > 0 => (move * p.notional) \div p.entry \in Int
  <2> HIDE DEF move
  <2> QED
    BY <1>1, <1>2, <1>3
<1>5. PnlOf(p, price) = IF p.entry <= 0 THEN 0
                        ELSE (move * p.notional) \div p.entry - FeeOf(p.notional)
  BY DEF PnlOf
<1>6. QED
  <2> HIDE DEF move
  <2> QED
    BY <1>1, <1>2, <1>4, <1>5

LEMMA HeldIsPosition ==
  ASSUME BacktestTypeOK, NEW s \in Held
  PROVE  s \in Symbols /\ position[s] \in Positions
BY DEF BacktestTypeOK, Held

-----------------------------------------------------------------------------
(* The result of the trades, as a sum.                                     *)

PnlTable(T, g) ==
  g = [s \in SUBSET DOMAIN T |-> IF s = {} THEN 0
                                ELSE T[Pick(s)].pnl + g[s \ {Pick(s)}]]

LEMMA TotalUnfolds ==
  ASSUME NEW T
  PROVE  TotalPnl(T) = (CHOOSE g : PnlTable(T, g))[DOMAIN T]
BY DEF TotalPnl, FoldSeq, FoldFunction, FoldFunctionOnSet, MapThenFoldSet, PnlTable, Pick

Results(T) == [i \in DOMAIN T |-> T[i].pnl]

LEMMA PnlTables ==
  ASSUME NEW T, NEW g
  PROVE  PnlTable(T, g) <=> IsSumTable(Results(T), DOMAIN T, g)
<1> DEFINE A(s) == IF s = {} THEN 0 ELSE T[Pick(s)].pnl + g[s \ {Pick(s)}]
           B(s) == IF s = {} THEN 0 ELSE Results(T)[Pick(s)] + g[s \ {Pick(s)}]
<1>1. ASSUME NEW s \in SUBSET DOMAIN T
      PROVE  A(s) = B(s)
  <2>1. CASE s = {}
    BY <2>1
  <2>2. CASE s # {}
    <3>1. Pick(s) \in DOMAIN T
      BY <2>2 DEF Pick
    <3>2. QED
      BY <2>2, <3>1 DEF Results
  <2>3. QED
    BY <2>1, <2>2
<1>2. [s \in SUBSET DOMAIN T |-> A(s)] = [s \in SUBSET DOMAIN T |-> B(s)]
  <2> HIDE DEF A, B
  <2> QED
    BY <1>1
<1>3. QED
  BY <1>2 DEF PnlTable, IsSumTable

LEMMA TotalIsSum ==
  ASSUME NEW T, IsFiniteSet(DOMAIN T)
  PROVE  TotalPnl(T) = SumFunctionOnSet(Results(T), DOMAIN T)
<1>1. PICK g : PnlTable(T, g)
  BY TableExists, PnlTables
<1>2. PnlTable(T, CHOOSE h : PnlTable(T, h))
  BY <1>1
<1>3. TotalPnl(T) = (CHOOSE h : PnlTable(T, h))[DOMAIN T]
  BY TotalUnfolds
<1> DEFINE k == CHOOSE h : PnlTable(T, h)
<1>4. IsSumTable(Results(T), DOMAIN T, k)
  <2> HIDE DEF k
  <2> SUFFICES PnlTable(T, k)
    BY PnlTables
  <2> QED
    BY <1>2 DEF k
<1>5. QED
  <2> HIDE DEF k
  <2>1. k[DOMAIN T] = SumFunctionOnSet(Results(T), DOMAIN T)
    BY <1>4, TableGivesSum
  <2>2. TotalPnl(T) = k[DOMAIN T]
    BY <1>3 DEF k
  <2>3. QED
    BY <2>1, <2>2

LEMMA TotalEmpty == TotalPnl(<<>>) = 0
<1>1. DOMAIN <<>> = {} /\ IsFiniteSet({})
  BY FS_EmptySet
<1>2. TotalPnl(<<>>) = SumFunctionOnSet(Results(<<>>), {})
  BY <1>1, TotalIsSum
<1>3. QED
  BY <1>2, SumEmpty

LEMMA TotalIsInt == ASSUME NEW T \in Seq(Trades) PROVE TotalPnl(T) \in Int
<1>1. DOMAIN T = 1..Len(T) /\ Len(T) \in Nat /\ \A i \in DOMAIN T : T[i] \in Trades
  OBVIOUS
<1>2. IsFiniteSet(DOMAIN T)
  BY <1>1, FS_Interval
<1>3. \A i \in DOMAIN T : Results(T)[i] \in Int
  BY <1>1 DEF Results, Trades
<1>4. QED
  BY <1>2, <1>3, SumIsInt, TotalIsSum

LEMMA TotalAppended ==
  ASSUME NEW T \in Seq(Trades), NEW t \in Trades
  PROVE  TotalPnl(T) \in Int /\ TotalPnl(Append(T, t)) = TotalPnl(T) + t.pnl
<1> DEFINE n == Len(T)
           U == Append(T, t)
<1>1. /\ n \in Nat /\ DOMAIN T = 1..n /\ U \in Seq(Trades) /\ DOMAIN U = 1..(n + 1)
      /\ U[n + 1] = t /\ \A i \in 1..n : U[i] = T[i] /\ T[i] \in Trades
  OBVIOUS
<1>2. IsFiniteSet(1..n) /\ IsFiniteSet(1..(n + 1))
  BY <1>1, FS_Interval
<1> HIDE DEF n, U
<1>3. \A i \in 1..n : Results(T)[i] \in Int /\ Results(T)[i] = Results(U)[i]
  <2> SUFFICES ASSUME NEW i \in 1..n
               PROVE  Results(T)[i] \in Int /\ Results(T)[i] = Results(U)[i]
    OBVIOUS
  <2>1. i \in 1..(n + 1) /\ T[i] \in Trades /\ U[i] = T[i]
    BY <1>1
  <2>2. Results(T)[i] = T[i].pnl /\ Results(U)[i] = U[i].pnl
    BY <1>1, <2>1 DEF Results
  <2>3. QED
    BY <2>1, <2>2 DEF Trades
<1>4. Results(U)[n + 1] = t.pnl /\ t.pnl \in Int
  BY <1>1 DEF Results, Trades
<1>5. \A i \in 1..(n + 1) : Results(U)[i] \in Int
  BY <1>1, <1>3, <1>4
<1>6. (1..(n + 1)) \ {n + 1} = 1..n /\ n + 1 \in 1..(n + 1)
  BY <1>1
<1>7. SumFunctionOnSet(Results(U), 1..(n + 1)) = t.pnl + SumFunctionOnSet(Results(U), 1..n)
  <2>1. SumFunctionOnSet(Results(U), 1..(n + 1))
          = Results(U)[n + 1] + SumFunctionOnSet(Results(U), (1..(n + 1)) \ {n + 1})
    BY <1>2, <1>5, <1>6, SumWithout
  <2>2. QED
    BY <2>1, <1>4, <1>6
<1>8. SumFunctionOnSet(Results(T), 1..n) = SumFunctionOnSet(Results(U), 1..n)
  BY <1>2, <1>3, SumSame
<1>9. SumFunctionOnSet(Results(T), 1..n) \in Int
  BY <1>2, <1>3, SumIsInt
<1>10. /\ TotalPnl(T) = SumFunctionOnSet(Results(T), 1..n)
       /\ TotalPnl(U) = SumFunctionOnSet(Results(U), 1..(n + 1))
  BY <1>1, <1>2, TotalIsSum
<1>11. TotalPnl(T) \in Int /\ TotalPnl(U) = TotalPnl(T) + t.pnl
  BY <1>4, <1>7, <1>8, <1>9, <1>10
<1>12. QED
  BY <1>11 DEF U
-----------------------------------------------------------------------------
(* The exposure, as a sum over the positions.                              *)

Notionals == [s \in Symbols |-> position[s].notional]

LEMMA NotionalsAreNat ==
  ASSUME BacktestTypeOK
  PROVE  /\ \A s \in Symbols : Notionals[s] \in Nat
         /\ Exposure \in Int
<1>1. \A s \in Symbols : Notionals[s] \in Nat
  BY DEF Notionals, BacktestTypeOK, Positions, NoPosition
<1>2. IsFiniteSet(Symbols)
  BY BacktestAssumption
<1>3. SumFunctionOnSet(Notionals, Symbols) \in Int
  BY <1>1, <1>2, SumIsInt
<1>4. QED
  BY <1>1, <1>3 DEF Exposure, Notionals

(* An entry that is approved fits the caps.                                *)
LEMMA EntryFits ==
  ASSUME BacktestTypeOK, NEW s \in Symbols, s \notin Held, NEW sig \in Signals,
         Approved(ProposalFor(s, sig), SimulatedAccount, Limits, {})
  PROVE  /\ ProposalFor(s, sig).notional \in Nat \ {0}
         /\ Exposure + ProposalFor(s, sig).notional <= Limits.maxNotional
         /\ Limits.maxPerSymbol > 0 =>
              2 * (ProposalFor(s, sig).notional - Limits.maxPerSymbol) <= Grain
<1> DEFINE p == ProposalFor(s, sig)
<1>1. p.notional = Sizing(s)
  BY DEF ProposalFor
<1>2. Exposure \in Int /\ position[s].notional = 0
  BY NotionalsAreNat DEF BacktestTypeOK, Held, NoPosition
<1>3. /\ Candidate(s) \in Int
      /\ Limits.maxPerSymbol > 0 => Candidate(s) <= Limits.maxPerSymbol
  <2>1. equity * AtLeast(Fraction, 0) \in Int
    BY BacktestAssumption DEF BacktestTypeOK, AtLeast
  <2>2. (equity * AtLeast(Fraction, 0)) \div 100 \in Int
    <3> DEFINE m == equity * AtLeast(Fraction, 0)
    <3> HIDE DEF m
    <3>1. m \in Int
      BY <2>1 DEF m
    <3>2. QED
      BY <3>1, Divides DEF m
  <2>3. QED
    <3> DEFINE budget == (equity * AtLeast(Fraction, 0)) \div 100
    <3>1. budget \in Int
      BY <2>2
    <3>2. Candidate(s) = LET whole == AtMost(budget, AtLeast(Limits.maxNotional - Exposure, 0))
                         IN IF Limits.maxPerSymbol > 0
                            THEN AtMost(whole, AtLeast(Limits.maxPerSymbol - position[s].notional, 0))
                            ELSE whole
      BY DEF Candidate
    <3> HIDE DEF budget
    <3>3. QED
      BY <3>1, <3>2, <1>2, BacktestAssumption DEF AtMost, AtLeast
<1>4. Sizing(s) \in Int /\ 2 * Sizing(s) <= 2 * Candidate(s) + Grain
  BY <1>3, RoundedNear DEF Sizing
<1>5. p.notional > 0 /\ Exposure + p.notional <= Limits.maxNotional
  <2>1. ~ OutOfRange(p, Limits) /\ ~ NotionalExceeded(p, SimulatedAccount, Limits)
    BY DEF Approved
  <2>2. SimulatedAccount.exposure = Exposure
    BY DEF SimulatedAccount
  <2> HIDE DEF p
  <2>3. QED
    BY <2>1, <2>2, <1>1, <1>2, <1>4, BacktestAssumption DEF OutOfRange, NotionalExceeded
<1>6. Limits.maxPerSymbol > 0 => 2 * (Sizing(s) - Limits.maxPerSymbol) <= Grain
  <2>1. Limits.maxPerSymbol \in Int /\ Grain \in Int
    BY BacktestAssumption, GrainAssumption
  <2>2. QED
    BY <2>1, <1>3, <1>4
<1>7. QED
  <2> HIDE DEF p
  <2> QED
    BY <1>1, <1>4, <1>5, <1>6 DEF p
-----------------------------------------------------------------------------
(* What an entry and an exit do, case by case.                             *)

LEMMA OpenedIsPosition ==
  ASSUME BacktestTypeOK, NEW s \in Symbols, barAt[s] # NoBar, NEW sig \in Signals, NEW p,
         p.notional \in Nat \ {0}
  PROVE  Opened(s, sig, p) \in Positions
<1>1. barAt[s].close \in Int
  BY BacktestAssumption DEF BacktestTypeOK
<1>2. Filled(sig.side, barAt[s].close) \in Int
  <2>1. \A c \in Int, k \in Int : (c * k) \div 100 \in Int
    OBVIOUS
  <2>2. 100 + Slip \in Int /\ 100 - Slip \in Int
    BY BacktestAssumption
  <2>3. QED
    BY <1>1, <2>1, <2>2 DEF Filled
<1>3. QED
  BY <1>2, BacktestAssumption DEF Opened, Positions, Spellings, BacktestTypeOK

Opens(s, o) ==
  /\ o \in Positions /\ o.entered = ts
  /\ Exposure + o.notional <= Limits.maxNotional
  /\ Limits.maxPerSymbol > 0 => 2 * (o.notional - Limits.maxPerSymbol) <= Grain
  /\ position' = [position EXCEPT ![s] = o]
  /\ equity' = equity - FeeOf(o.notional) /\ entryFees' = entryFees + FeeOf(o.notional)
  /\ counts'.approved = counts.approved + 1 /\ counts'.blocked = counts.blocked

OpensNothing ==
  /\ UNCHANGED <<position, equity, entryFees>>
  /\ counts'.approved = counts.approved /\ counts'.blocked = counts.blocked + 1

LEMMA Counted ==
  ASSUME NEW c \in CountRecords, NEW x \in Nat, NEW y \in Nat, NEW d,
         d = [total |-> c.total + 1, approved |-> c.approved + y, blocked |-> c.blocked + x]
  PROVE  d \in CountRecords /\ d.total = c.total + 1 /\ d.blocked = c.blocked + x
         /\ d.approved = c.approved + y
<1>1. c.total \in Nat /\ c.blocked \in Nat /\ c.approved \in Nat
  BY DEF CountRecords
<1>2. QED
  BY <1>1 DEF CountRecords

LEMMA Entering ==
  ASSUME BacktestTypeOK, NEW sig \in Signals, Enter(sig)
  PROVE  /\ half = "entries" /\ todo # <<>> /\ todo' = Tail(todo)
         /\ UNCHANGED <<marketVars, half, trades>>
         /\ counts' \in CountRecords
         /\ counts'.total = counts.total + 1
         /\ OpensNothing \/ \E s \in Symbols \ Held, o \in Positions : Opens(s, o)
<1> DEFINE s == Head(todo)
           p == ProposalFor(s, sig)
           ok == Approved(p, SimulatedAccount, Limits, {})
<1>1. s \in Symbols /\ s \notin Held /\ barAt[s] # NoBar
  BY DEF Enter, BacktestTypeOK
<1>2. counts' = [counts EXCEPT !.total = @ + 1, !.blocked = @ + IF ok THEN 0 ELSE 1,
                               !.approved = @ + IF ok /\ p.notional > 0 THEN 1 ELSE 0]
  BY DEF Enter
<1>3. counts \in CountRecords
  BY DEF BacktestTypeOK
<1>4. half = "entries" /\ todo # <<>> /\ todo' = Tail(todo) /\ UNCHANGED <<marketVars, half, trades>>
  BY DEF Enter
<1>5. IF ok /\ p.notional > 0
      THEN /\ position' = [position EXCEPT ![s] = Opened(s, sig, p)]
           /\ equity' = equity - FeeOf(p.notional)
           /\ entryFees' = entryFees + FeeOf(p.notional)
      ELSE UNCHANGED <<position, equity, entryFees>>
  BY DEF Enter
<1>6. CASE ~ ok
  <2>1. counts' = [counts EXCEPT !.total = @ + 1, !.blocked = @ + 1, !.approved = @ + 0]
    BY <1>2, <1>6
  <2>2. UNCHANGED <<position, equity, entryFees>>
    BY <1>5, <1>6
  <2> HIDE DEF ok, p, s
  <2>3. /\ counts' \in CountRecords /\ counts'.total = counts.total + 1
        /\ counts'.blocked = counts.blocked + 1 /\ counts'.approved = counts.approved + 0
    <3>1. counts' = [total |-> counts.total + 1, approved |-> counts.approved + 0,
                     blocked |-> counts.blocked + 1]
      BY <1>3, <2>1 DEF CountRecords
    <3>2. QED
      BY <1>3, <3>1, Counted
  <2>4. counts.approved + 0 = counts.approved
    BY <1>3 DEF CountRecords
  <2>5. QED
    BY <1>4, <2>2, <2>3, <2>4 DEF OpensNothing
<1>7. CASE ok
  <2>1. /\ p.notional \in Nat \ {0} /\ Exposure + p.notional <= Limits.maxNotional
        /\ Limits.maxPerSymbol > 0 => 2 * (p.notional - Limits.maxPerSymbol) <= Grain
    BY <1>1, <1>7, EntryFits
  <2>2. Opened(s, sig, p) \in Positions
    BY <1>1, <2>1, OpenedIsPosition
  <2>3. Opened(s, sig, p).notional = p.notional /\ Opened(s, sig, p).entered = ts
    BY DEF Opened
  <2>4. ok /\ p.notional > 0
    BY <1>7, <2>1
  <2>5. counts' = [counts EXCEPT !.total = @ + 1, !.blocked = @ + 0, !.approved = @ + 1]
    BY <1>2, <2>4
  <2>6. /\ position' = [position EXCEPT ![s] = Opened(s, sig, p)]
        /\ equity' = equity - FeeOf(p.notional) /\ entryFees' = entryFees + FeeOf(p.notional)
    BY <1>5, <2>4
  <2> HIDE DEF ok, p, s
  <2>7. /\ counts' \in CountRecords
        /\ counts'.total = counts.total + 1
        /\ counts'.approved = counts.approved + 1 /\ counts'.blocked = counts.blocked
    <3>1. /\ counts' \in CountRecords /\ counts'.total = counts.total + 1
          /\ counts'.blocked = counts.blocked + 0 /\ counts'.approved = counts.approved + 1
      <4>1. counts' = [total |-> counts.total + 1, approved |-> counts.approved + 1,
                       blocked |-> counts.blocked + 0]
        BY <1>3, <2>5 DEF CountRecords
      <4>2. QED
        BY <1>3, <4>1, Counted
    <3>2. counts.blocked + 0 = counts.blocked
      BY <1>3 DEF CountRecords
    <3>3. QED
      BY <3>1, <3>2
  <2>8. Opens(s, Opened(s, sig, p))
    BY <2>1, <2>2, <2>3, <2>6, <2>7 DEF Opens
  <2>9. QED
    BY <1>1, <1>4, <2>2, <2>7, <2>8
<1>8. QED
  BY <1>6, <1>7

LEMMA TradeOfPosition ==
  ASSUME BacktestTypeOK, NEW s \in Held, NEW price \in Int, NEW at \in Int,
         NEW reason \in {"triggered", "end_of_data"}, NEW b \in BarKinds \cup {NoBar}
  PROVE  /\ Trade(s, price, at, reason, b) \in Trades
         /\ Trade(s, price, at, reason, b).pnl = PnlOf(position[s], price)
<1>1. position[s] \in Positions
  BY HeldIsPosition
<1>2. PnlOf(position[s], price) \in Int
  BY <1>1, PnlIsInt
<1>3. QED
  BY <1>1, <1>2 DEF Trade, Trades, Positions

Closes(s, t) ==
  /\ s \in Held /\ t \in Trades
  /\ equity' = equity + t.pnl /\ trades' = Append(trades, t)

\* A stop or target closed s: what the trade says.
ClosedBy(s, t) ==
  /\ t.reason = "triggered" /\ t.entered = position[s].entered /\ t.exited = ts
  /\ StopHit(t, t.bar) => t.price = t.stop

LEMMA Exiting ==
  ASSUME BacktestTypeOK, ListInOrder, CheckExit
  PROVE  /\ half = "exits" /\ todo # <<>> /\ todo' = Tail(todo) /\ Head(todo) \in Held
         /\ UNCHANGED <<marketVars, half, counts, entryFees>>
         /\ \/ UNCHANGED <<equity, trades, position>>
            \/ \E t \in Trades : /\ Closes(Head(todo), t) /\ ClosedBy(Head(todo), t)
                                /\ position' = [position EXCEPT ![Head(todo)] = NoPosition]
<1> DEFINE s == Head(todo)
           b == barAt[s]
           price == ExitPrice(position[s], b)
<1>1. half = "exits" /\ todo # <<>> /\ todo' = Tail(todo)
      /\ UNCHANGED <<marketVars, half, counts, entryFees>>
  BY DEF CheckExit
<1>2. s \in Held
  BY <1>1 DEF ListInOrder, BacktestTypeOK
<1>3. position[s] \in Positions /\ b \in BarKinds \cup {NoBar} /\ ts \in Int
  BY <1>2, HeldIsPosition, BacktestAssumption DEF BacktestTypeOK
<1>4. price \in Int
  BY <1>3 DEF ExitPrice, Positions
<1>5. IF b # NoBar /\ Exits(position[s], b)
      THEN /\ equity' = equity + PnlOf(position[s], price)
           /\ trades' = Append(trades, Trade(s, price, ts, "triggered", b))
           /\ position' = [position EXCEPT ![s] = NoPosition]
      ELSE UNCHANGED <<equity, trades, position>>
  BY DEF CheckExit
<1>6. CASE ~(b # NoBar /\ Exits(position[s], b))
  BY <1>1, <1>2, <1>5, <1>6
<1>7. CASE b # NoBar /\ Exits(position[s], b)
  <2> DEFINE t == Trade(s, price, ts, "triggered", b)
  <2>1. t \in Trades /\ t.pnl = PnlOf(position[s], price)
    <3> HIDE DEF s, b, price
    <3> QED
      BY <1>2, <1>3, <1>4, TradeOfPosition
  <2>2. /\ t.reason = "triggered" /\ t.entered = position[s].entered /\ t.exited = ts
        /\ t.price = price /\ t.stop = position[s].stop /\ t.side = position[s].side /\ t.bar = b
    BY DEF Trade
  <2>3. StopHit(t, t.bar) => StopHit(position[s], b)
    <3> HIDE DEF s, b, price, t
    <3> QED
      BY <2>2 DEF StopHit
  <2>4. ClosedBy(s, t)
    <3>1. StopHit(position[s], b) => price = position[s].stop
      BY DEF ExitPrice
    <3> HIDE DEF s, b, price, t
    <3>2. QED
      BY <2>2, <2>3, <3>1 DEF ClosedBy
  <2>5. Closes(s, t)
    BY <1>2, <1>5, <1>7, <2>1 DEF Closes
  <2>6. position' = [position EXCEPT ![s] = NoPosition]
    BY <1>5, <1>7
  <2> HIDE DEF t
  <2>7. QED
    BY <1>1, <1>2, <2>1, <2>4, <2>5, <2>6
<1>8. QED
  BY <1>6, <1>7

LEMMA ClosingRest ==
  ASSUME BacktestTypeOK, ListInOrder, CloseRemaining
  PROVE  /\ half = "finish" /\ todo # <<>> /\ todo' = Tail(todo)
         /\ UNCHANGED <<marketVars, half, position, counts, entryFees>>
         /\ \E t \in Trades : Closes(Head(todo), t) /\ t.reason = "end_of_data"
<1> DEFINE s == Head(todo)
           t == Trade(s, lastBar[s].close, lastBar[s].ts, "end_of_data", NoBar)
<1>1. /\ half = "finish" /\ todo # <<>> /\ todo' = Tail(todo)
      /\ UNCHANGED <<marketVars, half, position, counts, entryFees>>
      /\ equity' = equity + PnlOf(position[s], lastBar[s].close)
      /\ trades' = Append(trades, t)
  BY DEF CloseRemaining
<1>2. s \in Held
  BY <1>1 DEF ListInOrder, BacktestTypeOK
<1>3. lastBar[s].close \in Int /\ lastBar[s].ts \in Int
  BY <1>2, HeldIsPosition DEF BacktestTypeOK
<1>4. t \in Trades /\ t.pnl = PnlOf(position[s], lastBar[s].close)
  <2> HIDE DEF s
  <2> QED
    BY <1>2, <1>3, TradeOfPosition
<1>5. t.reason = "end_of_data"
  BY DEF Trade
<1>6. Closes(s, t)
  <2> HIDE DEF s, t
  <2> QED
    BY <1>1, <1>2, <1>4 DEF Closes
<1>7. QED
  <2> HIDE DEF t
  <2> QED
    BY <1>1, <1>4, <1>5, <1>6
-----------------------------------------------------------------------------
(* The steps, property by property.  A step is an exit, an entry, a close  *)
(* at the end, or leaves the books alone.                                  *)

Books == <<equity, position, trades, counts, entryFees>>

\* The list begins anew, loses its head, or stays.
QuietList ==
  \/ NextTs \/ ExitsDone \/ Finish
  \/ NoEntry
  \/ Report \/ UNCHANGED backtestVars

LEMMA Steps ==
  ASSUME [BacktestNext]_backtestVars
  PROVE  \/ CheckExit \/ CloseRemaining \/ (\E sig \in Signals : Enter(sig))
         \/ QuietList /\ UNCHANGED Books
<1>1. NextTs \/ ExitsDone \/ Finish \/ NoEntry \/ Report \/ UNCHANGED backtestVars => UNCHANGED Books
  BY DEF NextTs, ExitsDone, Finish, NoEntry, Report, backtestVars, Books
<1>2. QED
  BY <1>1 DEF BacktestNext, QuietList

LEMMA HeldInOrder ==
  /\ IsFiniteSet(Held) /\ Cardinality(Held) \in Nat
  /\ SetToSeq(Held) \in Seq(Held) /\ Len(SetToSeq(Held)) = Cardinality(Held)
  /\ \A i, j \in 1..Len(SetToSeq(Held)) : i # j => SetToSeq(Held)[i] # SetToSeq(Held)[j]
<1>1. IsFiniteSet(Held)
  BY BacktestAssumption, FS_Subset DEF Held
<1>2. QED
  BY <1>1, SetInOrder

LEMMA TailOfList ==
  ASSUME NEW S, NEW q \in Seq(S), q # <<>>
  PROVE  /\ Head(q) \in S /\ Tail(q) \in Seq(S) /\ Len(Tail(q)) = Len(q) - 1 /\ Len(q) \in Nat \ {0}
         /\ \A i \in 1..Len(Tail(q)) : Tail(q)[i] = q[i + 1] /\ i + 1 \in 1..Len(q)
         /\ Head(q) = q[1] /\ 1 \in 1..Len(q)
OBVIOUS

LEMMA TailStays ==
  ASSUME BacktestTypeOK, todo # <<>>
  PROVE  Tail(todo) \in Seq(Symbols)
BY DEF BacktestTypeOK

LEMMA TypeStep ==
  ASSUME BacktestTypeOK, ListInOrder, [BacktestNext]_backtestVars
  PROVE  BacktestTypeOK'
<1>1. CASE CheckExit
  <2>1. todo' \in Seq(Symbols)
    BY <1>1, Exiting, TailStays
  <2>2. UNCHANGED <<ts, barAt, lastBar, half, counts, entryFees>>
    BY <1>1, Exiting DEF marketVars
  <2>3. CASE UNCHANGED <<equity, trades, position>>
    BY <2>1, <2>2, <2>3 DEF BacktestTypeOK
  <2>4. ASSUME NEW t \in Trades, Closes(Head(todo), t),
               position' = [position EXCEPT ![Head(todo)] = NoPosition]
        PROVE  BacktestTypeOK'
    <3>1. t.pnl \in Int
      BY DEF Trades
    <3>2. equity' \in Int /\ trades' \in Seq(Trades)
      BY <2>4, <3>1 DEF Closes, BacktestTypeOK
    <3>3. position' \in [Symbols -> Positions \cup {NoPosition}]
      BY <2>4 DEF BacktestTypeOK
    <3>4. QED
      BY <2>1, <2>2, <3>2, <3>3 DEF BacktestTypeOK
  <2>5. QED
    BY <1>1, Exiting, <2>3, <2>4
<1>2. CASE CloseRemaining
  <2>1. todo' \in Seq(Symbols)
    BY <1>2, ClosingRest, TailStays
  <2>2. UNCHANGED <<ts, barAt, lastBar, half, position, counts, entryFees>>
    BY <1>2, ClosingRest DEF marketVars
  <2>3. PICK t \in Trades : Closes(Head(todo), t)
    BY <1>2, ClosingRest
  <2>4. t.pnl \in Int
    BY DEF Trades
  <2>5. equity' \in Int /\ trades' \in Seq(Trades)
    BY <2>3, <2>4 DEF Closes, BacktestTypeOK
  <2>6. QED
    BY <2>1, <2>2, <2>5 DEF BacktestTypeOK
<1>3. ASSUME NEW sig \in Signals, Enter(sig)
      PROVE  BacktestTypeOK'
  <2>1. todo' \in Seq(Symbols) /\ counts' \in CountRecords
    BY <1>3, Entering, TailStays
  <2>2. UNCHANGED <<ts, barAt, lastBar, half, trades>>
    BY <1>3, Entering DEF marketVars
  <2>3. CASE OpensNothing
    BY <2>1, <2>2, <2>3 DEF BacktestTypeOK, OpensNothing
  <2>4. ASSUME NEW s \in Symbols \ Held, NEW o \in Positions, Opens(s, o)
        PROVE  BacktestTypeOK'
    <3>1. FeeOf(o.notional) \in Int
      BY FeeIsInt DEF Positions
    <3>2. equity' \in Int /\ entryFees' \in Int
      BY <2>4, <3>1 DEF Opens, BacktestTypeOK
    <3>3. position' \in [Symbols -> Positions \cup {NoPosition}]
      BY <2>4 DEF BacktestTypeOK, Opens
    <3>4. QED
      BY <2>1, <2>2, <3>2, <3>3 DEF BacktestTypeOK
  <2>5. QED
    BY <1>3, Entering, <2>3, <2>4
<1>4. CASE QuietList /\ UNCHANGED Books
  <2>1. /\ equity' \in Int /\ entryFees' \in Int /\ trades' \in Seq(Trades)
        /\ position' \in [Symbols -> Positions \cup {NoPosition}] /\ counts' \in CountRecords
    BY <1>4 DEF Books, BacktestTypeOK
  <2>2. SetToSeq(Held) \in Seq(Symbols) /\ SetToSeq(Symbols) \in Seq(Symbols)
    <3>1. SetToSeq(Held) \in Seq(Held) /\ Held \subseteq Symbols
      BY HeldInOrder DEF Held
    <3>2. SetToSeq(Symbols) \in Seq(Symbols)
      BY SetInOrder, BacktestAssumption
    <3>3. QED
      BY <3>1, <3>2
  <2>3. CASE NextTs
    <3>1. ts' \in 0..MaxTs /\ half' = "exits" /\ todo' \in Seq(Symbols)
      BY <2>2, <2>3, BacktestAssumption DEF NextTs, BacktestTypeOK
    <3>2. barAt' \in [Symbols -> BarKinds \cup {NoBar}]
      BY <2>3 DEF NextTs
    <3>3. \A s \in Symbols : barAt'[s].close \in Int
      BY <3>2, BacktestAssumption DEF NoBar
    <3>4. lastBar' = [s \in Symbols |-> IF barAt'[s] = NoBar THEN lastBar[s]
                                       ELSE [ts |-> ts + 1, close |-> barAt'[s].close]]
      BY <2>3 DEF NextTs
    <3>5. lastBar' \in [Symbols -> [ts : Int, close : Int]]
      BY <3>3, <3>4, BacktestAssumption DEF BacktestTypeOK
    <3>6. QED
      BY <2>1, <3>1, <3>2, <3>5 DEF BacktestTypeOK
  <2>4. CASE ExitsDone \/ Finish \/ NoEntry \/ Report \/ UNCHANGED backtestVars
    <3>1. todo' \in Seq(Symbols)
      BY <2>2, <2>4, TailStays DEF ExitsDone, Finish, NoEntry, Report, backtestVars, BacktestTypeOK
    <3>2. UNCHANGED <<ts, barAt, lastBar>> /\ half' \in {"exits", "entries", "finish", "over"}
      BY <2>4 DEF ExitsDone, Finish, NoEntry, Report, backtestVars, marketVars, BacktestTypeOK
    <3>3. QED
      BY <2>1, <3>1, <3>2 DEF BacktestTypeOK
  <2>5. QED
    BY <1>4, <2>3, <2>4 DEF QuietList
<1>5. QED
  BY <1>1, <1>2, <1>3, <1>4, Steps

LEMMA ListStep ==
  ASSUME BacktestTypeOK, ListInOrder, [BacktestNext]_backtestVars
  PROVE  ListInOrder'
<1> DEFINE InOrder(q, H) == /\ \A i \in 1..Len(q) : q[i] \in H
                            /\ \A i, j \in 1..Len(q) : i # j => q[i] # q[j]
<1>1. CASE CheckExit
  <2>1. /\ half = "exits" /\ half' = "exits" /\ todo # <<>> /\ todo' = Tail(todo)
    BY <1>1, Exiting
  <2>2. \A i \in 1..Len(todo') : todo'[i] = todo[i + 1] /\ i + 1 \in 1..Len(todo)
    BY <2>1, TailOfList DEF BacktestTypeOK
  <2>3. Head(todo) = todo[1] /\ 1 \in 1..Len(todo)
    BY <2>1, TailOfList DEF BacktestTypeOK
  <2>4. \A i, j \in 1..Len(todo') : i # j => todo'[i] # todo'[j]
    BY <2>1, <2>2 DEF ListInOrder
  <2>5. \A i \in 1..Len(todo') : todo'[i] \in Held /\ todo'[i] # Head(todo)
    BY <2>1, <2>2, <2>3 DEF ListInOrder
  <2>6. \A s \in Held \ {Head(todo)} : s \in Held'
    BY <1>1, Exiting DEF Held, BacktestTypeOK
  <2>7. QED
    BY <2>1, <2>4, <2>5, <2>6 DEF ListInOrder
<1>2. CASE CloseRemaining
  <2>1. /\ half = "finish" /\ half' = "finish" /\ todo # <<>> /\ todo' = Tail(todo)
    BY <1>2, ClosingRest
  <2>2. \A i \in 1..Len(todo') : todo'[i] = todo[i + 1] /\ i + 1 \in 1..Len(todo)
    BY <2>1, TailOfList DEF BacktestTypeOK
  <2>3. Held' = Held
    BY <1>2, ClosingRest DEF Held
  <2>4. QED
    BY <2>1, <2>2, <2>3 DEF ListInOrder
<1>3. ASSUME NEW sig \in Signals, Enter(sig)
      PROVE  ListInOrder'
  BY <1>3, Entering DEF ListInOrder
<1>4. CASE QuietList /\ UNCHANGED Books
  <2>1. Held' = Held
    BY <1>4 DEF Books, Held
  <2>2. CASE NextTs \/ Finish
    <3>1. todo' = SetToSeq(Held) /\ half' \in {"exits", "finish"}
      BY <2>2 DEF NextTs, Finish
    <3>2. \A i \in 1..Len(todo') : todo'[i] \in Held
      BY <3>1, HeldInOrder
    <3>3. \A i, j \in 1..Len(todo') : i # j => todo'[i] # todo'[j]
      BY <3>1, HeldInOrder
    <3>4. QED
      BY <2>1, <3>1, <3>2, <3>3 DEF ListInOrder
  <2>3. CASE ExitsDone \/ NoEntry
    BY <2>3 DEF ExitsDone, NoEntry, ListInOrder
  <2>4. CASE Report
    BY <2>4 DEF Report, ListInOrder
  <2>5. CASE UNCHANGED backtestVars
    BY <2>1, <2>5 DEF backtestVars, ListInOrder
  <2>6. QED
    BY <1>4, <2>2, <2>3, <2>4, <2>5 DEF QuietList
<1>5. QED
  BY <1>1, <1>2, <1>3, <1>4, Steps

LEMMA EnteredStep ==
  ASSUME BacktestTypeOK, ListInOrder, EnteredEarlier, [BacktestNext]_backtestVars
  PROVE  EnteredEarlier'
<1>1. CASE CheckExit
  <2>1. \A s \in Held' : s \in Held /\ position'[s] = position[s]
    BY <1>1, Exiting DEF Held, BacktestTypeOK
  <2>2. ts' = ts /\ half' = half
    BY <1>1, Exiting DEF marketVars
  <2>3. QED
    BY <2>1, <2>2 DEF EnteredEarlier
<1>2. CASE CloseRemaining
  BY <1>2, ClosingRest DEF Held, EnteredEarlier, marketVars
<1>3. ASSUME NEW sig \in Signals, Enter(sig)
      PROVE  EnteredEarlier'
  <2>1. ts' = ts /\ half = "entries" /\ half' = "entries" /\ ts \in Int
    BY <1>3, Entering, BacktestAssumption DEF marketVars, BacktestTypeOK
  <2>2. CASE OpensNothing
    BY <2>1, <2>2 DEF OpensNothing, EnteredEarlier, Held
  <2>3. ASSUME NEW s \in Symbols \ Held, NEW o \in Positions, Opens(s, o)
        PROVE  EnteredEarlier'
    <3>1. o.entered = ts /\ position' = [position EXCEPT ![s] = o]
      BY <2>3 DEF Opens
    <3>2. \A q \in Held' : (q \in Held /\ position'[q] = position[q]) \/ position'[q] = o
      BY <3>1 DEF Held, BacktestTypeOK
    <3>3. QED
      BY <2>1, <3>1, <3>2 DEF EnteredEarlier
  <2>4. QED
    BY <1>3, Entering, <2>2, <2>3
<1>4. CASE QuietList /\ UNCHANGED Books
  <2>1. Held' = Held /\ position' = position
    BY <1>4 DEF Books, Held
  <2>2. ts \in Int /\ \A s \in Held : position[s].entered \in Int
    BY HeldIsPosition, BacktestAssumption DEF BacktestTypeOK, Positions
  <2>3. CASE NextTs
    BY <2>1, <2>2, <2>3 DEF NextTs, EnteredEarlier
  <2>4. CASE ExitsDone \/ Finish \/ NoEntry \/ Report \/ UNCHANGED backtestVars
    <3>1. ts' = ts /\ (half' = "exits" => half = "exits")
      BY <2>4 DEF ExitsDone, Finish, NoEntry, Report, backtestVars, marketVars
    <3>2. QED
      BY <2>1, <3>1 DEF EnteredEarlier
  <2>5. QED
    BY <1>4, <2>3, <2>4 DEF QuietList
<1>5. QED
  BY <1>1, <1>2, <1>3, <1>4, Steps
LEMMA ExitsStep ==
  ASSUME BacktestTypeOK, ListInOrder, EnteredEarlier, ExitsInOrder, [BacktestNext]_backtestVars
  PROVE  ExitsInOrder'
<1> DEFINE Fine(t) == t.reason = "triggered" =>
                        t.entered < t.exited /\ (StopHit(t, t.bar) => t.price = t.stop)
<1>1. CASE UNCHANGED trades
  BY <1>1 DEF ExitsInOrder, StopHit
<1>2. ASSUME NEW s \in Held, NEW t \in Trades, Closes(s, t), Fine(t)
      PROVE  ExitsInOrder'
  <2>1. trades \in Seq(Trades) /\ trades' = Append(trades, t)
    BY <1>2 DEF Closes, BacktestTypeOK
  <2>2. \A i \in DOMAIN trades' : (i \in DOMAIN trades /\ trades'[i] = trades[i]) \/ trades'[i] = t
    BY <2>1
  <2>3. \A i \in DOMAIN trades : Fine(trades[i])
    BY DEF ExitsInOrder
  <2>4. \A i \in DOMAIN trades' : Fine(trades'[i])
    <3> HIDE DEF Fine
    <3> QED
      BY <2>2, <2>3, <1>2
  <2>5. QED
    BY <2>4 DEF ExitsInOrder, StopHit
<1>3. CASE CheckExit
  <2>1. Head(todo) \in Held /\ position[Head(todo)].entered < ts
    BY <1>3, Exiting DEF EnteredEarlier
  <2>2. ASSUME NEW t \in Trades, Closes(Head(todo), t), ClosedBy(Head(todo), t)
        PROVE  ExitsInOrder'
    <3>1. Fine(t)
      BY <2>1, <2>2 DEF ClosedBy
    <3> HIDE DEF Fine
    <3>2. QED
      BY <2>1, <2>2, <3>1, <1>2
  <2>3. QED
    BY <1>3, Exiting, <2>2, <1>1
<1>4. CASE CloseRemaining
  <2>1. PICK t \in Trades : Closes(Head(todo), t) /\ t.reason = "end_of_data"
    BY <1>4, ClosingRest
  <2>2. Fine(t) /\ Head(todo) \in Held
    BY <2>1 DEF Closes
  <2> HIDE DEF Fine
  <2>3. QED
    BY <2>1, <2>2, <1>2
<1>5. CASE \E sig \in Signals : Enter(sig)
  BY <1>5, <1>1, Entering
<1>6. CASE UNCHANGED Books
  BY <1>6, <1>1 DEF Books
<1>7. QED
  BY <1>3, <1>4, <1>5, <1>6, Steps

CapsOf(n) ==
  /\ SumFunctionOnSet(n, Symbols) <= Limits.maxNotional
  /\ Limits.maxPerSymbol > 0 => \A s \in Symbols : 2 * (n[s] - Limits.maxPerSymbol) <= Grain

LEMMA CapsAre == CapsHold <=> CapsOf(Notionals)
<1>1. \A s \in Symbols : Notionals[s] = position[s].notional
  BY DEF Notionals
<1>2. QED
  BY <1>1 DEF CapsHold, CapsOf, Notionals

(* One position is opened or closed: the new sum follows from the old one. *)
LEMMA NotionalChanged ==
  ASSUME BacktestTypeOK, NEW s \in Symbols, NEW o, o.notional \in Nat,
         position' = [position EXCEPT ![s] = o]
  PROVE  /\ \A q \in Symbols : Notionals'[q] = IF q = s THEN o.notional ELSE Notionals[q]
         /\ SumFunctionOnSet(Notionals', Symbols)
              = SumFunctionOnSet(Notionals, Symbols) - Notionals[s] + o.notional
         /\ SumFunctionOnSet(Notionals, Symbols) \in Int /\ Notionals[s] \in Nat
<1>1. \A q \in Symbols : Notionals'[q] = IF q = s THEN o.notional ELSE Notionals[q]
  BY DEF Notionals, BacktestTypeOK
<1>2. \A q \in Symbols : Notionals[q] \in Nat
  BY NotionalsAreNat
<1>3. \A q \in Symbols : Notionals[q] \in Int /\ Notionals'[q] \in Int
  BY <1>1, <1>2
<1>4. \A q \in Symbols \ {s} : Notionals[q] = Notionals'[q]
  BY <1>1
<1>5. IsFiniteSet(Symbols)
  BY BacktestAssumption
<1>6. SumFunctionOnSet(Notionals', Symbols)
        = SumFunctionOnSet(Notionals, Symbols) - Notionals[s] + Notionals'[s]
  BY <1>3, <1>4, <1>5, SumChanged
<1>7. SumFunctionOnSet(Notionals, Symbols) \in Int
  BY <1>3, <1>5, SumIsInt
<1>8. QED
  BY <1>1, <1>2, <1>6, <1>7

LEMMA CapsStep ==
  ASSUME BacktestTypeOK, ListInOrder, CapsHold, [BacktestNext]_backtestVars
  PROVE  CapsHold'
<1> USE BacktestAssumption
<1>0. CapsOf(Notionals)
  BY CapsAre
<1> SUFFICES CapsOf(Notionals')
  <2>1. CapsHold' <=> CapsOf(Notionals')
    <3>1. \A s \in Symbols : Notionals'[s] = position'[s].notional
      BY DEF Notionals
    <3>2. QED
      BY <3>1 DEF CapsHold, CapsOf, Notionals
  <2>2. QED
    BY <2>1
<1>1. CASE UNCHANGED position
  BY <1>0, <1>1 DEF Notionals
<1>2. ASSUME NEW s \in Symbols, position' = [position EXCEPT ![s] = NoPosition]
      PROVE  CapsOf(Notionals')
  <2>0. NoPosition.notional = 0
    BY DEF NoPosition
  <2>1. PICK o : o = NoPosition /\ o.notional = 0
    <3> HIDE DEF NoPosition
    <3> QED
      BY <2>0, Zenon
  <2>2. /\ \A q \in Symbols : Notionals'[q] = IF q = s THEN 0 ELSE Notionals[q]
        /\ SumFunctionOnSet(Notionals', Symbols) = SumFunctionOnSet(Notionals, Symbols) - Notionals[s] + 0
        /\ SumFunctionOnSet(Notionals, Symbols) \in Int /\ Notionals[s] \in Nat
    <3>1. o.notional \in Nat /\ position' = [position EXCEPT ![s] = o]
      BY <1>2, <2>1
    <3>2. QED
      BY <2>1, <3>1, NotionalChanged
  <2>3. Limits.maxPerSymbol > 0 => 2 * (0 - Limits.maxPerSymbol) <= Grain
    BY GrainAssumption
  <2>4. QED
    BY <1>0, <2>2, <2>3 DEF CapsOf
<1>3. ASSUME NEW s \in Symbols \ Held, NEW o \in Positions, Opens(s, o)
      PROVE  CapsOf(Notionals')
  <2>1. o.notional \in Nat /\ position' = [position EXCEPT ![s] = o]
    BY <1>3 DEF Opens, Positions
  <2>2. /\ \A q \in Symbols : Notionals'[q] = IF q = s THEN o.notional ELSE Notionals[q]
        /\ SumFunctionOnSet(Notionals', Symbols)
             = SumFunctionOnSet(Notionals, Symbols) - Notionals[s] + o.notional
        /\ SumFunctionOnSet(Notionals, Symbols) \in Int
    BY <2>1, NotionalChanged
  <2>3. Notionals[s] = 0
    BY DEF Notionals, Held, NoPosition
  <2>4. Exposure = SumFunctionOnSet(Notionals, Symbols)
    BY DEF Exposure, Notionals
  <2>5. /\ Exposure + o.notional <= Limits.maxNotional
        /\ Limits.maxPerSymbol > 0 => 2 * (o.notional - Limits.maxPerSymbol) <= Grain
    BY <1>3 DEF Opens
  <2>6. QED
    BY <1>0, <2>1, <2>2, <2>3, <2>4, <2>5 DEF CapsOf
<1>4. CASE CheckExit
  <2>1. Head(todo) \in Symbols
    BY <1>4, Exiting DEF Held
  <2>2. QED
    BY <1>1, <1>2, <1>4, <2>1, Exiting
<1>5. CASE CloseRemaining
  BY <1>1, <1>5, ClosingRest
<1>6. ASSUME NEW sig \in Signals, Enter(sig)
      PROVE  CapsOf(Notionals')
  BY <1>1, <1>3, <1>6, Entering DEF OpensNothing
<1>7. CASE UNCHANGED Books
  BY <1>1, <1>7 DEF Books
<1>8. QED
  BY <1>4, <1>5, <1>6, <1>7, Steps
LEMMA CountsStep ==
  ASSUME BacktestTypeOK, ListInOrder, CountsAddUp, [BacktestNext]_backtestVars
  PROVE  CountsAddUp'
<1>0. /\ counts.total \in Nat /\ counts.approved \in Nat /\ counts.blocked \in Nat
      /\ Len(trades) \in Nat /\ Len(todo) \in Nat /\ Cardinality(Held) \in Nat
      /\ IsFiniteSet(Held)
  BY HeldInOrder DEF BacktestTypeOK, CountRecords
<1>1. ASSUME NEW s \in Held, NEW t \in Trades, Closes(s, t)
      PROVE  Len(trades') = Len(trades) + 1
  BY <1>1 DEF Closes, BacktestTypeOK
<1>2. CASE CheckExit
  <2>1. half = "exits" /\ half' = "exits" /\ counts' = counts
    BY <1>2, Exiting
  <2>2. CASE UNCHANGED <<equity, trades, position>>
    <3>1. Held' = Held
      BY <2>2 DEF Held
    <3>2. QED
      BY <2>1, <2>2, <3>1 DEF CountsAddUp
  <2>3. ASSUME NEW t \in Trades, Closes(Head(todo), t),
               position' = [position EXCEPT ![Head(todo)] = NoPosition]
        PROVE  CountsAddUp'
    <3>1. Head(todo) \in Held
      BY <1>2, Exiting
    <3>2. Held' = Held \ {Head(todo)}
      BY <2>3, <3>1 DEF Held, BacktestTypeOK
    <3>3. Cardinality(Held') = Cardinality(Held) - 1
      BY <1>0, <3>1, <3>2, FS_RemoveElement
    <3>4. Len(trades') = Len(trades) + 1
      BY <1>1, <2>3, <3>1
    <3>5. /\ counts.approved = Len(trades) + Cardinality(Held)
          /\ counts.total = counts.approved + counts.blocked
      BY <2>1 DEF CountsAddUp
    <3>6. counts'.approved = Len(trades') + Cardinality(Held')
      BY <1>0, <2>1, <3>3, <3>4, <3>5
    <3>7. QED
      BY <2>1, <3>5, <3>6 DEF CountsAddUp
  <2>4. QED
    BY <1>2, Exiting, <2>2, <2>3
<1>3. CASE CloseRemaining
  <2>1. /\ half = "finish" /\ half' = "finish" /\ counts' = counts
        /\ todo # <<>> /\ todo' = Tail(todo)
    BY <1>3, ClosingRest
  <2>2. Len(todo') = Len(todo) - 1
    BY <2>1, TailOfList DEF BacktestTypeOK
  <2>3. PICK t \in Trades : Closes(Head(todo), t)
    BY <1>3, ClosingRest
  <2>4. Len(trades') = Len(trades) + 1
    BY <1>1, <2>3 DEF Closes
  <2>5. counts.approved = Len(trades) + Len(todo) /\ counts.total = counts.approved + counts.blocked
    BY <2>1 DEF CountsAddUp
  <2>6. counts'.approved = Len(trades') + Len(todo')
    BY <1>0, <2>1, <2>2, <2>4, <2>5
  <2>7. QED
    BY <2>1, <2>5, <2>6 DEF CountsAddUp
<1>4. ASSUME NEW sig \in Signals, Enter(sig)
      PROVE  CountsAddUp'
  <2>1. /\ half = "entries" /\ half' = "entries" /\ trades' = trades
        /\ counts'.total = counts.total + 1
    BY <1>4, Entering
  <2>2. CASE OpensNothing
    <3>1. Held' = Held
      BY <2>2 DEF OpensNothing, Held
    <3>2. /\ counts.approved = Len(trades) + Cardinality(Held)
          /\ counts.total = counts.approved + counts.blocked
      BY <2>1 DEF CountsAddUp
    <3>3. counts'.approved = counts.approved /\ counts'.blocked = counts.blocked + 1
      BY <2>2 DEF OpensNothing
    <3>4. QED
      BY <1>0, <2>1, <3>1, <3>2, <3>3 DEF CountsAddUp
  <2>3. ASSUME NEW s \in Symbols \ Held, NEW o \in Positions, Opens(s, o)
        PROVE  CountsAddUp'
    <3>1. o # NoPosition
      BY DEF Positions, NoPosition
    <3>2. Held' = Held \cup {s}
      BY <2>3, <3>1 DEF Opens, Held, BacktestTypeOK
    <3>3. Cardinality(Held') = Cardinality(Held) + 1
      BY <1>0, <2>3, <3>2, FS_AddElement
    <3>4. /\ counts.approved = Len(trades) + Cardinality(Held)
          /\ counts.total = counts.approved + counts.blocked
      BY <2>1 DEF CountsAddUp
    <3>5. counts'.approved = counts.approved + 1 /\ counts'.blocked = counts.blocked
      BY <2>3 DEF Opens
    <3>6. QED
      BY <1>0, <2>1, <3>3, <3>4, <3>5, SMTT(20) DEF CountsAddUp
  <2>4. QED
    BY <1>4, Entering, <2>2, <2>3
<1>5. CASE QuietList /\ UNCHANGED Books
  <2>1. Held' = Held /\ trades' = trades /\ counts' = counts
    BY <1>5 DEF Books, Held
  <2>2. CASE NextTs \/ ExitsDone \/ NoEntry
    BY <2>1, <2>2 DEF NextTs, ExitsDone, NoEntry, CountsAddUp
  <2>3. CASE Finish
    <3>1. half = "entries" /\ half' = "finish" /\ Len(todo') = Cardinality(Held)
      BY <2>3, HeldInOrder DEF Finish
    <3>2. QED
      BY <2>1, <3>1 DEF CountsAddUp
  <2>4. CASE Report
    BY <2>1, <2>4 DEF Report, CountsAddUp
  <2>5. CASE UNCHANGED backtestVars
    BY <2>1, <2>5 DEF backtestVars, CountsAddUp
  <2>6. QED
    BY <1>5, <2>2, <2>3, <2>4, <2>5 DEF QuietList
<1>6. QED
  BY <1>2, <1>3, <1>4, <1>5, Steps

LEMMA BalanceStep ==
  ASSUME BacktestTypeOK, ListInOrder, Balanced, [BacktestNext]_backtestVars
  PROVE  Balanced'
<1> USE BacktestAssumption
<1>0. equity \in Int /\ entryFees \in Int /\ trades \in Seq(Trades)
  BY DEF BacktestTypeOK
<1>1. CASE UNCHANGED <<equity, trades, entryFees>>
  BY <1>1 DEF Balanced, Pnl
<1>2. ASSUME NEW s \in Held, NEW t \in Trades, Closes(s, t), entryFees' = entryFees
      PROVE  Balanced'
  <2>1. TotalPnl(trades) \in Int /\ TotalPnl(Append(trades, t)) = TotalPnl(trades) + t.pnl
    BY <1>0, TotalAppended
  <2>2. t.pnl \in Int
    BY DEF Trades
  <2>3. Pnl' = Pnl + t.pnl /\ Pnl \in Int
    BY <1>2, <2>1 DEF Pnl, Closes
  <2>4. QED
    BY <1>0, <1>2, <2>2, <2>3, SMTT(20) DEF Balanced, Closes
<1>3. CASE CheckExit
  BY <1>1, <1>2, <1>3, Exiting
<1>4. CASE CloseRemaining
  <2>1. PICK t \in Trades : Closes(Head(todo), t)
    BY <1>4, ClosingRest
  <2>2. Head(todo) \in Held /\ entryFees' = entryFees
    BY <1>4, <2>1, ClosingRest DEF Closes
  <2>3. QED
    BY <1>2, <2>1, <2>2
<1>5. ASSUME NEW sig \in Signals, Enter(sig)
      PROVE  Balanced'
  <2>1. trades' = trades /\ Pnl' = Pnl
    BY <1>5, Entering DEF Pnl
  <2>2. CASE OpensNothing
    BY <1>1, <2>1, <2>2 DEF OpensNothing
  <2>3. ASSUME NEW s \in Symbols \ Held, NEW o \in Positions, Opens(s, o)
        PROVE  Balanced'
    <3>1. FeeOf(o.notional) \in Int
      BY FeeIsInt DEF Positions
    <3>2. Pnl \in Int
      BY <1>0, TotalIsInt DEF Pnl
    <3>3. QED
      BY <1>0, <2>1, <2>3, <3>1, <3>2 DEF Balanced, Opens
  <2>4. QED
    BY <1>5, Entering, <2>2, <2>3
<1>6. CASE UNCHANGED Books
  BY <1>1, <1>6 DEF Books
<1>7. QED
  BY <1>3, <1>4, <1>5, <1>6, Steps

-----------------------------------------------------------------------------

LEMMA WalkInit == BacktestInit => WalkInv
<1> SUFFICES ASSUME BacktestInit PROVE WalkInv
  OBVIOUS
<1> USE BacktestAssumption
<1>1. Held = {} /\ \A s \in Symbols : position[s] = NoPosition
  BY DEF BacktestInit, Held
<1>2. BacktestTypeOK
  <2>1. barAt \in [Symbols -> BarKinds \cup {NoBar}] /\ lastBar \in [Symbols -> [ts : Int, close : Int]]
    BY DEF BacktestInit
  <2>2. position \in [Symbols -> Positions \cup {NoPosition}] /\ counts \in CountRecords
    BY DEF BacktestInit, CountRecords
  <2>3. QED
    BY <2>1, <2>2 DEF BacktestInit, BacktestTypeOK
<1>3. ListInOrder /\ EnteredEarlier /\ ExitsInOrder
  BY <1>1 DEF BacktestInit, ListInOrder, EnteredEarlier, ExitsInOrder
<1>4. CapsHold
  <2>1. \A s \in Symbols : Notionals[s] = 0
    BY <1>1 DEF Notionals, NoPosition
  <2>2. SumFunctionOnSet(Notionals, Symbols) = 0
    BY <2>1, SumOfZeros
  <2>3. Limits.maxPerSymbol > 0 => 2 * (0 - Limits.maxPerSymbol) <= Grain
    BY GrainAssumption
  <2>4. QED
    BY <2>1, <2>2, <2>3, CapsAre DEF CapsOf
<1>5. CountsAddUp
  BY <1>1, FS_EmptySet DEF BacktestInit, CountsAddUp
<1>6. Balanced
  BY TotalEmpty DEF BacktestInit, Balanced, Pnl
<1>7. QED
  BY <1>2, <1>3, <1>4, <1>5, <1>6 DEF WalkInv

LEMMA WalkStep == WalkInv /\ [BacktestNext]_backtestVars => WalkInv'
BY TypeStep, ListStep, EnteredStep, ExitsStep, CapsStep, CountsStep, BalanceStep DEF WalkInv

LEMMA WalkInvariant == BacktestSpec => []WalkInv
BY WalkInit, WalkStep, PTL DEF BacktestSpec

(* Types.                                                                  *)
THEOREM BacktestTypeCorrect == BacktestSpec => []BacktestTypeOK
<1>1. WalkInv => BacktestTypeOK
  BY DEF WalkInv
<1>2. QED
  BY <1>1, WalkInvariant, PTL

(* Exits follow entries, and a stop that is reached wins.                  *)
THEOREM ExitsOrdered == BacktestSpec => []ExitsInOrder
<1>1. WalkInv => ExitsInOrder
  BY DEF WalkInv
<1>2. QED
  BY <1>1, WalkInvariant, PTL

(* The caps hold at every moment of the walk.                              *)
THEOREM CapsAlwaysHold == BacktestSpec => []CapsHold
<1>1. WalkInv => CapsHold
  BY DEF WalkInv
<1>2. QED
  BY <1>1, WalkInvariant, PTL

(* Every signal, position and trade is counted once.                       *)
THEOREM CountsAlwaysAddUp == BacktestSpec => []CountsAddUp
<1>1. WalkInv => CountsAddUp
  BY DEF WalkInv
<1>2. QED
  BY <1>1, WalkInvariant, PTL

(* The final equity is explained by the trades and the entry fees.         *)
THEOREM ReportAlwaysBalances == BacktestSpec => []ReportBalances
<1>1. WalkInv => ReportBalances
  BY DEF WalkInv, Balanced, ReportBalances
<1>2. QED
  BY <1>1, WalkInvariant, PTL
===============================================================================
