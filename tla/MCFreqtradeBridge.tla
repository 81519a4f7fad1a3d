------------------------- MODULE MCFreqtradeBridge -------------------------
(* Instances of FreqtradeBridge for TLC. *)
EXTENDS FreqtradeBridge, TLC

CONSTANTS th1, th2, T1, T2, none

EventsOf(trades) == [trade : trades, action : {"OPEN", "CLOSE"}]
TwoTrades == {T1, T2}
TwoTradesEvents == EventsOf(TwoTrades)
StripTwoTrades == [e \in TwoTradesEvents |-> e]
Threads2 == Permutations({th1, th2})
UnusableExit == {[trade |-> T2, action |-> "CLOSE"]}
=============================================================================
