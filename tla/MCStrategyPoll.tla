--------------------------- MODULE MCStrategyPoll ---------------------------
(* Instances of StrategyPoll for TLC. *)
EXTENDS StrategyPoll, TLC

CONSTANTS p1, p2, A, B, none

Identity == [k \in Keys |-> k]
PollerSymmetry == Permutations(Callers)
=============================================================================
