---------------------------- MODULE FundingGuard ----------------------------
(***************************************************************************)
(* funding.FundingGuard: is an entry on the side that pays the funding?    *)
(* The rate of a symbol is asked for at most once in ttl_seconds; a rate   *)
(* that cannot be read lets the entry pass.  One symbol: the cache keeps   *)
(* them apart.                                                             *)
(***************************************************************************)
EXTENDS Integers

CONSTANTS
  Rates,      \* funding rates that occur, in bps
  MaxAbsBps,  \* max_abs_bps
  Ttl,        \* ttl_seconds
  NoSnapshot,
  MaxNow      \* bound: the clock

ASSUME FundingAssumption ==
  /\ Rates \subseteq Int /\ MaxAbsBps \in Nat /\ Ttl \in Nat /\ MaxNow \in Nat
  /\ NoSnapshot \notin [rate : Rates, at : 0..MaxNow]

VARIABLES
  now,      \* the clock
  rate,     \* exchange: 0..MaxNow -> the funding rate at that time
  cache,    \* FundingGuard.cache of the symbol
  verdict   \* what the last check returned, and when it was asked

fundingVars == <<now, rate, cache, verdict>>

Snapshots == [rate : Rates, at : 0..MaxNow]
NoVerdict == [side |-> "none", at |-> 0, allowed |-> TRUE, reason |-> "disabled"]

FundingInit ==
  /\ now = 0
  /\ rate \in [0..MaxNow -> Rates]
  /\ cache = NoSnapshot
  /\ verdict = NoVerdict

IsEnabled == MaxAbsBps > 0

IsFreshMut == cache # NoSnapshot

\* The cached snapshot is younger than ttl_seconds.
IsFresh == cache # NoSnapshot /\ now - cache.at < Ttl

Magnitude(bps) == IF bps < 0 THEN -bps ELSE bps

\* The side that pays: longs a positive rate, shorts a negative one.
Costly(bps, side) ==
  /\ Magnitude(bps) > MaxAbsBps
  /\ (side = "buy" /\ bps > 0) \/ (side = "sell" /\ bps < 0)

Answer(side, snap) ==
  verdict' = IF snap = NoSnapshot
             THEN [side |-> side, at |-> now, allowed |-> TRUE,
                   reason |-> "snapshot_unavailable"]
             ELSE [side |-> side, at |-> now, allowed |-> ~Costly(snap.rate, side),
                   reason |-> "rate"]

\* check(): from the cache, or with a rate fetched now, which replaces the cached
\* one; a call that raises or a payload that does not parse is no snapshot and
\* leaves the cache as it is.
Check(side) ==
  /\ \/ ~IsEnabled /\ verdict' = [NoVerdict EXCEPT !.side = side, !.at = now] /\ cache' = cache
     \/ IsEnabled /\ IsFresh /\ Answer(side, cache) /\ cache' = cache
     \/ /\ IsEnabled /\ ~IsFresh
        /\ cache' = [rate |-> rate[now], at |-> now]
        /\ Answer(side, cache')
     \/ IsEnabled /\ ~IsFresh /\ Answer(side, NoSnapshot) /\ cache' = cache
  /\ UNCHANGED <<now, rate>>

Tick ==
  /\ now < MaxNow
  /\ now' = now + 1
  /\ UNCHANGED <<rate, cache, verdict>>

FundingNext == Tick \/ \E side \in {"buy", "sell"} : Check(side)

FundingSpec == FundingInit /\ [][FundingNext]_fundingVars

-----------------------------------------------------------------------------
(* Properties. *)

FundingTypeOK ==
  /\ now \in 0..MaxNow /\ rate \in [0..MaxNow -> Rates]
  /\ cache \in Snapshots \cup {NoSnapshot}
  /\ verdict \in [side : {"none", "buy", "sell"}, at : 0..MaxNow, allowed : BOOLEAN,
                  reason : {"disabled", "snapshot_unavailable", "rate"}]

(* A verdict is about a rate of the last ttl_seconds: an entry is refused  *)
(* only if its side was the paying one at some time in them, and let in on *)
(* the rate only if it was not.  A failed fetch never brings back the      *)
(* expired rate.                                                           *)
VerdictIsRecent ==
  verdict.reason = "rate" =>
    \E t \in 0..verdict.at : /\ verdict.at - t < Ttl \/ t = verdict.at
                             /\ verdict.allowed = ~Costly(rate[t], verdict.side)
=============================================================================
