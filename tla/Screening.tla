----------------------------- MODULE Screening -----------------------------
(***************************************************************************)
(* Which symbols the inline strategy polls: main.resolve_strategy_symbols  *)
(* over alt_screener.screen_okx_alt_swaps, on one answer of OKX's tickers. *)
(*                                                                         *)
(* A ticker is [id, live, priced, change, volume, below, spread]: live says*)
(* that it is a live swap of the quote currency, priced that it has a price*)
(* now and at the start of the day, change is in percent, below is the     *)
(* percentage below the day's high (999 when there is none), spread is in  *)
(* bps (0 when a quote is missing).  Scores are in twentieths of a point.  *)
(***************************************************************************)
EXTENDS Integers, Sequences, SequencesExt, FiniteSets

CONSTANTS
  TickerLists,  \* answers that occur: sequences of tickers with different ids
  Excluded,     \* DEFAULT_EXCLUDE_SYMBOLS and STRATEGY_ALT_EXCLUDE_SYMBOLS
  BaseSymbols,  \* strategy_symbols, or the allowed ones, or the default symbol
  TopN,         \* strategy_alt_top_n
  MinChange, MinVolume

ASSUME ScreeningAssumption ==
  /\ TopN \in Int /\ MinVolume \in Nat \ {0}
  /\ BaseSymbols \in Seq(Range(BaseSymbols))
  /\ \A list \in TickerLists :
       /\ list \in Seq(Range(list))
       /\ \A t \in Range(list) : {t.change, t.volume, t.below, t.spread} \subseteq Int
       /\ \A i, j \in DOMAIN list : i # j => list[i].id # list[j].id

VARIABLES tickers, polled
screeningVars == <<tickers, polled>>

Low(x, y)  == IF x <= y THEN x ELSE y
High(x, y) == IF x >= y THEN x ELSE y

-----------------------------------------------------------------------------
(* alt_screener.py. *)

\* _risk_flags' high_spread comes before everything else.
Category(t) ==
  IF t.spread >= 150 THEN "watchlist"
  ELSE IF t.change >= 5 /\ t.below <= 2 THEN "breakout"
  ELSE IF t.change >= 3 /\ t.below <= 8 THEN "pullback_watch"
  ELSE "watchlist"

Bonus(t) == CASE Category(t) = "breakout"       -> 200
              [] Category(t) = "pullback_watch" -> 80
              [] OTHER                          -> 0

ScoreMut(t) ==
  High(0, 36 * t.change - Low(t.change, 25) * 50 + 60 * Low(t.volume, 10) + Bonus(t))

\* _score_candidate: up to 45 points for the change, 30 for the volume, 15 for
\* being near the high, the category's bonus, up to 10 less for the spread.
Score(t) ==
  High(0, 36 * Low(t.change, 25)
          + (120 * Low(t.volume, 5 * MinVolume)) \div MinVolume
          + 30 * High(0, 10 - Low(t.below, 10))
          + Bonus(t)
          - Low(t.spread, 200))

Eligible(t) ==
  /\ t.live /\ t.id \notin Excluded
  /\ t.priced /\ t.volume >= MinVolume
  /\ t.change >= MinChange

\* (score, change, volume), compared like a tuple.
RanksAbove(t, u) ==
  \/ Score(t) > Score(u)
  \/ Score(t) = Score(u) /\ t.change > u.change
  \/ Score(t) = Score(u) /\ t.change = u.change /\ t.volume > u.volume

\* sort(reverse=True) is stable: what ranks equal keeps the order of the tickers.
SortsBefore(list, i, j) ==
  \/ RanksAbove(list[i], list[j])
  \/ i < j /\ ~RanksAbove(list[j], list[i])

\* The tickers that pass the filters, by their places.
Found(list) == {i \in DOMAIN list : Eligible(list[i])}
Rank(list, i) == Cardinality({j \in Found(list) : SortsBefore(list, j, i)})

\* screen_okx_alt_swaps: filter, sort, the first top_n; all for top_n <= 0.
Screen(list) ==
  LET n   == Cardinality(Found(list))
      top == IF TopN <= 0 THEN n ELSE Low(TopN, n)
  IN  [r \in 1..top |-> list[CHOOSE i \in Found(list) : Rank(list, i) = r - 1]]

\* resolve_strategy_symbols: the base symbols, then what the screener adds.
StrategySymbols(list) ==
  LET screened == Screen(list)
      combined[r \in 0..Len(screened)] ==
        IF r = 0 THEN BaseSymbols
        ELSE IF screened[r].id \in Range(combined[r - 1]) THEN combined[r - 1]
        ELSE Append(combined[r - 1], screened[r].id)
  IN  combined[Len(screened)]

ScreeningInit == tickers = <<>> /\ polled = BaseSymbols

Resolve ==
  /\ tickers = <<>>
  /\ \E list \in TickerLists : tickers' = list /\ polled' = StrategySymbols(list)

\* Nothing of a round is kept for the next.
RoundOver == tickers # <<>> /\ tickers' = <<>> /\ polled' = BaseSymbols

ScreeningNext == Resolve \/ RoundOver

ScreeningSpec == ScreeningInit /\ [][ScreeningNext]_screeningVars

-----------------------------------------------------------------------------
(* Properties. *)

NoWorse(t, u) ==
  /\ t.change >= u.change /\ t.volume >= u.volume /\ t.below <= u.below /\ t.spread <= u.spread
  /\ t.change > u.change \/ t.volume > u.volume

(* Of two symbols the screener may add, one that is no worse in any respect*)
(* and has the larger change or volume is never passed over for the other, *)
(* whatever the categories, caps, and bonuses make of their scores.        *)
BetterIsNotPassedOver ==
  \A i, j \in DOMAIN tickers :
    LET t == tickers[i]
        u == tickers[j]
    IN  /\ Eligible(t) /\ NoWorse(t, u)
        /\ u.id \in Range(polled) /\ u.id \notin Range(BaseSymbols)
        => t.id \in Range(polled)
=============================================================================
