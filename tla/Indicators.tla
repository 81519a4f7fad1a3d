----------------------------- MODULE Indicators -----------------------------
(***************************************************************************)
(* strategy.compute_ema, compute_atr and generate_ema_atr_signal on a      *)
(* history that grows bar by bar, as a backtest and the polls of the inline*)
(* strategy see it.                                                        *)
(*                                                                         *)
(* Averages are exact fractions [n, d], d > 0, where the code has floats;  *)
(* the denominators are powers of the periods.  Sequences count from 1.    *)
(* A candle is [high, low, close].                                         *)
(***************************************************************************)
EXTENDS Integers, Sequences, SequencesExt

CONSTANTS
  Candles,    \* candles that occur
  MaxBars,    \* bound: bars of a history
  Configs,    \* EmaAtrConfig: [fast, slow, atr, stopMult, tpMult, higher]
  HigherTf    \* closes of the higher timeframe that occur; <<>> when missing

Positive(n) == n \in Nat \ {0}

ASSUME IndicatorAssumption ==
  /\ MaxBars \in Nat
  /\ \A k \in Configs : /\ Positive(k.fast) /\ Positive(k.slow) /\ Positive(k.atr)
                        /\ {k.stopMult, k.tpMult, k.higher} \subseteq Nat
  /\ \A c \in Candles : /\ {c.low, c.close, c.high} \subseteq Int
                        /\ c.low <= c.close /\ c.close <= c.high

VARIABLES
  bars,    \* the closed candles, oldest first
  higher,  \* closes of the higher timeframe
  config   \* the parameters; they do not change

indicatorVars == <<bars, higher, config>>

IndicatorInit == bars = <<>> /\ higher \in HigherTf /\ config \in Configs

AppendBar ==
  /\ Len(bars) < MaxBars
  /\ \E c \in Candles : bars' = Append(bars, c)
  /\ UNCHANGED <<higher, config>>

IndicatorSpec == IndicatorInit /\ [][AppendBar]_indicatorVars

-----------------------------------------------------------------------------
(* Fractions and sums. *)

Less(x, y)    == x.n * y.d < y.n * x.d
AtMostFrac(x, y) == x.n * y.d <= y.n * x.d
Plus(m, x, k) == [n |-> m * x.d + k * x.n, d |-> x.d]    \* m + k x

Largest(x, y)  == IF x >= y THEN x ELSE y
Gap(x, y)      == IF x >= y THEN x - y ELSE y - x
Closes(series) == [i \in DOMAIN series |-> series[i].close]
Window(series, w) == SubSeq(series, Len(series) - w + 1, Len(series))

-----------------------------------------------------------------------------
(* strategy.py. *)

Mean(values, i, j) == [n |-> FoldSeq(+, 0, SubSeq(values, i, j)), d |-> j - i + 1]

\* The weighted mean of the last average and a value.
Blend(last, value, old, new) ==
  [n |-> new * value * last.d + old * last.n, d |-> (old + new) * last.d]

\* A running average from its seed on, as both indicators keep one.
Smoothed(values, first, seed, old, new) ==
  LET average[i \in first..Len(values)] ==
        IF i = first THEN seed ELSE Blend(average[i - 1], values[i], old, new)
  IN  average

EmaMut(values, p) == Smoothed(values, p, Mean(values, 1, p), p, 1)

\* compute_ema: the simple mean of the first p values, then
\* 2/(p+1) of the value and (p-1)/(p+1) of the last average.
Ema(values, p) == Smoothed(values, p, Mean(values, 1, p), p - 1, 2)

TrueRange(series, i) ==
  Largest(series[i].high - series[i].low,
          Largest(Gap(series[i].high, series[i - 1].close),
                  Gap(series[i].low, series[i - 1].close)))

TrueRanges(series) == [i \in DOMAIN series |-> IF i = 1 THEN 0 ELSE TrueRange(series, i)]

\* compute_atr: the mean of the first p true ranges, then Wilder's smoothing.
Atr(series, p) ==
  Smoothed(TrueRanges(series), p + 1, Mean(TrueRanges(series), 2, p + 1), p - 1, 1)

\* _higher_tf_trend_confirms: missing data reject.
HigherTfConfirms(up) ==
  LET n == Len(higher)
      slow == Ema(higher, config.higher)
  IN  /\ n >= config.higher + 1
      /\ IF up THEN Less(slow[n - 1], slow[n]) ELSE Less(slow[n], slow[n - 1])

CrossedUpMut(fast, slow, n) == Less(fast[n - 1], slow[n - 1]) /\ Less(slow[n], fast[n])

CrossedUp(fast, slow, n) == AtMostFrac(fast[n - 1], slow[n - 1]) /\ Less(slow[n], fast[n])

CrossedDown(fast, slow, n) == AtMostFrac(slow[n - 1], fast[n - 1]) /\ Less(fast[n], slow[n])

NoSignal == [side |-> "none"]

\* generate_ema_atr_signal on a history: a crossing on its last bar, with its
\* stop and target; none while it is too short, when the average range is nothing,
\* the higher timeframe disagrees, or a price would not be positive.
EmaAtrSignal(series) ==
  IF Len(series) <= Largest(config.slow, config.atr) + 1 THEN NoSignal
  ELSE LET n == Len(series)
           fast == Ema(Closes(series), config.fast)
           slow == Ema(Closes(series), config.slow)
           range == Atr(series, config.atr)[n]
           up == CrossedUp(fast, slow, n)
           entry == series[n].close
           toward(mult) == Plus(entry, range, mult)
           away(mult) == Plus(entry, range, -mult)
           signal == [side |-> IF up THEN "buy" ELSE "sell", entry |-> entry,
                      stop |-> IF up THEN away(config.stopMult) ELSE toward(config.stopMult),
                      target |-> IF up THEN toward(config.tpMult) ELSE away(config.tpMult)]
       IN  IF /\ n >= config.fast + 1
              /\ range.n > 0
              /\ up \/ CrossedDown(fast, slow, n)
              /\ config.higher > 0 => HigherTfConfirms(up)
              /\ signal.stop.n > 0 /\ signal.target.n > 0
           THEN signal ELSE NoSignal

-----------------------------------------------------------------------------
(* Properties. *)

FastAt(i) == Ema(Closes(bars), config.fast)[i]
SlowAt(i) == Ema(Closes(bars), config.slow)[i]
SideAt(i) == EmaAtrSignal(SubSeq(bars, 1, i)).side
FirstBar  == Largest(Largest(config.slow, config.atr), config.fast) + 1

(* No side is signalled on two bars in a row, and no crossing goes by      *)
(* unseen: when the fast average was below the slow one and is above it    *)
(* now, a buy was signalled at one of the bars between, also when the      *)
(* averages only touched or stood equal for a while; and the other way     *)
(* round.  (Where nothing vetoes a signal: no higher timeframe, every bar  *)
(* with a range of its own, and prices so far above the ranges that no stop*)
(* and no target falls to zero.)                                           *)
CrossingsSeenOnce ==
  LET n == Len(bars)
      mult == Largest(config.stopMult, config.tpMult)
      vetoed == \/ config.higher > 0
                \/ \E i, j \in 2..n : \/ TrueRange(bars, i) = 0
                                      \/ bars[j].close <= mult * TrueRange(bars, i)
  IN  n > FirstBar =>
        /\ SideAt(n) # "none" => SideAt(n) # SideAt(n - 1)
        /\ ~vetoed => \A i \in FirstBar..(n - 1) :
             /\ Less(FastAt(i), SlowAt(i)) /\ Less(SlowAt(n), FastAt(n))
                  => \E j \in (i + 1)..n : SideAt(j) = "buy"
             /\ Less(SlowAt(i), FastAt(i)) /\ Less(FastAt(n), SlowAt(n))
                  => \E j \in (i + 1)..n : SideAt(j) = "sell"

Spread(values) == LET m == {values[i] : i \in DOMAIN values}
                  IN  (CHOOSE x \in m : \A y \in m : y <= x) - (CHOOSE x \in m : \A y \in m : x <= y)

\* x to the k-th.
Power(x, k) == LET power[i \in 0..k] == IF i = 0 THEN 1 ELSE x * power[i - 1] IN power[k]

(* A poll sees the last candles only, a backtest all of them.  Their slow  *)
(* averages differ by no more than the weight the seed still has, times    *)
(* the span of the prices: (p-1)/(p+1) to the number of bars since.        *)
WindowForgetsSeed ==
  LET p == config.slow
      n == Len(bars)
  IN  \A w \in p..n :
        LET long  == Ema(Closes(bars), p)[n]
            short == Ema(Closes(Window(bars, w)), p)[w]
        IN  Gap(long.n * short.d, short.n * long.d) * Power(p + 1, w - p)
              <= Spread(Closes(bars)) * Power(p - 1, w - p) * (long.d * short.d)
=============================================================================
