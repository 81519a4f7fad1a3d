--------------------------- MODULE CandleHistory ---------------------------
(***************************************************************************)
(* market_data.load_or_fetch_candles: historical candles from a cache file *)
(* and from OKX, paged backwards.                                          *)
(*                                                                         *)
(* A candle is the number of its bar: closed bars do not change.  The file *)
(* has one line per candle, oldest first, and is written by one process at *)
(* a time, so it is the set of its bars; "sorted by ts" and "deduplicated  *)
(* by ts" need no words then, and a file cut off in the middle is the set  *)
(* of its oldest bars.                                                     *)
(***************************************************************************)
EXTENDS Integers, FiniteSets

CONSTANTS
  Targets,    \* target_count
  PageLimit,  \* page_limit, as far as OKX honours it
  MaxPages,   \* max_pages
  MaxLast     \* bound: bars that close

ASSUME HistoryAssumption ==
  /\ Targets \subseteq Nat
  /\ PageLimit \in Nat \ {0} /\ MaxPages \in Nat /\ MaxLast \in Nat

VARIABLES
  last,    \* exchange: the bars 1..last have closed, last + 1 is forming
  file,    \* the bars in the cache file
  load,    \* the call in progress, with its local state
  result,  \* what the last call gave its caller, until the next one begins
  kept,    \* bookkeeping: bars that were saved and not lost with a crash
  holes    \* bookkeeping: bars a fetch passed over between the cache and its pages

historyVars == <<last, file, load, result, kept, holes>>

Bars == 1..MaxLast
NoLoad == [pc |-> "idle", target |-> 0, cached |-> {}, got |-> {}, pages |-> 0,
           asOf |-> 0, short |-> FALSE]
NoResult == [bars |-> {}, target |-> 0, fetched |-> FALSE, asOf |-> 0, short |-> FALSE]

Least(S)    == CHOOSE b \in S : \A c \in S : b <= c
Greatest(S) == CHOOSE b \in S : \A c \in S : c <= b

\* candles[-n:] of a sorted list; candles[-0:] is the whole list.
Newest(S, n) ==
  IF n = 0 THEN S ELSE {b \in S : Cardinality({c \in S : c > b}) < n}

\* What a file loses when its writer dies: all but a number of first lines.
OldestParts(S) == {{b \in S : b < n} : n \in 1..(MaxLast + 1)}

HistoryInit ==
  /\ last \in Bars /\ file = {} /\ load = NoLoad /\ result = NoResult
  /\ kept = {} /\ holes = {}

-----------------------------------------------------------------------------
(* OKX. *)

LatestPageMut == {b \in 1..(last + 1) : b > last + 1 - PageLimit}

\* get_candles: the newest rows; the one that is forming is dropped by
\* parse_okx_candles.
LatestPage == {b \in 1..last : b > last + 1 - PageLimit}

OlderPageMut(earliest) == {b \in 1..last : b < earliest - 1 /\ b >= earliest - PageLimit}

\* get_history_candles(after): the rows before that bar.
OlderPage(earliest) == {b \in 1..last : b < earliest /\ b >= earliest - PageLimit}

BarCloses ==
  /\ last < MaxLast
  /\ last' = last + 1
  /\ UNCHANGED <<file, load, result, kept, holes>>

-----------------------------------------------------------------------------
(* One call. *)

Return(bars) ==
  /\ result' = [bars |-> bars, target |-> load.target, fetched |-> TRUE,
                asOf |-> load.asOf, short |-> load.short]
  /\ load' = NoLoad

\* load_candles_from_cache; enough of them and no refresh: no call to OKX.
Load(target, refresh) ==
  /\ load.pc = "idle"
  /\ IF ~refresh /\ Cardinality(file) >= target
     THEN /\ result' = [NoResult EXCEPT !.bars = Newest(file, target), !.target = target]
          /\ load' = load
     ELSE /\ load' = [NoLoad EXCEPT !.target = target, !.cached = file,
                                    !.pc = IF target = 0 THEN "save" ELSE "latest"]
          /\ result' = NoResult
  /\ UNCHANGED <<last, file, kept, holes>>

\* An error response has no rows.
Latest ==
  /\ load.pc = "latest"
  /\ \/ load' = [load EXCEPT !.pc = "older", !.got = LatestPage, !.asOf = last]
     \/ load' = [load EXCEPT !.pc = "older", !.asOf = last]
  /\ UNCHANGED <<last, file, result, kept, holes>>

Wanting == Cardinality(load.got) < load.target /\ load.pages < MaxPages /\ load.got # {}

\* One more page; a page without a new row ends the paging.
Older ==
  /\ load.pc = "older" /\ Wanting
  /\ \/ LET page == OlderPage(Least(load.got))
        IN  load' = IF page = {} THEN [load EXCEPT !.pc = "save"]
                    ELSE [load EXCEPT !.got = @ \cup page, !.pages = @ + 1]
     \/ load' = [load EXCEPT !.pc = "save", !.short = TRUE]
  /\ UNCHANGED <<last, file, result, kept, holes>>

\* Enough of them, no row at all, or no page left to ask for; what is more than
\* asked for is dropped.
Enough ==
  /\ load.pc = "older" /\ ~Wanting
  /\ load' = [load EXCEPT !.pc = "save",
                          !.got = IF @ = {} THEN @ ELSE Newest(@, load.target),
                          !.short = Cardinality(load.got) < load.target]
  /\ UNCHANGED <<last, file, result, kept, holes>>

\* A call to OKX raises, and load_or_fetch_candles with it.
Raises ==
  /\ load.pc \in {"latest", "older"}
  /\ load' = NoLoad
  /\ UNCHANGED <<last, file, result, kept, holes>>

MergedMut == load.got

\* merged: the cache and the fetched candles.
Merged == load.cached \cup load.got

\* Bars between the cache and a fetch that does not reach back to it.
PassedOver ==
  IF load.cached = {} \/ load.got = {} THEN {}
  ELSE {b \in Bars : Greatest(load.cached) < b /\ b < Least(load.got)}

\* save_candles_to_cache: open(path, "w") ...
OpenCache ==
  /\ load.pc = "save"
  /\ file' = {}
  /\ load' = [load EXCEPT !.pc = "write"]
  /\ holes' = (holes \ load.got) \cup PassedOver
  /\ UNCHANGED <<last, result, kept>>

\* ... and the lines; then the newest of them are returned.
WriteCache ==
  /\ load.pc = "write"
  /\ file' = Merged
  /\ kept' = kept \cup Merged
  /\ Return(Newest(Merged, load.target))
  /\ UNCHANGED <<last, holes>>

\* The process dies; if it was writing, the file ends somewhere.
HistoryCrash ==
  /\ load' = NoLoad
  /\ IF load.pc = "write"
     THEN /\ file' \in OldestParts(Merged)
          /\ kept' = file'
     ELSE UNCHANGED <<file, kept>>
  /\ UNCHANGED <<last, result, holes>>

HistoryNext ==
  \/ BarCloses
  \/ \E target \in Targets, refresh \in BOOLEAN : Load(target, refresh)
  \/ Latest \/ Older \/ Enough \/ Raises
  \/ OpenCache \/ WriteCache
  \/ HistoryCrash

HistorySpec == HistoryInit /\ [][HistoryNext]_historyVars

-----------------------------------------------------------------------------
(* Properties. *)

HistoryTypeOK ==
  /\ last \in Bars /\ file \subseteq Bars /\ kept \subseteq Bars /\ holes \subseteq Bars
  /\ load \in [pc : {"idle", "latest", "older", "save", "write"}, target : Targets \cup {0},
               cached : SUBSET Bars, got : SUBSET Bars, pages : 0..MaxPages,
               asOf : 0..MaxLast, short : BOOLEAN]
  /\ result \in [bars : SUBSET Bars, target : Targets \cup {0}, fetched : BOOLEAN,
                 asOf : 0..MaxLast, short : BOOLEAN]

(* A call that asked OKX and got as many bars as it wanted returns exactly *)
(* the newest bars there were, one after another, whatever the cache held  *)
(* before: an old file, one with a gap, or what a crash left of one.       *)
FetchedIsCurrent ==
  result.fetched /\ ~result.short /\ result.target > 0 =>
    result.bars = {b \in Bars : b <= result.asOf /\ b > result.asOf - result.target}

(* A bar that was saved stays in the cache file, over merges, fetches that *)
(* fail and calls that want less; only a crash while the file is written   *)
(* loses any.                                                              *)
HistoryKept == load.pc # "write" => kept \subseteq file

(* Bars are missing inside the cache file, and so inside a result taken    *)
(* from it, only where a fetch did not reach back to what the cache had:   *)
(* neither the paging nor a crash leaves a hole of its own.                *)
GapsNoted ==
  load.pc # "write" =>
    \A b \in Bars \ file :
      (\E c \in file : c < b) /\ (\E c \in file : b < c) => b \in holes
=============================================================================
