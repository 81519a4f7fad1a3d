----------------------------- MODULE Feeds_proofs -----------------------------
(***************************************************************************)
(* What the program hears from the exchange, for any targets, page sizes,  *)
(* times to live, orders, symbols and bounds on the faults: the cache of   *)
(* historical candles, the one of funding rates, the private websocket and *)
(* the public stream of candles.                                           *)
(***************************************************************************)
EXTENDS CandleHistory, FundingGuard, WsRuntime, CandleStream, DataLemmas,
        SequenceTheorems

-----------------------------------------------------------------------------
(* The funding guard.                                                      *)

\* The strengthening: what is cached was the rate when it was fetched.
SnapshotTrue == cache # NoSnapshot => cache.at <= now /\ cache.rate = rate[cache.at]

FundingInv == FundingTypeOK /\ SnapshotTrue /\ VerdictIsRecent

LEMMA FundingStep == FundingInv /\ [FundingNext]_fundingVars => FundingInv'
<1> SUFFICES ASSUME FundingInv, [FundingNext]_fundingVars PROVE FundingInv'
  OBVIOUS
<1> USE FundingAssumption
<1>1. CASE Tick
  <2>1. FundingTypeOK' BY <1>1 DEF FundingInv, FundingTypeOK, Tick, Snapshots
  <2>2. SnapshotTrue' BY <1>1 DEF FundingInv, FundingTypeOK, SnapshotTrue, Tick, Snapshots
  <2>3. VerdictIsRecent' BY <1>1 DEF FundingInv, VerdictIsRecent, Tick
  <2> QED BY <2>1, <2>2, <2>3 DEF FundingInv
<1>2. ASSUME NEW side \in {"buy", "sell"}, Check(side) PROVE FundingInv'
  <2> USE <1>2
  <2>1. CASE ~IsEnabled /\ verdict' = [NoVerdict EXCEPT !.side = side, !.at = now] /\ cache' = cache
    BY <2>1 DEF FundingInv, FundingTypeOK, SnapshotTrue, VerdictIsRecent, NoVerdict, Check
  <2>2. CASE IsEnabled /\ IsFresh /\ Answer(side, cache) /\ cache' = cache
    <3>1. cache \in Snapshots BY <2>2 DEF FundingInv, FundingTypeOK, IsFresh
    <3>2. /\ verdict'.side = side /\ verdict'.at = now /\ verdict'.reason = "rate"
          /\ verdict'.allowed = ~Costly(cache.rate, side)
      BY <2>2 DEF Answer, IsFresh
    <3>3. cache.at \in 0..now /\ now - cache.at < Ttl
      BY <2>2, <3>1 DEF FundingInv, FundingTypeOK, SnapshotTrue, IsFresh, Snapshots
    <3>4. cache.rate = rate[cache.at] BY <2>2 DEF FundingInv, SnapshotTrue, IsFresh
    <3>5. VerdictIsRecent'
      BY <3>2, <3>3, <3>4 DEF VerdictIsRecent, Check, Costly
    <3>6. FundingTypeOK' BY <2>2 DEF FundingInv, FundingTypeOK, Check, Answer, Costly
    <3>7. SnapshotTrue' BY <2>2 DEF FundingInv, SnapshotTrue, Check
    <3> QED BY <3>5, <3>6, <3>7 DEF FundingInv
  <2>3. CASE cache' = [rate |-> rate[now], at |-> now] /\ Answer(side, cache')
    <3>1. cache' \in Snapshots BY <2>3 DEF FundingInv, FundingTypeOK, Snapshots
    <3>2. cache' # NoSnapshot BY <3>1 DEF Snapshots
    <3>3. /\ verdict'.side = side /\ verdict'.at = now /\ verdict'.reason = "rate"
          /\ verdict'.allowed = ~Costly(rate[now], side)
      BY <2>3, <3>2 DEF Answer
    <3>4. now \in 0..now BY DEF FundingInv, FundingTypeOK
    <3>5. VerdictIsRecent' BY <3>3, <3>4 DEF VerdictIsRecent, Check, Costly
    <3>6. FundingTypeOK' BY <2>3, <3>1 DEF FundingInv, FundingTypeOK, Check, Answer, Costly
    <3>7. SnapshotTrue' BY <2>3 DEF FundingInv, FundingTypeOK, SnapshotTrue, Check
    <3> QED BY <3>5, <3>6, <3>7 DEF FundingInv
  <2>4. CASE Answer(side, NoSnapshot) /\ cache' = cache
    BY <2>4 DEF FundingInv, FundingTypeOK, SnapshotTrue, VerdictIsRecent, Answer, Check
  <2> QED BY <2>1, <2>2, <2>3, <2>4 DEF Check
<1>3. CASE UNCHANGED fundingVars
  BY <1>3 DEF FundingInv, FundingTypeOK, SnapshotTrue, VerdictIsRecent, fundingVars
<1> QED BY <1>1, <1>2, <1>3 DEF FundingNext

(* funding.FundingGuard.check, for any rates and any time to live: a       *)
(* verdict on the rate is about a rate of the last ttl_seconds, whatever   *)
(* fetches failed and however often the rate changed since.                *)
THEOREM VerdictsAreRecent == FundingSpec => []VerdictIsRecent
<1>1. FundingInit => FundingInv
  BY FundingAssumption
  DEF FundingInit, FundingInv, FundingTypeOK, SnapshotTrue, VerdictIsRecent, NoVerdict
<1>2. FundingInv => VerdictIsRecent BY DEF FundingInv
<1> QED BY <1>1, <1>2, FundingStep, PTL DEF FundingSpec

-----------------------------------------------------------------------------
(* Sets of bars.                                                           *)

LEMMA LeastOfInterval ==
  ASSUME NEW lo \in Int, NEW hi \in Int, lo <= hi
  PROVE  Least(lo..hi) = lo
BY DEF Least

\* A set of bars has a newest one: the least of its upper bounds.
LEMMA GreatestExists ==
  ASSUME NEW S \in SUBSET Bars, S # {}
  PROVE  Greatest(S) \in S /\ \A c \in S : c <= Greatest(S)
<1> USE HistoryAssumption DEF Bars
<1> DEFINE Bounds == {n \in Nat : \A c \in S : c <= n}
<1>1. MaxLast \in Bounds OBVIOUS
<1>2. PICK m \in Bounds : \A n \in Bounds : ~(<<n, m>> \in OpToRel(<, Nat))
  BY <1>1, NatLessThanWellFounded, WFMin
<1>3. \A n \in Bounds : ~(n < m) BY <1>2 DEF OpToRel
<1>4. m \in S
  <2> SUFFICES ASSUME m \notin S PROVE FALSE
    OBVIOUS
  <2>1. \A c \in S : c <= m - 1 OBVIOUS
  <2>2. m # 0
    <3>1. PICK c \in S : TRUE OBVIOUS
    <3>2. c \in 1..MaxLast /\ c <= m BY <3>1
    <3> QED BY <3>2
  <2>3. m - 1 \in Nat BY <2>2
  <2>4. m - 1 \in Bounds BY <2>1, <2>3
  <2> QED BY <1>3, <2>4
<1> QED BY <1>4 DEF Greatest

\* The newest n bars up to hi.
Recent(hi, n) == {b \in 1..hi : b > hi - n}

LEMMA FewAreAllNewest ==
  ASSUME NEW S \in SUBSET Bars, NEW n \in Nat, Cardinality(S) < n
  PROVE  Newest(S, n) = S
<1> USE HistoryAssumption DEF Bars
<1>1. IsFiniteSet(S)
  <2>1. IsFiniteSet(1..MaxLast) BY FS_Interval
  <2> QED BY <2>1, FS_Subset
<1>2. ASSUME NEW b \in S PROVE Cardinality({c \in S : c > b}) < n
  <2>1. /\ Cardinality({c \in S : c > b}) <= Cardinality(S)
        /\ Cardinality(S) \in Nat
        /\ Cardinality({c \in S : c > b}) \in Nat
    BY <1>1, FS_Subset, FS_CardinalityType
  <2> QED BY <2>1
<1>3. Cardinality(S) \in Nat BY <1>1, FS_CardinalityType
<1> QED BY <1>2, <1>3 DEF Newest

\* candles[-n:] of a list that ends with the newest n bars is those bars.
LEMMA NewestAreRecent ==
  ASSUME NEW S, NEW hi \in Nat, S \subseteq 1..hi, NEW n \in Nat \ {0},
         Recent(hi, n) \subseteq S
  PROVE  Newest(S, n) = Recent(hi, n)
<1>1. IsFiniteSet(S)
  <2>1. IsFiniteSet(1..hi) BY FS_Interval
  <2>2. S \in SUBSET (1..hi) OBVIOUS
  <2> QED BY <2>1, <2>2, FS_Subset
<1>2. ASSUME NEW b \in S PROVE Cardinality({c \in S : c > b}) < n <=> b > hi - n
  <2> DEFINE Above == {c \in S : c > b}
  <2>0. b \in 1..hi OBVIOUS
  <2>1. IsFiniteSet(Above) /\ Cardinality(Above) \in Nat
    BY <1>1, FS_Subset, FS_CardinalityType
  <2>2. CASE b > hi - n
    <3>1. Above = (b + 1)..hi
      <4>1. ASSUME NEW c \in (b + 1)..hi PROVE c \in Above
        <5>1. c \in Recent(hi, n) BY <2>0, <2>2, <4>1 DEF Recent
        <5> QED BY <2>0, <4>1, <5>1
      <4>2. ASSUME NEW c \in Above PROVE c \in (b + 1)..hi
        BY <2>0, <4>2
      <4> QED BY <4>1, <4>2
    <3>2. b + 1 \in Int /\ hi \in Int BY <2>0
    <3>3. Cardinality((b + 1)..hi) = IF b + 1 > hi THEN 0 ELSE hi - (b + 1) + 1
      BY <3>2, FS_Interval
    <3>4. Cardinality(Above) = IF b + 1 > hi THEN 0 ELSE hi - (b + 1) + 1
      BY <3>1, <3>3
    <3> HIDE DEF Above
    <3>5. Cardinality(Above) < n BY <2>0, <2>2, <3>4
    <3> QED BY <2>2, <3>5 DEF Above
  <2>3. CASE ~(b > hi - n)
    <3>1. (hi - n + 1)..hi \subseteq Above BY <2>0, <2>3 DEF Recent
    <3>2. Cardinality((hi - n + 1)..hi) = n BY FS_Interval
    <3>3. n <= Cardinality(Above) BY <2>1, <3>1, <3>2, FS_Subset
    <3> QED BY <2>1, <2>3, <3>3
  <2> QED BY <2>2, <2>3
<1>3. Newest(S, n) = {b \in S : b > hi - n} BY <1>2 DEF Newest
<1> QED BY <1>3 DEF Recent

LEMMA NewestIsPart ==
  ASSUME NEW S, NEW n PROVE Newest(S, n) \subseteq S
BY DEF Newest

-----------------------------------------------------------------------------
(* The candle cache.                                                       *)

Fetched == load.pc \in {"older", "save", "write"}
Saving  == load.pc \in {"save", "write"}

\* What has been fetched is an interval that ends at the bar that had closed
\* when the first page was read; what the cache has is no newer.
LoadInv ==
  /\ file \subseteq 1..last /\ load.cached \subseteq 1..last
  /\ load.pc \in {"latest", "older", "save"} => load.cached = file
  /\ load.pc \in {"latest", "older"} => load.target > 0
  /\ load.pc = "latest" => load.got = {}
  /\ Fetched /\ load.target > 0 => load.asOf \in 1..last /\ load.cached \subseteq 1..load.asOf
  /\ Fetched /\ load.target = 0 => load.got = {}
  /\ Fetched => load.got = {} \/ \E lo \in 1..load.asOf : load.got = lo..load.asOf
  /\ Saving /\ ~load.short /\ load.target > 0 => load.got = Recent(load.asOf, load.target)

LoadSet ==
  [pc : {"idle", "latest", "older", "save", "write"}, target : Targets \cup {0},
   cached : SUBSET Bars, got : SUBSET Bars, pages : 0..MaxPages,
   asOf : 0..MaxLast, short : BOOLEAN]

\* A step that leaves the file and the result alone is typed when its load is.
LEMMA LoadTyped ==
  ASSUME HistoryTypeOK, load' \in LoadSet,
         UNCHANGED <<last, file, result, kept>>, holes' = holes
  PROVE  HistoryTypeOK'
BY DEF HistoryTypeOK, LoadSet

ResultSet ==
  [bars : SUBSET Bars, target : Targets \cup {0}, fetched : BOOLEAN,
   asOf : 0..MaxLast, short : BOOLEAN]

\* The same of a step that leaves the file alone.
LEMMA ResultTyped ==
  ASSUME HistoryTypeOK, load' \in LoadSet, result' \in ResultSet,
         UNCHANGED <<last, file, kept, holes>>
  PROVE  HistoryTypeOK'
BY DEF HistoryTypeOK, LoadSet, ResultSet

LEMMA LoadFields ==
  ASSUME HistoryTypeOK
  PROVE  /\ load \in LoadSet
         /\ load.target \in Nat /\ load.cached \subseteq Bars /\ load.got \subseteq Bars
         /\ load.pages \in 0..MaxPages /\ load.asOf \in 0..MaxLast /\ load.short \in BOOLEAN
<1>1. load \in LoadSet BY DEF HistoryTypeOK, LoadSet
<1>2. /\ load.target \in Targets \cup {0} /\ load.cached \in SUBSET Bars
      /\ load.got \in SUBSET Bars /\ load.pages \in 0..MaxPages
      /\ load.asOf \in 0..MaxLast /\ load.short \in BOOLEAN
  BY <1>1 DEF LoadSet
<1>3. load.target \in Nat
  <2>1. load.target \in Targets \cup {0} BY <1>2
  <2>2. Targets \cup {0} \subseteq Nat BY HistoryAssumption
  <2> QED BY <2>1, <2>2
<1> QED BY <1>1, <1>2, <1>3

LEMMA LoadInit == HistoryInit => HistoryTypeOK /\ LoadInv
<1> SUFFICES ASSUME HistoryInit PROVE HistoryTypeOK /\ LoadInv
  OBVIOUS
<1>1. load \in LoadSet /\ result \in ResultSet
  BY HistoryAssumption DEF HistoryInit, NoLoad, NoResult, LoadSet, ResultSet
<1>2. HistoryTypeOK BY <1>1 DEF HistoryInit, HistoryTypeOK, LoadSet, ResultSet
<1>3. LoadInv BY DEF HistoryInit, NoLoad, LoadInv, Fetched, Saving
<1> QED BY <1>2, <1>3

\* What is written has closed.
LEMMA MergedClosed ==
  ASSUME HistoryTypeOK, LoadInv, Fetched
  PROVE  Merged \subseteq 1..last
<1>1. load.got \subseteq 1..last
  <2>1. CASE load.target = 0 BY <2>1 DEF LoadInv
  <2>2. CASE load.target > 0
    <3>1. load.asOf \in 1..last BY <2>2 DEF LoadInv
    <3>2. load.got = {} \/ \E lo \in 1..load.asOf : load.got = lo..load.asOf BY DEF LoadInv
    <3> QED BY <3>1, <3>2 DEF HistoryTypeOK, Bars
  <2> QED BY <2>1, <2>2, LoadFields
<1> QED BY <1>1 DEF Merged, LoadInv

LEMMA LoadStep == HistoryTypeOK /\ LoadInv /\ [HistoryNext]_historyVars => HistoryTypeOK' /\ LoadInv'
<1> SUFFICES ASSUME HistoryTypeOK, LoadInv, [HistoryNext]_historyVars
             PROVE  HistoryTypeOK' /\ LoadInv'
  OBVIOUS
<1> USE HistoryAssumption
<1>1. CASE BarCloses
  <2>1. HistoryTypeOK' BY <1>1 DEF HistoryTypeOK, BarCloses, Bars
  <2>2. LoadInv' BY <1>1 DEF HistoryTypeOK, LoadInv, BarCloses, Bars, Fetched, Saving
  <2> QED BY <2>1, <2>2
<1>2. ASSUME NEW target \in Targets, NEW refresh \in BOOLEAN, Load(target, refresh)
      PROVE  HistoryTypeOK' /\ LoadInv'
  <2>1. Newest(file, target) \in SUBSET Bars BY NewestIsPart DEF HistoryTypeOK
  <2>2. UNCHANGED <<last, file, kept, holes>> BY <1>2 DEF Load
  <2>3. CASE /\ result' = [NoResult EXCEPT !.bars = Newest(file, target), !.target = target]
             /\ load' = load
    <3>1. result' = [bars |-> Newest(file, target), target |-> target, fetched |-> FALSE,
                     asOf |-> 0, short |-> FALSE]
      BY <2>3 DEF NoResult
    <3>2. result' \in ResultSet BY <2>1, <3>1 DEF ResultSet
    <3>3. HistoryTypeOK' BY <2>2, <2>3, <3>2, ResultTyped, LoadFields
    <3>4. LoadInv' BY <2>2, <2>3 DEF LoadInv, Fetched, Saving
    <3> QED BY <3>3, <3>4
  <2>4. CASE /\ load' = [NoLoad EXCEPT !.target = target, !.cached = file,
                                      !.pc = IF target = 0 THEN "save" ELSE "latest"]
             /\ result' = NoResult
    <3>1. load' = [pc |-> IF target = 0 THEN "save" ELSE "latest", target |-> target,
                   cached |-> file, got |-> {}, pages |-> 0, asOf |-> 0, short |-> FALSE]
      BY <2>4 DEF NoLoad
    <3>2. load' \in LoadSet BY <3>1 DEF LoadSet, HistoryTypeOK
    <3>3. result' \in ResultSet BY <2>4 DEF NoResult, ResultSet
    <3>4. HistoryTypeOK' BY <2>2, <3>2, <3>3, ResultTyped
    <3>5. target \in Nat OBVIOUS
    <3>6. LoadInv' BY <2>2, <3>1, <3>5 DEF LoadInv, Fetched, Saving
    <3> QED BY <3>4, <3>6
  <2> QED BY <1>2, <2>3, <2>4 DEF Load
<1>3. CASE Latest
  <2>1. LatestPage \subseteq Bars BY DEF LatestPage, HistoryTypeOK, Bars
  <2>2. LatestPage = {} \/ \E lo \in 1..last : LatestPage = lo..last
    <3>1. last \in 1..MaxLast BY DEF HistoryTypeOK, Bars
    <3>2. CASE PageLimit = 1
      BY <3>1, <3>2 DEF LatestPage
    <3>3. CASE PageLimit # 1 /\ last + 2 - PageLimit >= 1
      <4>1. LatestPage = (last + 2 - PageLimit)..last BY <3>1, <3>3 DEF LatestPage
      <4>2. last + 2 - PageLimit \in 1..last BY <3>1, <3>3
      <4> QED BY <4>1, <4>2
    <3>4. CASE last + 2 - PageLimit < 1
      <4>1. LatestPage = 1..last BY <3>1, <3>4 DEF LatestPage
      <4>2. 1 \in 1..last BY <3>1
      <4> QED BY <4>1, <4>2
    <3> QED BY <3>1, <3>2, <3>3, <3>4
  <2>3. /\ load.pc = "latest" /\ UNCHANGED <<last, file, result, kept, holes>>
        /\ last \in 1..MaxLast
    BY <1>3 DEF Latest, HistoryTypeOK, Bars
  <2>4. PICK page \in {LatestPage, {}} :
          load' = [load EXCEPT !.pc = "older", !.got = page, !.asOf = last]
    <3>1. CASE load' = [load EXCEPT !.pc = "older", !.got = LatestPage, !.asOf = last]
      BY <3>1
    <3>2. CASE load' = [load EXCEPT !.pc = "older", !.asOf = last]
      <4>1. load.got = {} BY <2>3 DEF LoadInv
      <4>2. load' = [load EXCEPT !.pc = "older", !.got = {}, !.asOf = last]
        BY <3>2, <4>1, LoadFields DEF LoadSet
      <4> QED BY <4>2
    <3> QED BY <1>3, <3>1, <3>2 DEF Latest
  <2>5. load' \in LoadSet
    <3>1. page \in SUBSET Bars /\ last \in 0..MaxLast BY <2>1, <2>3
    <3> QED BY <2>4, <3>1, LoadFields DEF LoadSet
  <2>6. /\ load'.pc = "older" /\ load'.got = page /\ load'.asOf = last
        /\ load'.target = load.target /\ load'.cached = load.cached
    BY <2>4, LoadFields DEF LoadSet
  <2>7. load'.target > 0 /\ load'.cached = file /\ file \subseteq 1..last
    BY <2>3, <2>6 DEF LoadInv
  <2>8. LoadInv' BY <2>2, <2>3, <2>6, <2>7, LoadFields DEF LoadInv, Fetched, Saving
  <2> QED BY <2>3, <2>5, <2>8, LoadTyped
<1>4. CASE Older
  <2> DEFINE page == OlderPage(Least(load.got))
  <2>1. PICK lo \in 1..load.asOf : load.got = lo..load.asOf
    BY <1>4 DEF Older, Wanting, LoadInv, Fetched
  <2>2. load.asOf \in 1..last /\ load.target \in Nat \ {0} /\ last \in 1..MaxLast
    BY <1>4 DEF Older, LoadInv, Fetched, HistoryTypeOK, Bars
  <2>3. Least(load.got) = lo BY <2>1, <2>2, LeastOfInterval
  <2>4. page = {b \in 1..last : b < lo /\ b >= lo - PageLimit} BY <2>3 DEF OlderPage
  <2>5. CASE page = {} /\ load' = [load EXCEPT !.pc = "save"]
    <3>1. lo = 1
      <4> SUFFICES ASSUME lo # 1 PROVE FALSE
        OBVIOUS
      <4>1. lo - 1 \in page BY <2>2, <2>4
      <4> QED BY <4>1, <2>5
    <3>2. Cardinality(load.got) = load.asOf BY <2>1, <2>2, <3>1, FS_Interval, SMTT(20)
    <3>3. load.asOf < load.target BY <1>4, <3>2 DEF Older, Wanting
    <3>4. load.got = Recent(load.asOf, load.target)
      BY <2>1, <2>2, <3>1, <3>3 DEF Recent
    <3>5. LoadInv'
      BY <1>4, <2>5, <3>4 DEF HistoryTypeOK, LoadInv, Older, Fetched, Saving
    <3>6. HistoryTypeOK' BY <1>4, <2>5 DEF HistoryTypeOK, Older
    <3> QED BY <3>5, <3>6
  <2>6. CASE load' = [load EXCEPT !.got = @ \cup page, !.pages = @ + 1]
    <3>1. page \subseteq Bars BY <2>2, <2>4 DEF Bars
    <3>2. \E l \in 1..load.asOf : load.got \cup page = l..load.asOf
      <4>1. CASE lo - PageLimit >= 1
        <5>1. load.got \cup page = (lo - PageLimit)..load.asOf BY <2>1, <2>2, <2>4, <4>1
        <5> QED BY <5>1, <4>1, <2>2
      <4>2. CASE lo - PageLimit < 1
        <5>1. load.got \cup page = 1..load.asOf BY <2>1, <2>2, <2>4, <4>2
        <5> QED BY <5>1, <2>2
      <4> QED BY <4>1, <4>2, <2>2
    <3>3. LoadInv'
      BY <1>4, <2>2, <2>6, <3>2 DEF HistoryTypeOK, LoadInv, Older, Fetched, Saving
    <3>4. load.pages + 1 \in 0..MaxPages BY <1>4, LoadFields DEF Older, Wanting
    <3>5. load.got \cup page \in SUBSET Bars BY <3>1, LoadFields
    <3>6. load' \in LoadSet BY <2>6, <3>4, <3>5, LoadFields DEF LoadSet
    <3>7. HistoryTypeOK' BY <1>4, <3>6, LoadTyped DEF Older
    <3> QED BY <3>3, <3>7
  <2>7. CASE load' = [load EXCEPT !.pc = "save", !.short = TRUE]
    <3>1. LoadInv' BY <1>4, <2>7 DEF HistoryTypeOK, LoadInv, Older, Fetched, Saving
    <3>2. HistoryTypeOK' BY <1>4, <2>7 DEF HistoryTypeOK, Older
    <3> QED BY <3>1, <3>2
  <2> QED BY <1>4, <2>5, <2>6, <2>7 DEF Older
<1>5. CASE Enough
  <2> DEFINE got == IF load.got = {} THEN load.got ELSE Newest(load.got, load.target)
  <2>1. load.asOf \in 1..last /\ load.target \in Nat \ {0} /\ last \in 1..MaxLast
    BY <1>5 DEF Enough, LoadInv, Fetched, HistoryTypeOK, Bars
  <2>2. IsFiniteSet(load.got) /\ Cardinality(load.got) \in Nat
    <3>1. IsFiniteSet(Bars) BY FS_Interval DEF Bars
    <3> QED BY <3>1, LoadFields, FS_Subset, FS_CardinalityType
  <2>3. /\ load' = [load EXCEPT !.pc = "save", !.got = got,
                                !.short = Cardinality(load.got) < load.target]
        /\ load.pc = "older" /\ UNCHANGED <<last, file, result, kept, holes>>
    BY <1>5 DEF Enough
  <2>4. /\ load'.pc = "save" /\ load'.got = got /\ load'.asOf = load.asOf
        /\ load'.target = load.target /\ load'.cached = load.cached
        /\ load'.short = (Cardinality(load.got) < load.target)
    BY <2>3, LoadFields DEF LoadSet
  <2>5. got \subseteq Bars BY NewestIsPart, LoadFields
  <2>6. load' \in LoadSet
    <3>1. got \in SUBSET Bars /\ (Cardinality(load.got) < load.target) \in BOOLEAN
      BY <2>5
    <3> HIDE DEF got
    <3> QED BY <2>3, <3>1, LoadFields DEF LoadSet
  <2>7. \/ got = {}
        \/ \E lo \in 1..load.asOf : got = lo..load.asOf
    <3>1. CASE load.got = {} BY <3>1
    <3>2. CASE load.got # {} /\ Cardinality(load.got) < load.target
      <4>1. got = load.got BY <2>1, <3>2, LoadFields, FewAreAllNewest
      <4> QED BY <2>3, <4>1 DEF LoadInv, Fetched
    <3>3. CASE load.got # {} /\ ~(Cardinality(load.got) < load.target)
      <4>1. PICK lo \in 1..load.asOf : load.got = lo..load.asOf
        BY <2>3, <3>3 DEF LoadInv, Fetched
      <4>2. Cardinality(load.got) = load.asOf - lo + 1 BY <2>1, <4>1, FS_Interval
      <4>3. load.asOf - lo + 1 >= load.target BY <2>1, <3>3, <4>1, <4>2
      <4>4. Recent(load.asOf, load.target) \subseteq load.got
        BY <2>1, <4>1, <4>3 DEF Recent
      <4>5. got = Recent(load.asOf, load.target)
        BY <2>1, <3>3, <4>1, <4>4, NewestAreRecent
      <4>6. Recent(load.asOf, load.target) = (load.asOf - load.target + 1)..load.asOf
        BY <2>1, <4>1, <4>3 DEF Recent
      <4>7. load.asOf - load.target + 1 \in 1..load.asOf BY <2>1, <4>1, <4>3
      <4> QED BY <4>5, <4>6, <4>7
    <3> QED BY <3>1, <3>2, <3>3
  <2>8. ~load'.short => got = Recent(load.asOf, load.target)
    <3> SUFFICES ASSUME ~(Cardinality(load.got) < load.target)
                 PROVE  got = Recent(load.asOf, load.target)
      BY <2>4
    <3>1. load.got # {} BY <2>1, FS_EmptySet
    <3>2. PICK lo \in 1..load.asOf : load.got = lo..load.asOf
      BY <2>3, <3>1 DEF LoadInv, Fetched
    <3>3. Cardinality(load.got) = load.asOf - lo + 1 BY <2>1, <3>2, FS_Interval
    <3>4. Recent(load.asOf, load.target) \subseteq load.got
      BY <2>1, <3>2, <3>3 DEF Recent
    <3> QED BY <2>1, <3>1, <3>2, <3>4, NewestAreRecent
  <2>9. LoadInv'
    BY <2>1, <2>3, <2>4, <2>7, <2>8 DEF LoadInv, Fetched, Saving
  <2> QED BY <2>3, <2>6, <2>9, LoadTyped
<1>6. CASE Raises
  BY <1>6 DEF HistoryTypeOK, LoadInv, Raises, NoLoad, Fetched, Saving
<1>7. CASE OpenCache
  <2>1. HistoryTypeOK' BY <1>7 DEF HistoryTypeOK, OpenCache, PassedOver
  <2>2. LoadInv' BY <1>7 DEF HistoryTypeOK, LoadInv, OpenCache, Fetched, Saving
  <2> QED BY <2>1, <2>2
<1>8. CASE WriteCache
  <2>1. /\ load.pc = "write" /\ file' = Merged /\ kept' = kept \cup Merged
        /\ UNCHANGED <<last, holes>> /\ load' = NoLoad
        /\ result' = [bars |-> Newest(Merged, load.target), target |-> load.target,
                      fetched |-> TRUE, asOf |-> load.asOf, short |-> load.short]
    BY <1>8 DEF WriteCache, Return
  <2>2. Merged \subseteq 1..last BY <2>1, MergedClosed DEF Fetched
  <2>3. Merged \in SUBSET Bars /\ Newest(Merged, load.target) \in SUBSET Bars
    <3>1. Merged \subseteq Bars BY <2>2 DEF HistoryTypeOK, Bars
    <3>2. Newest(Merged, load.target) \subseteq Merged BY NewestIsPart
    <3> QED BY <3>1, <3>2
  <2>4. load' \in LoadSet BY <2>1 DEF NoLoad, LoadSet
  <2>5. result' \in ResultSet
    <3>1. load.target \in Targets \cup {0} BY LoadFields DEF LoadSet
    <3> QED BY <2>1, <2>3, <3>1, LoadFields DEF ResultSet
  <2>6. HistoryTypeOK' BY <2>1, <2>3, <2>4, <2>5 DEF HistoryTypeOK, LoadSet, ResultSet
  <2>7. LoadInv' BY <2>1, <2>2 DEF LoadInv, NoLoad, Fetched, Saving
  <2> QED BY <2>6, <2>7
<1>9. CASE HistoryCrash
  <2>1. load' = NoLoad /\ UNCHANGED <<last, result, holes>> BY <1>9 DEF HistoryCrash
  <2>2. file' \subseteq 1..last /\ kept' \in SUBSET Bars
    <3>1. CASE load.pc = "write"
      <4>1. Merged \subseteq 1..last BY <3>1, MergedClosed DEF Fetched
      <4>2. file' \in OldestParts(Merged) /\ kept' = file' BY <1>9, <3>1 DEF HistoryCrash
      <4>3. file' \subseteq Merged BY <4>2 DEF OldestParts
      <4> QED BY <4>1, <4>2, <4>3 DEF HistoryTypeOK, Bars
    <3>2. CASE load.pc # "write"
      BY <1>9, <3>2 DEF HistoryCrash, HistoryTypeOK, LoadInv
    <3> QED BY <3>1, <3>2
  <2>3. file' \in SUBSET Bars BY <2>2 DEF HistoryTypeOK, Bars
  <2>4. load' \in LoadSet BY <2>1 DEF NoLoad, LoadSet
  <2>5. HistoryTypeOK' BY <2>1, <2>2, <2>3, <2>4 DEF HistoryTypeOK, LoadSet
  <2>6. LoadInv' BY <2>1, <2>2 DEF LoadInv, NoLoad, Fetched, Saving
  <2> QED BY <2>5, <2>6
<1>10. CASE UNCHANGED historyVars
  BY <1>10 DEF HistoryTypeOK, LoadInv, historyVars, Fetched, Saving
<1> QED
  BY <1>1, <1>2, <1>3, <1>4, <1>5, <1>6, <1>7, <1>8, <1>9, <1>10 DEF HistoryNext

\* A fetch that was not cut short has the newest bars, and so has what is written.
LEMMA CurrentStep ==
  HistoryTypeOK /\ LoadInv /\ FetchedIsCurrent /\ [HistoryNext]_historyVars
    => FetchedIsCurrent'
<1> SUFFICES ASSUME HistoryTypeOK, LoadInv, FetchedIsCurrent, [HistoryNext]_historyVars
             PROVE  FetchedIsCurrent'
  OBVIOUS
<1>1. CASE WriteCache
  <2>1. /\ load.pc = "write"
        /\ result' = [bars |-> Newest(Merged, load.target), target |-> load.target,
                      fetched |-> TRUE, asOf |-> load.asOf, short |-> load.short]
    BY <1>1 DEF WriteCache, Return
  <2> SUFFICES ASSUME ~load.short, load.target > 0
               PROVE  result'.bars = {b \in Bars : /\ b <= load.asOf
                                                   /\ b > load.asOf - load.target}
    BY <2>1 DEF FetchedIsCurrent
  <2>2. /\ load.asOf \in 1..MaxLast /\ load.cached \subseteq 1..load.asOf
        /\ load.got = Recent(load.asOf, load.target) /\ load.target \in Nat \ {0}
    BY <2>1, LoadFields DEF LoadInv, Fetched, Saving
  <2>3. Merged \subseteq 1..load.asOf /\ Recent(load.asOf, load.target) \subseteq Merged
    BY <2>2 DEF Merged, Recent
  <2>4. Newest(Merged, load.target) = Recent(load.asOf, load.target)
    <3>1. load.asOf \in Nat BY <2>2
    <3> QED BY <2>2, <2>3, <3>1, NewestAreRecent
  <2>5. Recent(load.asOf, load.target)
          = {b \in Bars : b <= load.asOf /\ b > load.asOf - load.target}
    BY <2>2, HistoryAssumption DEF Recent, Bars
  <2> QED BY <2>1, <2>4, <2>5
<1>2. CASE \E target \in Targets, refresh \in BOOLEAN : Load(target, refresh)
  <2>1. PICK target \in Targets, refresh \in BOOLEAN : Load(target, refresh)
    BY <1>2
  <2>2. CASE result' = NoResult BY <2>2 DEF NoResult, FetchedIsCurrent
  <2>3. CASE result' = [NoResult EXCEPT !.bars = Newest(file, target), !.target = target]
    <3>1. result' = [bars |-> Newest(file, target), target |-> target, fetched |-> FALSE,
                     asOf |-> 0, short |-> FALSE]
      BY <2>3 DEF NoResult
    <3> QED BY <3>1 DEF FetchedIsCurrent
  <2> QED BY <2>1, <2>2, <2>3 DEF Load
<1>3. CASE result' = result
  BY <1>3 DEF FetchedIsCurrent, Bars
<1> QED
  BY <1>1, <1>2, <1>3
  DEF HistoryNext, historyVars, BarCloses, Latest, Older, Enough, Raises, OpenCache, HistoryCrash

(* Type correctness of the candle cache: no call pages further than        *)
(* max_pages, and nothing but bars gets into the file.                     *)
THEOREM HistoryTypeCorrect == HistorySpec => []HistoryTypeOK
BY LoadInit, LoadStep, PTL DEF HistorySpec

(* market_data.load_or_fetch_candles, for any target, page size and limit  *)
(* on pages: a call that asked OKX and was not cut short returns exactly   *)
(* the newest bars there were, whatever the cache held before.             *)
THEOREM FetchesAreCurrent == HistorySpec => []FetchedIsCurrent
<1>1. HistoryInit => HistoryTypeOK /\ LoadInv /\ FetchedIsCurrent
  BY LoadInit DEF HistoryInit, NoResult, FetchedIsCurrent
<1> QED BY <1>1, LoadStep, CurrentStep, PTL DEF HistorySpec

-----------------------------------------------------------------------------
(* What stays in the file, and what is missing from it.                    *)

\* While the file is being written, what it had is in the call's own hands.
KeptInv == HistoryKept /\ (load.pc = "write" => kept \subseteq load.cached)

LEMMA KeptStep ==
  HistoryTypeOK /\ LoadInv /\ KeptInv /\ [HistoryNext]_historyVars => KeptInv'
<1> SUFFICES ASSUME HistoryTypeOK, LoadInv, KeptInv, [HistoryNext]_historyVars PROVE KeptInv'
  OBVIOUS
<1> USE DEF KeptInv, HistoryKept
<1>1. CASE BarCloses BY <1>1 DEF BarCloses
<1>2. CASE \E target \in Targets, refresh \in BOOLEAN : Load(target, refresh)
  BY <1>2 DEF Load, NoLoad
<1>3. CASE Latest BY <1>3, LoadFields DEF Latest, LoadSet
<1>4. CASE Older BY <1>4, LoadFields DEF Older, LoadSet
<1>5. CASE Enough BY <1>5, LoadFields DEF Enough, LoadSet
<1>6. CASE Raises BY <1>6 DEF Raises, NoLoad
<1>7. CASE OpenCache BY <1>7 DEF OpenCache, LoadInv
<1>8. CASE WriteCache BY <1>8 DEF WriteCache, Merged, Return, NoLoad
<1>9. CASE HistoryCrash BY <1>9 DEF HistoryCrash, NoLoad
<1>10. CASE UNCHANGED historyVars BY <1>10 DEF historyVars
<1> QED
  BY <1>1, <1>2, <1>3, <1>4, <1>5, <1>6, <1>7, <1>8, <1>9, <1>10 DEF HistoryNext

(* A bar that was saved stays in the cache file, over failed fetches and   *)
(* calls that want less, whatever their number: market_data.py writes what *)
(* it read together with what it fetched.                                  *)
THEOREM SavedBarsStay == HistorySpec => []HistoryKept
<1>1. HistoryInit => HistoryTypeOK /\ LoadInv /\ KeptInv
  BY LoadInit DEF HistoryInit, NoLoad, KeptInv, HistoryKept
<1>2. KeptInv => HistoryKept BY DEF KeptInv
<1> QED BY <1>1, <1>2, LoadStep, KeptStep, PTL DEF HistorySpec

\* Every bar missing inside S is in H.
GapsIn(S, H) ==
  \A b \in Bars \ S : (\E c \in S : c < b) /\ (\E c \in S : b < c) => b \in H

\* The same for what is going to be written.
GapsInv == GapsNoted /\ (load.pc = "write" => GapsIn(Merged, holes))

LEMMA NotedAreGaps == GapsNoted <=> (load.pc # "write" => GapsIn(file, holes))
BY DEF GapsNoted, GapsIn

\* Merging the cache with the fetched bars opens no gap but the noted ones.
LEMMA MergeGaps ==
  ASSUME HistoryTypeOK, LoadInv, load.pc = "save", GapsIn(load.cached, holes)
  PROVE  GapsIn(Merged, (holes \ load.got) \cup PassedOver)
<1> SUFFICES ASSUME NEW b \in Bars, b \notin Merged, NEW c \in Merged, NEW d \in Merged,
                    c < b, b < d
             PROVE  b \in (holes \ load.got) \cup PassedOver
  BY DEF GapsIn
<1>0. b \notin load.got /\ b \notin load.cached /\ Merged \subseteq Bars /\ b \in 1..MaxLast
  BY LoadFields DEF Merged, Bars
<1>1. CASE load.got = {}
  BY <1>0, <1>1 DEF Merged, GapsIn
<1>2. CASE load.got # {}
  <2>1. PICK lo \in 1..load.asOf : load.got = lo..load.asOf
    BY <1>2 DEF LoadInv, Fetched
  <2>2. load.asOf \in 1..MaxLast /\ load.cached \subseteq 1..load.asOf
    <3>1. load.target > 0 BY <1>2, LoadFields DEF LoadInv, Fetched
    <3> QED BY <3>1, LoadFields DEF LoadInv, Fetched
  <2>3. Merged \subseteq 1..load.asOf BY <2>1, <2>2 DEF Merged
  <2>4. b < lo BY <1>0, <2>1, <2>2, <2>3
  <2>5. c \in load.cached BY <1>0, <2>1, <2>2, <2>3, <2>4 DEF Merged
  <2>6. CASE \E e \in load.cached : b < e
    BY <1>0, <2>5, <2>6 DEF GapsIn
  <2>7. CASE ~\E e \in load.cached : b < e
    <3>1. /\ Greatest(load.cached) \in load.cached
          /\ \A e \in load.cached : e <= Greatest(load.cached)
      BY <2>5, LoadFields, GreatestExists
    <3>2. Greatest(load.cached) < b
      <4>1. Greatest(load.cached) \in 1..load.asOf BY <2>2, <3>1
      <4>2. Greatest(load.cached) # b BY <1>0, <3>1
      <4> QED BY <1>0, <2>7, <3>1, <4>1, <4>2
    <3>3. Least(load.got) = lo BY <2>1, <2>2, LeastOfInterval
    <3>4. b \in PassedOver BY <1>2, <2>4, <2>5, <3>2, <3>3 DEF PassedOver
    <3> QED BY <3>4
  <2> QED BY <2>6, <2>7
<1> QED BY <1>1, <1>2

LEMMA GapsStep ==
  HistoryTypeOK /\ LoadInv /\ GapsInv /\ [HistoryNext]_historyVars => GapsInv'
<1> SUFFICES ASSUME HistoryTypeOK, LoadInv, GapsInv, [HistoryNext]_historyVars PROVE GapsInv'
  OBVIOUS
<1>1. CASE file' = file /\ holes' = holes /\ load.pc # "write" /\ load'.pc # "write"
  BY <1>1 DEF GapsInv, GapsNoted, Bars
<1>2. CASE OpenCache
  <2>1. load.pc = "save" /\ load'.pc = "write"
        /\ load'.cached = load.cached /\ load'.got = load.got
    BY <1>2, LoadFields DEF OpenCache, LoadSet
  <2>2. GapsIn(load.cached, holes)
    BY <2>1, NotedAreGaps DEF GapsInv, LoadInv
  <2>3. GapsIn(Merged, holes')
    BY <1>2, <2>1, <2>2, MergeGaps DEF OpenCache
  <2>4. GapsIn(Merged', holes') BY <2>1, <2>3 DEF Merged, GapsIn
  <2> QED BY <2>1, <2>4 DEF GapsInv, GapsNoted, GapsIn, Bars
<1>3. CASE WriteCache
  <2>1. load.pc = "write" /\ file' = Merged /\ holes' = holes /\ load'.pc = "idle"
    BY <1>3 DEF WriteCache, Return, NoLoad
  <2>2. GapsIn(Merged, holes) BY <2>1 DEF GapsInv
  <2> QED BY <2>1, <2>2 DEF GapsInv, GapsNoted, GapsIn, Bars
<1>4. CASE HistoryCrash /\ load.pc = "write"
  <2>1. /\ file' \in OldestParts(Merged) /\ holes' = holes /\ load'.pc = "idle"
    BY <1>4 DEF HistoryCrash, NoLoad
  <2>2. GapsIn(Merged, holes) BY <1>4 DEF GapsInv
  <2>3. PICK n \in 1..(MaxLast + 1) : file' = {b \in Merged : b < n}
    BY <2>1 DEF OldestParts
  <2>4. Merged \subseteq Bars BY LoadFields DEF Merged
  <2>5. GapsIn(file', holes)
    <3> SUFFICES ASSUME NEW b \in Bars, b \notin file', NEW c \in file', NEW d \in file',
                        c < b, b < d
                 PROVE  b \in holes
      BY DEF GapsIn
    <3>1. c \in Merged /\ d \in Merged /\ d < n BY <2>3
    <3>2. d \in 1..MaxLast /\ b \in 1..MaxLast BY <2>4, <3>1 DEF Bars
    <3>3. b < n BY <3>1, <3>2
    <3>4. b \notin Merged BY <2>3, <3>3
    <3> QED BY <2>2, <3>1, <3>4 DEF GapsIn
  <2> QED BY <2>1, <2>5 DEF GapsInv, GapsNoted, GapsIn, Bars
<1>5. CASE BarCloses \/ UNCHANGED historyVars
  BY <1>5 DEF BarCloses, historyVars, GapsInv, GapsNoted, GapsIn, Merged, Bars
<1>6. CASE \E target \in Targets, refresh \in BOOLEAN : Load(target, refresh)
  BY <1>1, <1>6 DEF Load, NoLoad
<1>7. CASE Latest BY <1>1, <1>7, LoadFields DEF Latest, LoadSet
<1>8. CASE Older BY <1>1, <1>8, LoadFields DEF Older, LoadSet
<1>9. CASE Enough BY <1>1, <1>9, LoadFields DEF Enough, LoadSet
<1>10. CASE Raises BY <1>1, <1>10 DEF Raises, NoLoad
<1>11. CASE HistoryCrash /\ load.pc # "write"
  BY <1>1, <1>11 DEF HistoryCrash, NoLoad
<1> QED
  BY <1>2, <1>3, <1>4, <1>5, <1>6, <1>7, <1>8, <1>9, <1>10, <1>11 DEF HistoryNext

(* For any sequence of calls, failures and crashes: bars are missing inside*)
(* the cache file only where a fetch did not reach back to what the cache  *)
(* had.  market_data.py merges the two without asking whether they meet.   *)
THEOREM GapsAreNoted == HistorySpec => []GapsNoted
<1>1. HistoryInit => HistoryTypeOK /\ LoadInv /\ GapsInv
  BY LoadInit DEF HistoryInit, NoLoad, GapsInv, GapsNoted
<1>2. GapsInv => GapsNoted BY DEF GapsInv
<1> QED BY <1>1, <1>2, LoadStep, GapsStep, PTL DEF HistorySpec

-----------------------------------------------------------------------------
(* The private websocket.                                                  *)

(* Where the loop is says what the connection has seen.  A connection that *)
(* is up and not being set up has its login and its subscription; the loop *)
(* repairs and logs in only where there is none or a lost one.             *)
Established == session = <<"login", "subscribe">>
SetUp == {"repair", "login", "subscribe"}

SessionInv ==
  /\ session \in {<<>>, <<"login">>, <<"login", "subscribe">>}
  /\ link \in {"none", "up", "down"} /\ pc \in LoopStates
  /\ link = "none" => session = <<>> /\ ~connected
  /\ pc \in {"repair", "login"} => link # "up"
  /\ pc = "subscribe" => link # "none" /\ (link = "up" => session = <<"login">>)
  /\ pc \in {"ping", "listen"} => link # "none"
  /\ pc \notin SetUp /\ link = "up" => Established /\ connected

LEMMA SessionInit == Init => SessionInv
BY DEF Init, SessionInv, LoopStates

LEMMA AppendToShort ==
  ASSUME NEW a, NEW b
  PROVE  Append(<<>>, a) = <<a>> /\ Append(<<a>>, b) = <<a, b>>
<1> DEFINE one == Append(<<>>, a)
           two == Append(<<a>>, b)
<1>0. <<>> \in Seq({a, b}) /\ <<a>> \in Seq({a, b}) /\ <<a, b>> \in Seq({a, b})
  OBVIOUS
<1>1. one \in Seq({a, b}) /\ Len(one) = 1 /\ one[1] = a
  BY <1>0, AppendProperties
<1>2. two \in Seq({a, b}) /\ Len(two) = 2 /\ two[1] = a /\ two[2] = b
  BY <1>0
<1>3. one = <<a>>
  <2> HIDE DEF one
  <2> QED
    BY <1>0, <1>1, SeqEqual
<1>4. two = <<a, b>>
  <2> HIDE DEF two
  <2>1. \A i \in 1..2 : two[i] = <<a, b>>[i]
    BY <1>2
  <2> QED
    BY <1>0, <1>2, <2>1, SeqEqual
<1>5. QED
  BY <1>3, <1>4

LEMMA SessionStep == SessionInv /\ [Next]_vars => SessionInv'
<1> SUFFICES ASSUME SessionInv, [Next]_vars PROVE SessionInv'
  OBVIOUS
<1> USE DEF SessionInv, LoopStates, SetUp, Established
<1>a. Append(<<>>, "login") = <<"login">> /\ Append(<<"login">>, "subscribe") = <<"login", "subscribe">>
  BY AppendToShort
<1>1. CASE Start
  BY <1>1 DEF Start, linkVars
<1>2. CASE Login
  <2>1. pc = "login" /\ UNCHANGED connected
    BY <1>2 DEF Login
  <2>2. CASE Sends("login") /\ pc' = "subscribe"
    BY <1>a, <2>1, <2>2 DEF Sends
  <2>3. CASE SendRaises /\ pc' = AfterFailure
    BY <2>1, <2>3 DEF SendRaises, AfterFailure, linkVars
  <2>4. QED
    BY <1>2, <2>2, <2>3 DEF Login
<1>3. CASE Subscribe
  <2>1. pc = "subscribe"
    BY <1>3 DEF Subscribe
  <2>2. CASE Sends("subscribe") /\ connected' = TRUE /\ pc' \in {"load", "ping", "listen"}
    <3>1. link # "down" /\ link' = "up" /\ session' = Append(session, "subscribe")
      BY <2>2 DEF Sends
    <3>2. session' = <<"login", "subscribe">>
      BY <1>a, <2>1, <3>1
    <3>3. QED
      BY <2>2, <3>1, <3>2
  <2>3. CASE SendRaises /\ pc' = AfterFailure /\ UNCHANGED connected
    BY <2>1, <2>3 DEF SendRaises, Refused, AfterFailure, linkVars
  <2>4. QED
    BY <1>3, <2>2, <2>3 DEF Subscribe
<1>4. CASE Ping
  BY <1>4 DEF Ping, linkVars
<1>5. CASE Message
  BY <1>5 DEF Message, linkVars
<1>6. CASE ListenRaises
  BY <1>6 DEF ListenRaises, linkVars
<1>7. CASE Repair
  BY <1>7 DEF Repair
<1>8. CASE LoadOrders
  BY <1>8 DEF LoadOrders, linkVars
<1>9. CASE Poll
  BY <1>9 DEF Poll, linkVars
<1>10. CASE PollRaises
  BY <1>10 DEF PollRaises, linkVars
<1>11. CASE Sleep
  BY <1>11 DEF Sleep, linkVars
<1>12. CASE LinkDrops
  BY <1>12 DEF LinkDrops, loopVars
<1>13. CASE \E o \in Orders : OrderOpens(o)
  BY <1>13 DEF OrderOpens, loopVars, linkVars
<1>14. CASE UNCHANGED vars
  BY <1>14 DEF vars, loopVars, linkVars
<1>15. QED
  BY <1>1, <1>2, <1>3, <1>4, <1>5, <1>6, <1>7, <1>8, <1>9, <1>10, <1>11, <1>12, <1>13, <1>14
     DEF Next, LoopStep

(* A connection sees one login and one subscription, in this order, and    *)
(* recv() never opens one of its own.                                      *)
THEOREM OneSession == Spec => []OneSessionPerConnection
<1>1. SessionInv => OneSessionPerConnection
  BY DEF SessionInv, OneSessionPerConnection, SetUp, Established
<1>2. QED
  BY <1>1, SessionInit, SessionStep, PTL DEF Spec

-----------------------------------------------------------------------------
(* Types.                                                                  *)

\* An order is polled only where one is left on the list.
RuntimeShape == RuntimeTypeOK /\ (pc = "poll" => batch # <<>>)

LEMMA RuntimeShapeInit == Init => RuntimeShape
<1> USE RuntimeAssumption
<1>1. Init => /\ pc \in LoopStates /\ {repairing, attached, connected} \subseteq BOOLEAN
              /\ pc = "start" /\ link \in {"none", "up", "down"}
  BY DEF Init, LoopStates
<1>2. Init => session \in Seq({"login", "subscribe"}) /\ batch \in Seq(Orders)
  BY DEF Init
<1>3. Init => faults \in [refusals : 0..MaxRefusals, drops : 0..MaxDrops]
  BY DEF Init
<1>4. QED
  BY <1>1, <1>2, <1>3 DEF Init, RuntimeShape, RuntimeTypeOK

LEMMA RuntimeShapeStep == RuntimeShape /\ [Next]_vars => RuntimeShape'
<1> SUFFICES ASSUME RuntimeShape, [Next]_vars PROVE RuntimeShape'
  OBVIOUS
<1> USE RuntimeAssumption DEF RuntimeShape, RuntimeTypeOK, LoopStates
<1>a. \A p \in {"login", "subscribe"} :
         Sends(p) => link' \in {"none", "up", "down"} /\ session' \in Seq({"login", "subscribe"})
  BY DEF Sends
<1>b. SendRaises => /\ UNCHANGED linkVars
                    /\ faults' \in [refusals : 0..MaxRefusals, drops : 0..MaxDrops]
  BY DEF SendRaises, Refused
<1>c. AfterFailure \in {"sleep", "repair"}
  BY DEF AfterFailure
<1>1. CASE Start
  BY <1>1 DEF Start, linkVars, orderVars
<1>2. CASE Login
  <2>1. pc' \in LoopStates /\ pc' # "poll" /\ UNCHANGED <<repairing, attached, connected, orderVars>>
    BY <1>2, <1>c DEF Login
  <2>2. /\ link' \in {"none", "up", "down"} /\ session' \in Seq({"login", "subscribe"})
        /\ faults' \in [refusals : 0..MaxRefusals, drops : 0..MaxDrops]
    BY <1>2, <1>a, <1>b DEF Login, linkVars
  <2>3. QED
    BY <2>1, <2>2 DEF orderVars
<1>3. CASE Subscribe
  <2>1. /\ pc' \in LoopStates /\ pc' # "poll" /\ connected' \in BOOLEAN
        /\ UNCHANGED <<repairing, attached, orderVars>>
    BY <1>3, <1>c DEF Subscribe
  <2>2. /\ link' \in {"none", "up", "down"} /\ session' \in Seq({"login", "subscribe"})
        /\ faults' \in [refusals : 0..MaxRefusals, drops : 0..MaxDrops]
    BY <1>3, <1>a, <1>b DEF Subscribe, linkVars
  <2>3. QED
    BY <2>1, <2>2 DEF orderVars
<1>4. CASE Ping
  BY <1>4 DEF Ping, linkVars, orderVars
<1>5. CASE Message
  BY <1>5 DEF Message, linkVars, orderVars
<1>6. CASE ListenRaises
  BY <1>6 DEF ListenRaises, linkVars, orderVars
<1>7. CASE Repair
  <2>1. pc' = "login" /\ attached' = TRUE /\ repairing' = TRUE /\ UNCHANGED connected
    BY <1>7 DEF Repair
  <2>2. link' \in {"none", "up", "down"} /\ UNCHANGED <<session, orderVars, faults>>
    BY <1>7 DEF Repair
  <2>3. QED
    BY <2>1, <2>2 DEF orderVars
<1>8. CASE LoadOrders
  <2>1. IsFiniteSet(open)
    BY FS_Subset
  <2>2. /\ Cardinality(open) \in Nat
        /\ open # {} => Cardinality(open) # 0
    BY <2>1, FS_CardinalityType, FS_EmptySet
  <2>3. batch' \in [1..Cardinality(open) -> open]
    BY <1>8 DEF LoadOrders, SetToSeqs
  <2>4. batch' \in Seq(open) /\ Len(batch') = Cardinality(open)
    BY <2>2, <2>3
  <2>5. batch' \in Seq(Orders) /\ (pc' = "poll" => batch' # <<>>)
    BY <1>8, <2>2, <2>4 DEF LoadOrders
  <2>6. pc' \in LoopStates /\ UNCHANGED <<repairing, attached, connected, linkVars, open, faults>>
    BY <1>8 DEF LoadOrders
  <2>7. QED
    BY <2>5, <2>6 DEF linkVars
<1>9. CASE Poll
  <2>0. batch \in Seq(Orders) /\ batch # <<>>
    BY <1>9 DEF Poll
  <2>1. /\ Head(batch) \in Orders /\ Tail(batch) \in Seq(Orders)
        /\ Len(Tail(batch)) = Len(batch) - 1
    BY <2>0, HeadTailProperties
  <2>2. Len(batch) # 1 => Tail(batch) # <<>>
    <3>1. Len(<<>>) = 0
      OBVIOUS
    <3>2. Len(batch) \in Nat /\ Len(batch) # 0
      BY <2>0
    <3>3. Len(batch) # 1 => Len(Tail(batch)) # 0
      BY <2>1, <3>2
    <3>4. QED
      BY <3>1, <3>3, Zenon
  <2>3. QED
    BY <1>9, <2>1, <2>2 DEF Poll, linkVars
<1>10. CASE PollRaises
  BY <1>10 DEF PollRaises, linkVars
<1>11. CASE Sleep
  BY <1>11 DEF Sleep, linkVars, orderVars
<1>12. CASE LinkDrops
  BY <1>12 DEF LinkDrops, loopVars, orderVars
<1>13. CASE \E o \in Orders : OrderOpens(o)
  BY <1>13 DEF OrderOpens, loopVars, linkVars
<1>14. CASE UNCHANGED vars
  BY <1>14 DEF vars, loopVars, linkVars, orderVars
<1>15. QED
  BY <1>1, <1>2, <1>3, <1>4, <1>5, <1>6, <1>7, <1>8, <1>9, <1>10, <1>11, <1>12, <1>13, <1>14
     DEF Next, LoopStep

(* Types.                                                                  *)
THEOREM RuntimeTypeCorrect == Spec => []RuntimeTypeOK
<1>1. RuntimeShape => RuntimeTypeOK
  BY DEF RuntimeShape
<1>2. QED
  BY <1>1, RuntimeShapeInit, RuntimeShapeStep, PTL DEF Spec

-----------------------------------------------------------------------------
(* The public candle stream.                                               *)

\* What a row makes of the listener's state (OnMessage folds it over a push).
Taken(acc, row) ==
  IF NewlyClosed(row, acc.last)
  THEN [last |-> row.ts, fired |-> Append(acc.fired, row.ts)]
  ELSE acc

\* g[s] is what the rows s of a push make of the listener's state.
IsRowTable(rows, before, n, g) ==
  g = [s \in SUBSET (1..n) |->
         IF s = {} THEN before ELSE Taken(g[s \ {Max(s)}], rows[Max(s)])]

LEMMA MessageFolds ==
  ASSUME NEW rows \in Seq(Rows), NEW m, m.rows = rows, NEW before
  PROVE  OnMessage(m, before)
           = (CHOOSE g : IsRowTable(rows, before, Len(rows), g))[1..Len(rows)]
<1>1. DOMAIN rows = 1..Len(rows)
  OBVIOUS
<1>2. QED
  BY <1>1 DEF OnMessage, FoldLeft, MapThenFoldSet, IsRowTable, Taken

LEMMA LargestOfRows ==
  ASSUME NEW n \in Nat, NEW s \in SUBSET (1..(n + 1)), n + 1 \in s
  PROVE  Max(s) = n + 1
<1>1. \A x \in s : n + 1 >= x
  OBVIOUS
<1>2. \A y \in s : (\A x \in s : y >= x) => y = n + 1
  OBVIOUS
<1>3. QED
  BY <1>1, <1>2 DEF Max

LEMMA RowTableExists ==
  ASSUME NEW rows, NEW before, NEW n \in Nat
  PROVE  \E g : IsRowTable(rows, before, n, g)
<1> DEFINE Good == {k \in Nat : \E g : IsRowTable(rows, before, k, g)}
<1>1. 0 \in Good
  <2> DEFINE g == [s \in SUBSET (1..0) |-> before]
  <2>1. SUBSET (1..0) = {{}}
    OBVIOUS
  <2>2. IsRowTable(rows, before, 0, g)
    BY <2>1 DEF IsRowTable
  <2>3. QED
    BY <2>2
<1>2. ASSUME NEW k \in Nat, k \in Good
      PROVE  k + 1 \in Good
  <2>1. PICK g : IsRowTable(rows, before, k, g)
    BY <1>2
  <2> DEFINE G == [s \in SUBSET (1..(k + 1)) |->
                     IF k + 1 \in s THEN Taken(g[s \ {k + 1}], rows[k + 1]) ELSE g[s]]
  <2>2. ASSUME NEW s \in SUBSET (1..(k + 1))
        PROVE  G[s] = IF s = {} THEN before ELSE Taken(G[s \ {Max(s)}], rows[Max(s)])
    <3>1. CASE k + 1 \in s
      <4>1. Max(s) = k + 1
        BY <3>1, LargestOfRows
      <4>2. s \ {k + 1} \in SUBSET (1..(k + 1)) /\ k + 1 \notin s \ {k + 1}
        OBVIOUS
      <4>3. G[s \ {k + 1}] = g[s \ {k + 1}]
        BY <4>2
      <4>4. QED
        BY <3>1, <4>1, <4>3
    <3>2. CASE k + 1 \notin s
      <4>1. s \in SUBSET (1..k)
        BY <3>2
      <4>2. G[s] = g[s] /\ (s # {} => Max(s) \in s)
        <5>1. s # {} => Max(s) \in s
          <6> SUFFICES ASSUME s # {} PROVE Max(s) \in s
            OBVIOUS
          <6>1. s \subseteq Int /\ IsFiniteSet(s)
            <7>1. k \in Int /\ IsFiniteSet(1..k)
              BY FS_Interval
            <7>2. s \subseteq 1..k
              BY <4>1
            <7>3. IsFiniteSet(s)
              BY <7>1, <7>2, FS_Subset
            <7>4. QED
              BY <7>2, <7>3
          <6>2. \E x \in s : \A y \in s : y <= x
            BY <6>1, LargestExists
          <6>3. \E x \in s : \A y \in s : x >= y
            BY <6>1, <6>2
          <6>4. QED
            BY <6>3 DEF Max
        <5>2. QED
          BY <3>2, <5>1
      <4>3. g[s] = IF s = {} THEN before ELSE Taken(g[s \ {Max(s)}], rows[Max(s)])
        BY <2>1, <4>1 DEF IsRowTable
      <4>4. s \ {Max(s)} \in SUBSET (1..(k + 1)) /\ k + 1 \notin s \ {Max(s)}
        BY <3>2
      <4>5. G[s \ {Max(s)}] = g[s \ {Max(s)}]
        BY <4>4
      <4>6. QED
        BY <4>2, <4>3, <4>5
    <3>3. QED
      BY <3>1, <3>2
  <2>3. IsRowTable(rows, before, k + 1, G)
    <3>1. G = [s \in SUBSET (1..(k + 1)) |-> G[s]]
      OBVIOUS
    <3>2. QED
      BY <2>2, <3>1 DEF IsRowTable
  <2>4. QED
    BY <2>3
<1>3. Nat \subseteq Good
  <2> HIDE DEF Good
  <2> QED
    BY <1>1, <1>2, NatSetInduction
<1>4. QED
  BY <1>3

\* The bars the strategy was called with: rising, none past the last one, and
\* none past the bar that closed last.
InOrder(acc, limit) ==
  /\ acc.last \in 0..limit /\ acc.fired \in Seq(1..limit)
  /\ \A i, j \in 1..Len(acc.fired) : i < j => acc.fired[i] < acc.fired[j]
  /\ \A i \in 1..Len(acc.fired) : acc.fired[i] <= acc.last

LEMMA TakenInOrder ==
  ASSUME NEW limit \in Nat, NEW acc, InOrder(acc, limit), NEW row, row.ts \in Nat \ {0},
         row.kind = "confirmed" => row.ts <= limit
  PROVE  InOrder(Taken(acc, row), limit)
<1>1. CASE ~NewlyClosed(row, acc.last)
  BY <1>1 DEF Taken
<1>2. CASE NewlyClosed(row, acc.last)
  <2> DEFINE f == Append(acc.fired, row.ts)
  <2>1. /\ Taken(acc, row).last = row.ts /\ Taken(acc, row).fired = f
        /\ acc.last < row.ts /\ row.ts \in 1..limit
    BY <1>2 DEF Taken, NewlyClosed
  <2>2. /\ f \in Seq(1..limit) /\ Len(f) = Len(acc.fired) + 1
        /\ \A i \in 1..Len(acc.fired) : f[i] = acc.fired[i]
        /\ f[Len(acc.fired) + 1] = row.ts
    BY <2>1 DEF InOrder
  <2>3. \A i \in 1..Len(acc.fired) : f[i] \in Int /\ f[i] < row.ts
    BY <2>1, <2>2 DEF InOrder
  <2>4. \A i, j \in 1..Len(acc.fired) : i < j => f[i] < f[j]
    BY <2>2 DEF InOrder
  <2>5. Len(acc.fired) \in Nat
    BY DEF InOrder
  <2> HIDE DEF f
  <2>6. \A i \in 1..Len(f) : i \in 1..Len(acc.fired) \/ i = Len(acc.fired) + 1
    BY <2>2, <2>5
  <2>7. \A i, j \in 1..Len(f) : i < j => f[i] < f[j]
    <3> SUFFICES ASSUME NEW i \in 1..Len(f), NEW j \in 1..Len(f), i < j PROVE f[i] < f[j]
      OBVIOUS
    <3>1. i \in 1..Len(acc.fired)
      BY <2>2, <2>5, <2>6
    <3>2. CASE j \in 1..Len(acc.fired)
      BY <2>4, <3>1, <3>2
    <3>3. CASE j = Len(acc.fired) + 1
      BY <2>2, <2>3, <3>1, <3>3
    <3>4. QED
      BY <2>6, <3>2, <3>3
  <2>8. \A i \in 1..Len(f) : f[i] <= row.ts
    BY <2>1, <2>2, <2>3, <2>6, SMTT(20)
  <2>9. QED
    BY <2>1, <2>2, <2>7, <2>8 DEF InOrder
<1>3. QED
  BY <1>1, <1>2

LEMMA MessageInOrder ==
  ASSUME NEW limit \in Nat, NEW before, InOrder(before, limit),
         NEW m, m.rows \in Seq(Rows),
         \A i \in 1..Len(m.rows) : m.rows[i].kind = "confirmed" => m.rows[i].ts <= limit
  PROVE  InOrder(OnMessage(m, before), limit)
<1> DEFINE rows == m.rows
           N == Len(rows)
           g == CHOOSE h : IsRowTable(rows, before, N, h)
           Good == {k \in Nat : k <= N => InOrder(g[1..k], limit)}
<1>1. N \in Nat /\ IsRowTable(rows, before, N, g)
  <2>1. N \in Nat
    OBVIOUS
  <2> HIDE DEF rows, N
  <2>2. \E h : IsRowTable(rows, before, N, h)
    BY <2>1, RowTableExists
  <2>3. IsRowTable(rows, before, N, CHOOSE h : IsRowTable(rows, before, N, h))
    <3> HIDE DEF IsRowTable
    <3> QED
      BY <2>2, Zenon
  <2>4. QED
    BY <2>1, <2>3
<1> HIDE DEF g
<1>2. 0 \in Good
  <2>1. g[1..0] = before
    BY <1>1 DEF IsRowTable
  <2>2. QED
    BY <2>1
<1>3. ASSUME NEW k \in Nat, k \in Good
      PROVE  k + 1 \in Good
  <2> SUFFICES ASSUME k + 1 <= N PROVE InOrder(g[1..(k + 1)], limit)
    OBVIOUS
  <2>1. InOrder(g[1..k], limit)
    BY <1>1, <1>3
  <2>2. Max(1..(k + 1)) = k + 1
    BY LargestOfRows
  <2>3. (1..(k + 1)) \in SUBSET (1..N) /\ 1..(k + 1) # {} /\ (1..(k + 1)) \ {k + 1} = 1..k
    <3> HIDE DEF N
    <3>1. (1..(k + 1)) \in SUBSET (1..N)
      BY <1>1
    <3>2. k + 1 \in 1..(k + 1)
      OBVIOUS
    <3>3. (1..(k + 1)) \ {k + 1} = 1..k
      OBVIOUS
    <3>4. QED
      BY <3>1, <3>2, <3>3
  <2>4. g[1..(k + 1)] = Taken(g[1..k], rows[k + 1])
    BY <1>1, <2>2, <2>3 DEF IsRowTable
  <2>5. k + 1 \in 1..N /\ rows[k + 1] \in Rows
    BY <1>1
  <2>6. rows[k + 1].ts \in Nat \ {0} /\ (rows[k + 1].kind = "confirmed" => rows[k + 1].ts <= limit)
    BY <2>5, StreamAssumption DEF Rows
  <2> DEFINE row == rows[k + 1]
             acc == g[1..k]
  <2> HIDE DEF row, acc
  <2>7. InOrder(Taken(acc, row), limit)
    BY <2>1, <2>6, TakenInOrder DEF row, acc
  <2>8. QED
    BY <2>4, <2>7 DEF row, acc
<1>4. Nat \subseteq Good
  <2> HIDE DEF Good
  <2> QED
    BY <1>2, <1>3, NatSetInduction
<1>5. OnMessage(m, before) = g[1..N]
  BY MessageFolds DEF g
<1>6. QED
  BY <1>1, <1>4, <1>5

\* What is confirmed on the wire has closed.
WireClosed ==
  \A i \in 1..Len(wire) : \A j \in 1..Len(wire[i].rows) :
    wire[i].rows[j].kind = "confirmed" => wire[i].rows[j].ts <= closed[wire[i].symbol]

\* The listener's state of one symbol.
Heard(s) == [last |-> lastConfirmed[s], fired |-> fired[s]]

CallsInOrder == \A s \in Symbols : InOrder(Heard(s), closed[s])

\* The shape of what the stream's own steps and the channel touch.
LinkShape ==
  /\ stage \in {"connect", "subscribe", "listen", "backoff"}
  /\ online \in BOOLEAN /\ sent \in BOOLEAN /\ subscribed \in BOOLEAN
  /\ channel \in {"none", "up", "down"}

MishapShape == mishaps \in [drops : 0..MaxChannelDrops, refusals : 0..MaxChannelRefusals]

Pushes == [symbol : Symbols, rows : Seq(Rows)]

\* The shape of what the listener and the exchange touch.
WireShape == wire \in Seq(Pushes) /\ Len(wire) <= MaxWire
ClosedShape == closed \in [Symbols -> 0..MaxBar]
HeardShape ==
  /\ lastConfirmed = [s \in Symbols |-> lastConfirmed[s]]
  /\ fired = [s \in Symbols |-> fired[s]]

StreamInv ==
  /\ LinkShape /\ MishapShape
  /\ WireShape /\ ClosedShape /\ HeardShape /\ WireClosed /\ CallsInOrder

LEMMA StreamInvInit == StreamInit => StreamInv
<1> SUFFICES ASSUME StreamInit PROVE StreamInv
  OBVIOUS
<1> USE StreamAssumption DEF StreamInit
<1>0. LinkShape
  BY Zenon DEF LinkShape
<1>1. MishapShape
  BY DEF MishapShape
<1>2. WireShape /\ WireClosed
  BY DEF WireShape, WireClosed
<1>3. ClosedShape /\ HeardShape
  BY DEF ClosedShape, HeardShape
<1>4. CallsInOrder
  BY DEF CallsInOrder, InOrder, Heard
<1>5. QED
  BY <1>0, <1>1, <1>2, <1>3, <1>4 DEF StreamInv

LEMMA LinkShapeStep == StreamInv /\ [StreamNext]_streamVars => LinkShape'
<1> SUFFICES ASSUME LinkShape, [StreamNext]_streamVars PROVE LinkShape'
  BY DEF StreamInv
<1> USE DEF LinkShape, runnerVars, channelVars, listenerVars
<1>1. CASE Connect
  <2>1. CASE online
    BY <1>1, <2>1 DEF Connect
  <2>2. CASE ~online
    BY <1>1, <2>2, Zenon DEF Connect
  <2>3. QED
    BY <2>1, <2>2
<1>2. CASE GiveUp
  BY <1>2, Zenon DEF GiveUp
<1>3. CASE SubscribeCandles
  BY <1>3, Zenon DEF SubscribeCandles
<1>4. CASE Receive
  BY <1>4 DEF Receive
<1>5. CASE BackOff
  BY <1>5 DEF BackOff
<1>6. ASSUME NEW s \in Symbols, CandleCloses(s) \/ PushesAgain(s)
      PROVE  LinkShape'
  BY <1>6 DEF CandleCloses, PushesAgain
<1>7. CASE ChannelDrops
  BY <1>7 DEF ChannelDrops
<1>8. CASE UNCHANGED streamVars
  BY <1>8 DEF streamVars
<1>9. QED
  BY <1>1, <1>2, <1>3, <1>4, <1>5, <1>6, <1>7, <1>8
     DEF StreamNext, StreamStep, ConnectRefused, TransportRaises

LEMMA MishapShapeStep == StreamInv /\ [StreamNext]_streamVars => MishapShape'
<1> SUFFICES ASSUME MishapShape, [StreamNext]_streamVars PROVE MishapShape'
  BY DEF StreamInv
<1>1. CASE ConnectRefused
  BY <1>1, StreamAssumption DEF ConnectRefused, MishapShape
<1>2. CASE ChannelDrops
  BY <1>2, StreamAssumption DEF ChannelDrops, MishapShape
<1>3. CASE mishaps' = mishaps
  BY <1>3 DEF MishapShape
<1>4. QED
  BY <1>1, <1>2, <1>3 DEF StreamNext, StreamStep, Connect, SubscribeCandles, Receive,
     TransportRaises, BackOff, CandleCloses, PushesAgain, streamVars

\* A step that leaves the listener and the exchange alone, and whose wire is
\* the old one or empty, keeps the rest of the invariant.
LEMMA StreamQuietStep ==
  ASSUME StreamInv, UNCHANGED <<closed, listenerVars>>, wire' = wire \/ wire' = <<>>
  PROVE  WireShape' /\ ClosedShape' /\ HeardShape' /\ WireClosed' /\ CallsInOrder'
<1> USE StreamAssumption DEF StreamInv, listenerVars
<1>1. WireShape' /\ WireClosed'
  <2>1. CASE wire' = wire
    BY <2>1 DEF WireShape, WireClosed
  <2>2. CASE wire' = <<>>
    BY <2>2 DEF WireShape, WireClosed
  <2>3. QED
    BY <2>1, <2>2
<1>2. ClosedShape' /\ HeardShape'
  BY DEF ClosedShape, HeardShape
<1>3. CallsInOrder'
  BY DEF CallsInOrder, Heard
<1>4. QED
  BY <1>1, <1>2, <1>3

LEMMA ReceiveKeeps ==
  ASSUME StreamInv, Receive
  PROVE  WireShape' /\ ClosedShape' /\ HeardShape' /\ WireClosed' /\ CallsInOrder'
<1> DEFINE m == Head(wire)
           k == m.symbol
           heard == OnMessage(m, Heard(k))
<1>1. /\ wire # <<>> /\ wire' = Tail(wire) /\ closed' = closed
      /\ lastConfirmed' = [lastConfirmed EXCEPT ![k] = heard.last]
      /\ fired' = [fired EXCEPT ![k] = heard.fired]
  BY DEF Receive, Heard
<1>2. wire \in Seq(Pushes) /\ Len(wire) <= MaxWire /\ Len(wire) \in Nat
  BY DEF StreamInv, WireShape
<1>3. /\ m \in Pushes /\ Tail(wire) \in Seq(Pushes) /\ Len(wire) > 0
      /\ Len(Tail(wire)) = Len(wire) - 1 /\ m = wire[1]
      /\ \A i \in 1..Len(Tail(wire)) : Tail(wire)[i] = wire[i + 1]
  BY <1>1, <1>2
<1>4. WireShape'
  BY <1>1, <1>2, <1>3, StreamAssumption DEF WireShape
<1>5. WireClosed'
  BY <1>1, <1>2, <1>3 DEF StreamInv, WireClosed
<1>6. k \in Symbols /\ m.rows \in Seq(Rows)
  BY <1>3 DEF Pushes
<1>7. \A i \in 1..Len(m.rows) : m.rows[i].kind = "confirmed" => m.rows[i].ts <= closed[k]
  BY <1>2, <1>3 DEF StreamInv, WireClosed
<1>8. closed[k] \in Nat /\ InOrder(Heard(k), closed[k])
  BY <1>6, StreamAssumption DEF StreamInv, ClosedShape, CallsInOrder
<1>9. InOrder(heard, closed[k])
  <2> HIDE DEF m, k
  <2> QED
    BY <1>6, <1>7, <1>8, MessageInOrder
<1> HIDE DEF m, k, heard
<1>10. ClosedShape' /\ HeardShape'
  BY <1>1 DEF StreamInv, ClosedShape, HeardShape
<1>11. ASSUME NEW s \in Symbols
       PROVE  InOrder(Heard(s)', closed'[s])
  <2>1. CASE s = k
    <3>1. Heard(s)' = [last |-> heard.last, fired |-> heard.fired]
      BY <1>1, <2>1 DEF StreamInv, HeardShape, Heard
    <3>2. QED
      BY <1>1, <1>9, <2>1, <3>1 DEF InOrder
  <2>2. CASE s # k
    <3>1. Heard(s)' = Heard(s)
      BY <1>1, <2>2 DEF StreamInv, HeardShape, Heard
    <3>2. QED
      BY <1>1, <3>1 DEF StreamInv, CallsInOrder
  <2>3. QED
    BY <2>1, <2>2
<1>12. CallsInOrder'
  BY <1>11 DEF CallsInOrder
<1>13. QED
  BY <1>4, <1>5, <1>10, <1>12

\* A push of rows that are closed if they are confirmed.
LEMMA PushKeeps ==
  ASSUME StreamInv, NEW s \in Symbols, NEW rows \in Seq(Rows), Pushed(s, rows),
         Len(wire) < MaxWire, closed' \in [Symbols -> 0..MaxBar],
         \A t \in Symbols : closed[t] <= closed'[t],
         \A i \in 1..Len(rows) : rows[i].kind = "confirmed" => rows[i].ts <= closed'[s]
  PROVE  WireShape' /\ WireClosed'
<1> DEFINE m == [symbol |-> s, rows |-> rows]
           w == Append(wire, m)
<1>0. wire \in Seq(Pushes) /\ Len(wire) \in Nat /\ Len(wire) <= MaxWire
  BY DEF StreamInv, WireShape
<1>1. ASSUME NEW i \in 1..Len(wire), NEW j \in 1..Len(wire[i].rows),
             wire[i].rows[j].kind = "confirmed"
      PROVE  wire[i].rows[j].ts <= closed'[wire[i].symbol]
  <2>0. wire[i] \in Pushes
    BY <1>0, ElementOfSeq
  <2>1. wire[i].symbol \in Symbols /\ wire[i].rows \in Seq(Rows)
    BY <2>0 DEF Pushes
  <2>2. wire[i].rows[j] \in Rows /\ wire[i].rows[j].ts \in Int
    <3>1. wire[i].rows[j] \in Rows
      BY <2>1, ElementOfSeq
    <3>2. QED
      BY <3>1, StreamAssumption DEF Rows
  <2>3. wire[i].rows[j].ts <= closed[wire[i].symbol]
    BY <1>1 DEF StreamInv, WireClosed
  <2>4. closed[wire[i].symbol] \in Int /\ closed'[wire[i].symbol] \in Int
    BY <2>1, StreamAssumption DEF StreamInv, ClosedShape
  <2>5. closed[wire[i].symbol] <= closed'[wire[i].symbol]
    BY <2>1
  <2> HIDE DEF StreamInv
  <2>6. QED
    BY <2>2, <2>3, <2>4, <2>5
<1>2. CASE wire' = wire
  BY <1>0, <1>1, <1>2 DEF WireShape, WireClosed
<1>3. CASE wire' = w
  <2>1. m \in Pushes /\ m.rows = rows /\ m.symbol = s
    BY DEF Pushes
  <2> HIDE DEF m
  <2>2. /\ w \in Seq(Pushes) /\ Len(w) = Len(wire) + 1
        /\ \A i \in 1..Len(wire) : w[i] = wire[i]
        /\ w[Len(wire) + 1] = m
    BY <1>0, <2>1
  <2> HIDE DEF w
  <2>3. WireShape'
    BY <1>0, <1>3, <2>2, StreamAssumption DEF WireShape
  <2>4. ASSUME NEW i \in 1..Len(w), NEW j \in 1..Len(w[i].rows), w[i].rows[j].kind = "confirmed"
        PROVE  w[i].rows[j].ts <= closed'[w[i].symbol]
    <3>1. CASE i \in 1..Len(wire)
      BY <1>1, <2>2, <2>4, <3>1
    <3>2. CASE i = Len(wire) + 1
      BY <2>1, <2>2, <2>4, <3>2
    <3>3. QED
      BY <1>0, <2>2, <3>1, <3>2
  <2>5. WireClosed'
    BY <1>3, <2>4 DEF WireClosed
  <2>6. QED
    BY <2>3, <2>5
<1>4. QED
  BY <1>2, <1>3 DEF Pushed

LEMMA CloseKeeps ==
  ASSUME StreamInv, NEW s \in Symbols, CandleCloses(s)
  PROVE  WireShape' /\ ClosedShape' /\ HeardShape' /\ WireClosed' /\ CallsInOrder'
<1> DEFINE b == closed[s] + 1
           rows == <<Row(b, "confirmed")>>
<1>1. /\ closed[s] < MaxBar /\ Len(wire) < MaxWire /\ Pushed(s, rows)
      /\ closed' = [closed EXCEPT ![s] = b]
      /\ lastConfirmed' = lastConfirmed /\ fired' = fired
  BY DEF CandleCloses, listenerVars
<1>2. \A t \in Symbols : closed[t] \in 0..MaxBar
  BY DEF StreamInv, ClosedShape
<1>3. b \in 1..MaxBar /\ closed' \in [Symbols -> 0..MaxBar] /\ closed'[s] = b
  BY <1>1, <1>2, StreamAssumption DEF StreamInv, ClosedShape
<1>4. \A t \in Symbols : closed[t] <= closed'[t]
  BY <1>1, <1>2, StreamAssumption DEF StreamInv, ClosedShape
<1>5. /\ rows \in Seq(Rows) /\ Len(rows) = 1
      /\ rows[1].ts = b /\ rows[1].kind = "confirmed"
  BY <1>3, StreamAssumption DEF Row, Rows
<1> HIDE DEF b, rows
<1>6. WireShape' /\ WireClosed'
  <2>1. \A i \in 1..Len(rows) : rows[i].kind = "confirmed" => rows[i].ts <= closed'[s]
    BY <1>3, <1>5
  <2>2. QED
    BY <1>1, <1>3, <1>4, <1>5, <2>1, PushKeeps
<1>7. ClosedShape' /\ HeardShape'
  BY <1>1, <1>3 DEF StreamInv, ClosedShape, HeardShape
<1>8. ASSUME NEW t \in Symbols
      PROVE  InOrder(Heard(t)', closed'[t])
  <2>1. Heard(t)' = Heard(t) /\ InOrder(Heard(t), closed[t])
    BY <1>1 DEF StreamInv, CallsInOrder, Heard
  <2>2. closed[t] \in Nat /\ closed'[t] \in Nat /\ closed[t] <= closed'[t]
    BY <1>2, <1>3, <1>4, StreamAssumption
  <2> DEFINE acc == Heard(t)
             lo == closed[t]
             hi == closed'[t]
  <2>3. ASSUME NEW a, NEW x \in Nat, NEW y \in Nat, x <= y, InOrder(a, x)
        PROVE  InOrder(a, y)
    <3>1. 1..x \subseteq 1..y
      BY <2>3
    <3>2. a.fired \in Seq(1..y)
      BY <2>3, <3>1 DEF InOrder
    <3>3. QED
      BY <2>3, <3>2 DEF InOrder
  <2>4. QED
    BY <2>1, <2>2, <2>3
<1>9. CallsInOrder'
  BY <1>8 DEF CallsInOrder
<1>10. QED
  BY <1>6, <1>7, <1>9

LEMMA PushAgainKeeps ==
  ASSUME StreamInv, NEW s \in Symbols, PushesAgain(s)
  PROVE  WireShape' /\ ClosedShape' /\ HeardShape' /\ WireClosed' /\ CallsInOrder'
<1>1. Len(wire) < MaxWire /\ closed' = closed /\ lastConfirmed' = lastConfirmed /\ fired' = fired
  BY DEF PushesAgain, listenerVars
<1>2. \A t \in Symbols : closed[t] \in 0..MaxBar
  BY DEF StreamInv, ClosedShape
<1>3. closed' \in [Symbols -> 0..MaxBar] /\ \A t \in Symbols : closed[t] <= closed'[t]
  BY <1>1, <1>2, StreamAssumption DEF StreamInv, ClosedShape
<1>4. WireShape' /\ WireClosed'
  <2>1. CASE Pushed(s, <<Row(closed[s] + 1, "forming")>>)
    <3> DEFINE rows == <<Row(closed[s] + 1, "forming")>>
    <3>1. rows \in Seq(Rows) /\ Len(rows) = 1 /\ rows[1].kind = "forming"
      BY <1>2, StreamAssumption DEF Row, Rows
    <3> HIDE DEF rows
    <3>2. \A i \in 1..Len(rows) : rows[i].kind = "confirmed" => rows[i].ts <= closed'[s]
      BY <3>1
    <3>3. Pushed(s, rows)
      BY <2>1 DEF rows
    <3>4. QED
      BY <1>1, <1>3, <3>1, <3>2, <3>3, PushKeeps
  <2>2. ASSUME NEW b \in 1..closed[s], Pushed(s, <<Row(b, "malformed"), Row(b, "confirmed")>>)
        PROVE  WireShape' /\ WireClosed'
    <3> DEFINE rows == <<Row(b, "malformed"), Row(b, "confirmed")>>
    <3>1. b \in 1..MaxBar /\ b <= closed[s]
      BY <1>2, StreamAssumption
    <3>2. /\ rows \in Seq(Rows) /\ Len(rows) = 2 /\ rows[1].kind = "malformed"
          /\ rows[2].ts = b
      BY <3>1, StreamAssumption DEF Row, Rows
    <3> HIDE DEF rows
    <3>3. \A i \in 1..Len(rows) : rows[i].kind = "confirmed" => rows[i].ts <= closed'[s]
      BY <1>1, <3>1, <3>2
    <3>4. Pushed(s, rows)
      BY <2>2 DEF rows
    <3>5. QED
      BY <1>1, <1>3, <3>2, <3>3, <3>4, PushKeeps
  <2>3. QED
    BY <2>1, <2>2 DEF PushesAgain
<1>5. ClosedShape' /\ HeardShape' /\ CallsInOrder'
  BY <1>1 DEF StreamInv, ClosedShape, HeardShape, CallsInOrder, Heard
<1>6. QED
  BY <1>4, <1>5

LEMMA StreamInvStep == StreamInv /\ [StreamNext]_streamVars => StreamInv'
<1> SUFFICES ASSUME StreamInv, [StreamNext]_streamVars PROVE StreamInv'
  OBVIOUS
<1> DEFINE Kept == WireShape' /\ ClosedShape' /\ HeardShape' /\ WireClosed' /\ CallsInOrder'
<1>1. ASSUME Connect PROVE Kept
  BY <1>1, StreamQuietStep DEF Connect, channelVars
<1>2. ASSUME ConnectRefused PROVE Kept
  BY <1>2, StreamQuietStep DEF ConnectRefused, GiveUp
<1>3. ASSUME SubscribeCandles PROVE Kept
  BY <1>3, StreamQuietStep DEF SubscribeCandles
<1>4. ASSUME Receive PROVE Kept
  BY <1>4, ReceiveKeeps
<1>5. ASSUME TransportRaises PROVE Kept
  BY <1>5, StreamQuietStep DEF TransportRaises, GiveUp
<1>6. ASSUME BackOff PROVE Kept
  BY <1>6, StreamQuietStep DEF BackOff, channelVars
<1>7. ASSUME NEW s \in Symbols, CandleCloses(s) PROVE Kept
  BY <1>7, CloseKeeps
<1>8. ASSUME NEW s \in Symbols, PushesAgain(s) PROVE Kept
  BY <1>8, PushAgainKeeps
<1>9. ASSUME ChannelDrops PROVE Kept
  BY <1>9, StreamQuietStep DEF ChannelDrops
<1>10. ASSUME UNCHANGED streamVars PROVE Kept
  BY <1>10, StreamQuietStep DEF streamVars, channelVars
<1>11. Kept
  <2> HIDE DEF Kept
  <2> QED
    BY <1>1, <1>2, <1>3, <1>4, <1>5, <1>6, <1>7, <1>8, <1>9, <1>10 DEF StreamNext, StreamStep
<1>12. LinkShape' /\ MishapShape'
  BY LinkShapeStep, MishapShapeStep
<1>13. QED
  BY <1>11, <1>12 DEF StreamInv

(* The candle stream's types, under every schedule of reconnects.          *)
THEOREM StreamTypeCorrect == StreamSpec => []StreamTypeOK
<1>1. StreamInv => StreamTypeOK
  <2> SUFFICES ASSUME StreamInv PROVE StreamTypeOK
    OBVIOUS
  <2>1. ASSUME NEW s \in Symbols
        PROVE  lastConfirmed[s] \in 0..(MaxBar + 1) /\ fired[s] \in Seq(1..(MaxBar + 1))
    <3>1. closed[s] \in 0..MaxBar
      BY DEF StreamInv, ClosedShape
    <3>2. lastConfirmed[s] \in 0..closed[s] /\ fired[s] \in Seq(1..closed[s])
      BY DEF StreamInv, CallsInOrder, InOrder, Heard
    <3>3. 1..closed[s] \subseteq 1..(MaxBar + 1)
      BY <3>1, StreamAssumption
    <3>4. fired[s] \in Seq(1..(MaxBar + 1))
      <4>1. Len(fired[s]) \in Nat /\ fired[s] \in [1..Len(fired[s]) -> 1..closed[s]]
        BY <3>2, LenProperties
      <4>2. fired[s] \in [1..Len(fired[s]) -> 1..(MaxBar + 1)]
        BY <3>3, <4>1
      <4>3. QED
        BY <4>1, <4>2, SeqDef
    <3>5. QED
      BY <3>1, <3>2, <3>4, StreamAssumption
  <2>2. lastConfirmed \in [Symbols -> 0..(MaxBar + 1)] /\ fired \in [Symbols -> Seq(1..(MaxBar + 1))]
    BY <2>1 DEF StreamInv, HeardShape
  <2>3. QED
    BY <2>2 
       DEF StreamInv, LinkShape, MishapShape, WireShape, ClosedShape, StreamTypeOK, Pushes
<1>2. QED
  BY <1>1, StreamInvInit, StreamInvStep, PTL DEF StreamSpec

(* The strategy is called once per closed bar and in order, whatever is     *)
(* pushed again and however often the connection is replaced.               *)
THEOREM ClosedBarsFireOnce == StreamSpec => []FiresClosedBarsOnce
<1>1. StreamInv => FiresClosedBarsOnce
  <2> SUFFICES ASSUME StreamInv, NEW s \in Symbols, NEW i \in DOMAIN fired[s],
                      NEW j \in DOMAIN fired[s]
               PROVE  /\ i < j => fired[s][i] < fired[s][j]
                      /\ fired[s][i] <= closed[s]
    BY DEF FiresClosedBarsOnce
  <2>1. closed[s] \in 0..MaxBar /\ InOrder(Heard(s), closed[s])
    BY DEF StreamInv, ClosedShape, CallsInOrder
  <2>2. /\ fired[s] \in Seq(1..closed[s])
        /\ \A x, y \in 1..Len(fired[s]) : x < y => fired[s][x] < fired[s][y]
    BY <2>1 DEF InOrder, Heard
  <2>3. DOMAIN fired[s] = 1..Len(fired[s])
    BY <2>2
  <2>4. fired[s][i] \in 1..closed[s]
    BY <2>2, <2>3, ElementOfSeq
  <2>5. QED
    BY <2>1, <2>2, <2>3, <2>4
<1>2. QED
  BY <1>1, StreamInvInit, StreamInvStep, PTL DEF StreamSpec
===============================================================================
