------------------------- MODULE StrategyPoll_proofs -------------------------
(***************************************************************************)
(* The inline strategy for any symbols, bars and pollers: it uses the file *)
(* of ids as SeenFile says, orders a bar and side of a symbol once, and    *)
(* does not add to a position of the same direction; and which symbols the *)
(* screener adds, for any answer of the exchange; and the averages and     *)
(* crossings of the generator, for any history and any periods.            *)
(***************************************************************************)
EXTENDS StrategyPoll, Screening, Indicators, Files_proofs, DataLemmas,
        FiniteSetTheorems, SequenceTheorems

LEMMA SymbolsInOrder == SetToSeq(Symbols) \in Seq(Symbols)
BY PollAssumption, SetInOrder

-----------------------------------------------------------------------------
(* Types. *)

PollRecords == [pc : {"idle", "sync", "symbols", "dispatch"},
                map : [Symbols -> Directions], todo : Seq(Symbols), id : Ids \cup {NoKey}]

MarketShape ==
  /\ closeOnly \in BOOLEAN
  /\ bar \in [Symbols -> 0..MaxBar]
  /\ cross \in [Symbols -> Sides \cup {"none"}]
  /\ \A s \in Symbols : cross[s] # "none" => bar[s] > 0
  /\ units \in [Symbols -> Int]
  /\ orders \in [Symbols \X (1..MaxBar) \X Sides -> Nat]
  /\ blind \in BOOLEAN /\ overlap \in BOOLEAN

\* In close_only mode alone an id may be one that closes.
PollerShape(r) ==
  r.pc = "dispatch" => r.id \in Ids /\ r.todo # <<>> /\ (~closeOnly => r.id.action = "OPEN")

PollShape ==
  /\ MarketShape
  /\ poll \in [Pollers -> PollRecords]
  /\ \A p \in Pollers : PollerShape(poll[p])

LEMMA NoPollType == NoPoll \in PollRecords /\ NoPoll.pc = "idle"
BY DEF NoPoll, NoMap, Directions, PollRecords

LEMMA ShapeInit == Init => PollShape
<1> SUFFICES ASSUME Init PROVE PollShape
  OBVIOUS
<1>1. MarketShape
  <2>1. bar \in [Symbols -> 0..MaxBar] /\ cross \in [Symbols -> Sides \cup {"none"}]
    BY PollAssumption DEF Init
  <2>2. orders \in [Symbols \X (1..MaxBar) \X Sides -> Nat]
    BY DEF Init
  <2>3. units \in [Symbols -> Int] /\ \A s \in Symbols : cross[s] = "none"
    BY DEF Init
  <2>4. {closeOnly, blind, overlap} \subseteq BOOLEAN
    BY DEF Init
  <2>5. QED
    BY <2>1, <2>2, <2>3, <2>4 DEF MarketShape
<1>2. QED
  BY <1>1, NoPollType DEF Init, PollShape, PollerShape

\* The id of a signal is an id.
LEMMA SignalIds ==
  ASSUME MarketShape, NEW s \in Symbols, NEW direction, cross[s] # "none"
  PROVE  SignalId(s, direction) \in Ids /\ (~closeOnly => SignalId(s, direction).action = "OPEN")
BY PollAssumption DEF MarketShape, SignalId, Ids

LEMMA HeadAndTail ==
  ASSUME PollShape, NEW p \in Pollers, poll[p].todo # <<>>
  PROVE  Current(p) \in Symbols /\ Tail(poll[p].todo) \in Seq(Symbols)
BY DEF PollShape, PollRecords, Current

\* A poller's own step: its record is one again, the others' stay.
Turn(p, r) ==
  /\ poll' = [poll EXCEPT ![p] = r]
  /\ r \in PollRecords /\ PollerShape(r)

LEMMA TurnShape ==
  ASSUME PollShape, NEW p \in Pollers, NEW r, Turn(p, r), closeOnly' = closeOnly
  PROVE  /\ poll' \in [Pollers -> PollRecords]
         /\ (\A q \in Pollers : PollerShape(poll[q]))'
         /\ poll'[p] = r
         /\ \A q \in Pollers : q # p => poll'[q] = poll[q]
BY DEF PollShape, Turn, PollerShape

NextSymbolRecord(p) == [poll[p] EXCEPT !.pc = "symbols", !.todo = Tail(@), !.id = NoKey]

LEMMA NextSymbolTurn ==
  ASSUME PollShape, NEW p \in Pollers, poll[p].pc = "dispatch", NextSymbol(p)
  PROVE  Turn(p, NextSymbolRecord(p))
<1>1. poll[p].todo # <<>>
  BY DEF PollShape, PollerShape
<1>2. NextSymbolRecord(p) \in PollRecords /\ NextSymbolRecord(p).pc = "symbols"
  BY <1>1, HeadAndTail DEF PollShape, PollRecords, NextSymbolRecord
<1>3. poll' = [poll EXCEPT ![p] = NextSymbolRecord(p)]
  BY DEF NextSymbol, NextSymbolRecord, PollShape
<1>4. QED
  BY <1>2, <1>3 DEF Turn, PollerShape

DispatchRecord(p) ==
  [poll[p] EXCEPT !.pc = "dispatch", !.id = SignalId(Current(p), poll[p].map[Current(p)])]

LEMMA DispatchTurn ==
  ASSUME PollShape, NEW p \in Pollers, Dispatch(p)
  PROVE  /\ Turn(p, DispatchRecord(p))
         /\ DispatchRecord(p).id \in Ids
         /\ BeginCheck(p, DispatchRecord(p).id)
<1> DEFINE id == SignalId(Current(p), poll[p].map[Current(p)])
<1>1. poll[p].todo # <<>> /\ cross[Current(p)] # "none"
  BY DEF Dispatch, AtSymbol
<1>2. id \in Ids /\ (~closeOnly => id.action = "OPEN")
  BY <1>1, HeadAndTail, SignalIds DEF PollShape
<1>3. /\ DispatchRecord(p) \in PollRecords /\ DispatchRecord(p).pc = "dispatch"
      /\ DispatchRecord(p).id = id /\ DispatchRecord(p).todo = poll[p].todo
  BY <1>2 DEF PollShape, PollRecords, DispatchRecord
<1>4. poll' = [poll EXCEPT ![p] = DispatchRecord(p)] /\ BeginCheck(p, id)
  BY DEF Dispatch, DispatchRecord, PollShape
<1>5. QED
  BY <1>1, <1>2, <1>3, <1>4 DEF Turn, PollerShape

BeginRecord == [NoPoll EXCEPT !.pc = IF SkipSame THEN "sync" ELSE "symbols",
                              !.todo = SetToSeq(Symbols)]

LEMMA BeginTurn ==
  ASSUME PollShape, NEW p \in Pollers, BeginPoll(p)
  PROVE  Turn(p, BeginRecord) /\ BeginRecord.pc # "dispatch"
<1>1. BeginRecord \in PollRecords /\ BeginRecord.pc # "dispatch"
  BY NoPollType, SymbolsInOrder DEF BeginRecord, PollRecords, NoPoll
<1>2. poll' = [poll EXCEPT ![p] = BeginRecord]
  BY DEF BeginPoll, BeginRecord
<1>3. QED
  BY <1>1, <1>2 DEF Turn, PollerShape

\* The steps after which a poller is not dispatching, and calls nothing.
LEMMA QuietTurn ==
  ASSUME PollShape, NEW p \in Pollers,
         BeginPoll(p) \/ SyncDirections(p) \/ SkipSymbol(p) \/ EndPoll(p)
  PROVE  /\ \E r : Turn(p, r) /\ r.pc # "dispatch"
         /\ UNCHANGED <<closeOnly, marketVars, orders, seenVars>>
<1>1. CASE BeginPoll(p)
  BY <1>1, BeginTurn DEF BeginPoll
<1>2. CASE SyncDirections(p)
  <2>1. \A s \in Symbols : DirectionOf(s) \in Directions
    BY DEF DirectionOf, Directions
  <2> DEFINE known == [poll[p] EXCEPT !.pc = "symbols", !.map = [s \in Symbols |-> DirectionOf(s)]]
             unknown == [poll[p] EXCEPT !.pc = "symbols"]
  <2>2. /\ known \in PollRecords /\ known.pc = "symbols"
        /\ unknown \in PollRecords /\ unknown.pc = "symbols"
    BY <2>1 DEF PollShape, PollRecords
  <2>3. poll' = [poll EXCEPT ![p] = known] \/ poll' = [poll EXCEPT ![p] = unknown]
    BY <1>2 DEF SyncDirections, PollShape
  <2>4. Turn(p, known) \/ Turn(p, unknown)
    BY <2>2, <2>3 DEF Turn, PollerShape
  <2>5. QED
    BY <1>2, <2>2, <2>4 DEF SyncDirections
<1>3. CASE SkipSymbol(p)
  <2> DEFINE r == [poll[p] EXCEPT !.todo = Tail(@)]
  <2>1. r \in PollRecords /\ r.pc = "symbols"
    BY <1>3, HeadAndTail DEF SkipSymbol, AtSymbol, PollShape, PollRecords
  <2>2. poll' = [poll EXCEPT ![p] = r]
    BY <1>3 DEF SkipSymbol, PollShape
  <2>3. QED
    BY <1>3, <2>1, <2>2 DEF SkipSymbol, Turn, PollerShape, noteVars
<1>4. CASE EndPoll(p)
  BY <1>4, NoPollType DEF EndPoll, Turn, PollerShape, noteVars
<1>5. QED
  BY <1>1, <1>2, <1>3, <1>4

\* The steps that end a dispatch.
LEMMA EndTurn ==
  ASSUME PollShape, NEW p \in Pollers, Duplicate(p) \/ NotSubmitted(p) \/ Submitted(p)
  PROVE  /\ poll[p].pc = "dispatch" /\ EndCheck(p)
         /\ Turn(p, NextSymbolRecord(p)) /\ NextSymbolRecord(p).pc = "symbols"
<1>1. poll[p].pc = "dispatch" /\ NextSymbol(p)
  BY DEF Duplicate, NotSubmitted, Submitted
<1>2. NextSymbolRecord(p).pc = "symbols"
  BY DEF PollShape, PollRecords, NextSymbolRecord
<1>3. QED
  BY <1>1, <1>2, NextSymbolTurn DEF NextSymbol

LEMMA ShapeStep == PollShape /\ [Next]_vars => PollShape'
<1> SUFFICES ASSUME PollShape, [Next]_vars PROVE PollShape'
  OBVIOUS
<1>1. ASSUME NEW p \in Pollers, PollStep(p) PROVE PollShape'
  <2>1. CASE BeginPoll(p) \/ SyncDirections(p) \/ SkipSymbol(p) \/ EndPoll(p)
    <3>1. blind' \in BOOLEAN /\ overlap' \in BOOLEAN
      BY <2>1 DEF BeginPoll, SyncDirections, SkipSymbol, EndPoll, noteVars, PollShape, MarketShape
    <3>2. MarketShape'
      BY <2>1, <3>1, QuietTurn DEF PollShape, MarketShape, marketVars
    <3>3. QED
      BY <2>1, <3>2, QuietTurn, TurnShape DEF PollShape
  <2>2. CASE Dispatch(p)
    <3>1. MarketShape' /\ closeOnly' = closeOnly
      BY <2>2 DEF Dispatch, PollShape, MarketShape, marketVars, noteVars
    <3>2. QED
      BY <2>2, <3>1, DispatchTurn, TurnShape DEF PollShape
  <2>3. CASE CheckDuplicate(p)
    BY <2>3 DEF CheckDuplicate, PollShape, MarketShape, PollerShape, marketVars, noteVars
  <2>4. CASE Duplicate(p) \/ NotSubmitted(p)
    <3>1. MarketShape' /\ closeOnly' = closeOnly
      BY <2>4 DEF Duplicate, NotSubmitted, PollShape, MarketShape, marketVars, noteVars
    <3>2. QED
      BY <2>4, <3>1, EndTurn, TurnShape DEF PollShape
  <2>5. CASE Submitted(p)
    <3> DEFINE id == poll[p].id
    <3>1. id \in Ids
      BY <2>5 DEF Submitted, PollShape, PollerShape
    <3>2. units[id.symbol] \in Int /\ Ordered(units[id.symbol], id.side, id.action) \in Int
      BY <3>1 DEF Ids, PollShape, MarketShape, Ordered
    <3>3. units' \in [Symbols -> Int] /\ orders' \in [Symbols \X (1..MaxBar) \X Sides -> Nat]
      BY <2>5, <3>1, <3>2 DEF Submitted, Ids, PollShape, MarketShape
    <3>4. MarketShape' /\ closeOnly' = closeOnly
      BY <2>5, <3>3 DEF Submitted, PollShape, MarketShape
    <3>5. QED
      BY <2>5, <3>4, EndTurn, TurnShape DEF PollShape
  <2>6. QED
    BY <1>1, <2>1, <2>2, <2>3, <2>4, <2>5 DEF PollStep
<1>2. ASSUME NEW s \in Symbols, BarCloses(s) PROVE PollShape'
  <2>1. MarketShape'
    BY <1>2, PollAssumption DEF BarCloses, PollShape, MarketShape, noteVars
  <2>2. QED
    BY <1>2, <2>1 DEF BarCloses, PollShape, PollerShape
<1>3. ASSUME NEW s \in Symbols, StopTriggers(s) PROVE PollShape'
  BY <1>3 DEF StopTriggers, PollShape, MarketShape, PollerShape, noteVars
<1>4. CASE Restart
  BY <1>4, NoPollType DEF Restart, PollShape, MarketShape, PollerShape, marketVars, noteVars
<1>5. CASE UNCHANGED vars
  BY <1>5 DEF vars, marketVars, noteVars, PollShape, MarketShape, PollerShape
<1>6. QED
  BY <1>1, <1>2, <1>3, <1>4, <1>5 DEF Next

-----------------------------------------------------------------------------
(* The file of ids. *)

LEMMA PollerSeen ==
  ASSUME PollShape, NEW p \in Pollers, PollStep(p)
  PROVE  [SeenNext]_seenVars
<1>1. CASE BeginPoll(p) \/ SyncDirections(p) \/ SkipSymbol(p) \/ EndPoll(p)
  BY <1>1, QuietTurn
<1>2. CASE Dispatch(p)
  BY <1>2, DispatchTurn, PollAssumption DEF SeenNext, Pollers
<1>3. CASE CheckDuplicate(p)
  BY <1>3 DEF CheckDuplicate, SeenNext, Pollers
<1>4. CASE Duplicate(p) \/ NotSubmitted(p) \/ Submitted(p)
  BY <1>4, EndTurn DEF SeenNext, Pollers
<1>5. QED
  BY <1>1, <1>2, <1>3, <1>4 DEF PollStep

LEMMA PollSeen == PollShape /\ [Next]_vars => [SeenNext]_seenVars
<1>1. ASSUME NEW s \in Symbols, BarCloses(s) \/ StopTriggers(s) PROVE UNCHANGED seenVars
  BY <1>1 DEF BarCloses, StopTriggers
<1>2. Restart => SeenNext
  BY DEF Restart, SeenNext
<1>3. UNCHANGED vars => UNCHANGED seenVars
  BY DEF vars
<1>4. QED
  BY <1>1, <1>2, <1>3, PollerSeen DEF Next

(* The polls, the scheduler's and the operator's, make their checks the way*)
(* SeenFile specifies.                                                     *)
THEOREM PollUsesSeenFile == Spec => SeenSpec
<1>1. Init => SeenInit
  BY DEF Init
<1>2. QED
  BY <1>1, ShapeInit, ShapeStep, PollSeen, PTL DEF Spec, SeenSpec

(* The types of a poll, its market and its file, for any symbols.          *)
THEOREM PollTypeCorrect == Spec => []PollTypeOK
<1>1. Init => PollShape /\ SeenInv
  BY ShapeInit, SeenInitInv DEF Init
<1>2. PollShape /\ SeenInv /\ [Next]_vars => (PollShape /\ SeenInv)'
  BY ShapeStep, PollSeen, SeenStep
<1>3. PollShape /\ SeenInv => PollTypeOK
  BY DEF PollShape, MarketShape, PollRecords, SeenInv, PollTypeOK
<1>4. QED
  BY <1>1, <1>2, <1>3, PTL DEF Spec

-----------------------------------------------------------------------------
(* Orders. *)

\* p has passed the check of its id and may still order.
Passes(p) == poll[p].pc = "dispatch" /\ call[p].pc = "passed"

\* The check of this id passed, and whoever passed it is through with it.
Used(id) == grants[id] > 0 /\ ~\E p \in Pollers : Passes(p) /\ poll[p].id = id

Uses(id) == IF Used(id) THEN 1 ELSE 0

IdFor(o, action) == [symbol |-> o[1], bar |-> o[2], side |-> o[3], action |-> action]
OrderKeys == Symbols \X (1..MaxBar) \X Sides

LinkInv ==
  /\ \A p \in Pollers : poll[p].pc = "dispatch" => call[p].key = poll[p].id
  /\ \A p \in Pollers : Passes(p) => grants[poll[p].id] > 0
  /\ ~closeOnly => \A id \in Ids : id.action = "CLOSE" => grants[id] = 0

\* One poller at a time passes with an id that was never shared.
AlonePasses ==
  \A id \in Ids \ shared : \A p, q \in Pollers :
    Passes(p) /\ poll[p].id = id /\ Passes(q) /\ poll[q].id = id => p = q

CountInv ==
  \A o \in OrderKeys :
    IdFor(o, "OPEN") \notin shared /\ IdFor(o, "CLOSE") \notin shared =>
      orders[o] <= Uses(IdFor(o, "OPEN")) + Uses(IdFor(o, "CLOSE"))

OrderInv == LinkInv /\ AlonePasses /\ CountInv

LEMMA OrderKeyIds ==
  /\ \A o \in OrderKeys : IdFor(o, "OPEN") \in Ids /\ IdFor(o, "CLOSE") \in Ids
  /\ \A id \in Ids : /\ <<id.symbol, id.bar, id.side>> \in OrderKeys
                     /\ id = IdFor(<<id.symbol, id.bar, id.side>>, id.action)
                     /\ id.action \in {"OPEN", "CLOSE"}
BY DEF OrderKeys, IdFor, Ids

LEMMA OrderInit == Init => OrderInv
<1> SUFFICES ASSUME Init PROVE OrderInv
  OBVIOUS
<1>1. \A p \in Pollers : poll[p].pc = "idle"
  BY NoPollType DEF Init
<1>2. \A id \in Ids : grants[id] = 0
  BY PollAssumption DEF Init, SeenInit
<1>3. \A o \in OrderKeys : orders[o] = 0
  BY DEF Init, OrderKeys
<1>4. QED
  BY <1>1, <1>2, <1>3 DEF OrderInv, LinkInv, AlonePasses, CountInv, Passes, Uses

\* A step without order or grant, after which nobody passes that did not.
LEMMA CalmKeepsOrders ==
  ASSUME PollShape, OrderInv, UNCHANGED <<closeOnly, orders, grants>>,
         shared \subseteq shared',
         \A p \in Pollers : Passes(p)' => Passes(p) /\ poll'[p].id = poll[p].id,
         \A p \in Pollers : poll'[p].pc = "dispatch" => call'[p].key = poll'[p].id
  PROVE  OrderInv'
<1>1. LinkInv'
  BY DEF OrderInv, LinkInv
<1>2. AlonePasses'
  BY DEF OrderInv, AlonePasses
<1>3. \A id : (Used(id) => Used(id)') /\ (Uses(id) <= Uses(id)')
  BY DEF Used, Uses
<1>4. CountInv'
  <2> SUFFICES ASSUME NEW o \in OrderKeys,
                      IdFor(o, "OPEN") \notin shared', IdFor(o, "CLOSE") \notin shared'
               PROVE  orders'[o] <= Uses(IdFor(o, "OPEN"))' + Uses(IdFor(o, "CLOSE"))'
    BY DEF CountInv
  <2>1. orders[o] <= Uses(IdFor(o, "OPEN")) + Uses(IdFor(o, "CLOSE"))
    BY DEF OrderInv, CountInv
  <2>2. orders[o] \in Nat
    BY DEF PollShape, MarketShape, OrderKeys
  <2>3. QED
    BY <1>3, <2>1, <2>2 DEF Uses
<1>5. QED
  BY <1>1, <1>2, <1>4 DEF OrderInv

\* p passes the check of its id.
LEMMA AppendKeepsOrders ==
  ASSUME Exact = Keys, PollShape, SeenInv, OrderInv,
         NEW p \in Pollers, CheckDuplicate(p), AppendSeen(p)
  PROVE  OrderInv'
<1> DEFINE k == poll[p].id
<1>1. /\ k \in Ids /\ call[p].key = k /\ call[p].pc = "append" /\ ~Passes(p)
      /\ poll' = poll /\ orders' = orders /\ closeOnly' = closeOnly
  BY DEF CheckDuplicate, AppendSeen, noteVars, PollShape, PollerShape, OrderInv, LinkInv, Passes
<1>2. /\ grants' = [grants EXCEPT ![k] = @ + 1] /\ shared' = shared
      /\ call' = [call EXCEPT ![p].pc = "passed"]
  BY <1>1 DEF AppendSeen
<1>3. /\ \A id \in Ids : grants[id] \in Nat
      /\ \A id \in Ids : grants'[id] = IF id = k THEN grants[id] + 1 ELSE grants[id]
  BY <1>1, <1>2, PollAssumption DEF SeenInv, SeenTypeOK
<1>4. /\ \A q \in Pollers : q # p => call'[q] = call[q] /\ (Passes(q)' <=> Passes(q))
      /\ call'[p].key = call[p].key
  BY <1>1, <1>2 DEF SeenInv, SeenTypeOK, Pollers, Passes
<1>5. Passes(p)'
  BY <1>1, <1>2 DEF SeenInv, SeenTypeOK, Pollers, Passes, CheckDuplicate
<1>6. LinkInv'
  <2>1. \A q \in Pollers : (poll[q].pc = "dispatch" => call[q].key = poll[q].id)'
    BY <1>1, <1>4 DEF OrderInv, LinkInv
  <2>2. \A q \in Pollers : Passes(q)' => (grants[poll[q].id] > 0)'
    <3> SUFFICES ASSUME NEW q \in Pollers, Passes(q)' PROVE grants'[poll[q].id] > 0
      BY <1>1
    <3>1. poll[q].id \in Ids
      BY <1>1 DEF Passes, PollShape, PollerShape
    <3>2. CASE q = p
      BY <1>1, <1>3, <3>2
    <3>3. CASE q # p
      BY <1>3, <1>4, <3>1, <3>3 DEF OrderInv, LinkInv
    <3>4. QED
      BY <3>2, <3>3
  <2>3. ~closeOnly => k.action = "OPEN"
    BY DEF CheckDuplicate, PollShape, PollerShape
  <2>4. QED
    BY <1>1, <1>3, <2>1, <2>2, <2>3 DEF OrderInv, LinkInv
<1>7. k \notin shared => grants[k] = 0
  BY <1>1, PollAssumption DEF SeenInv, AloneInv, Pollers, Exact
<1>8. AlonePasses'
  <2> SUFFICES ASSUME NEW id \in Ids \ shared, NEW q1 \in Pollers, NEW q2 \in Pollers,
                      Passes(q1)', poll[q1].id = id, Passes(q2)', poll[q2].id = id
               PROVE  q1 = q2
    BY <1>1, <1>2 DEF AlonePasses
  <2>1. CASE id = k
    BY <1>4, <1>7, <2>1 DEF OrderInv, LinkInv
  <2>2. CASE id # k
    BY <1>4, <2>2 DEF OrderInv, AlonePasses
  <2>3. QED
    BY <2>1, <2>2
<1>9. ASSUME NEW id \in Ids \ shared PROVE Used(id)' <=> Used(id)
  <2>1. CASE id = k
    BY <1>1, <1>5, <1>7, <2>1 DEF Used
  <2>2. CASE id # k
    BY <1>1, <1>3, <1>4, <2>2 DEF Used
  <2>3. QED
    BY <2>1, <2>2
<1>10. CountInv'
  <2> SUFFICES ASSUME NEW o \in OrderKeys,
                      IdFor(o, "OPEN") \notin shared, IdFor(o, "CLOSE") \notin shared
               PROVE  orders[o] <= Uses(IdFor(o, "OPEN"))' + Uses(IdFor(o, "CLOSE"))'
    BY <1>1, <1>2 DEF CountInv
  <2>1. orders[o] <= Uses(IdFor(o, "OPEN")) + Uses(IdFor(o, "CLOSE"))
    BY DEF OrderInv, CountInv
  <2>2. /\ Used(IdFor(o, "OPEN"))' <=> Used(IdFor(o, "OPEN"))
        /\ Used(IdFor(o, "CLOSE"))' <=> Used(IdFor(o, "CLOSE"))
    BY <1>9, OrderKeyIds
  <2>3. QED
    BY <2>1, <2>2 DEF Uses
<1>11. QED
  BY <1>6, <1>8, <1>10 DEF OrderInv

\* p is through with its id, with or without an order.
LEMMA EndKeepsOrders ==
  ASSUME PollShape, SeenInv, OrderInv, NEW p \in Pollers,
         Duplicate(p) \/ NotSubmitted(p) \/ Submitted(p)
  PROVE  OrderInv'
<1> DEFINE k == poll[p].id
           key == <<k.symbol, k.bar, k.side>>
<1>1. /\ EndCheck(p) /\ poll'[p].pc = "symbols"
      /\ \A q \in Pollers : q # p => poll'[q] = poll[q]
      /\ k \in Ids /\ closeOnly' = closeOnly
  BY EndTurn, TurnShape, SMTT(20) DEF Duplicate, NotSubmitted, Submitted, PollShape, PollerShape
<1>2. /\ UNCHANGED <<grants, shared>>
      /\ \A q \in Pollers : q # p => call'[q] = call[q]
  BY <1>1 DEF EndCheck, SeenInv, SeenTypeOK, Pollers
<1>3. /\ \A q \in Pollers : Passes(q)' => q # p /\ Passes(q) /\ poll'[q].id = poll[q].id
      /\ \A q \in Pollers : poll'[q].pc = "dispatch" => call'[q].key = poll'[q].id
  BY <1>1, <1>2 DEF Passes, OrderInv, LinkInv
<1>4. CASE orders' = orders
  BY <1>1, <1>2, <1>3, <1>4, CalmKeepsOrders
<1>5. CASE Submitted(p)
  <2>1. Passes(p) /\ orders' = [orders EXCEPT ![key] = @ + 1]
    BY <1>5 DEF Submitted, Passes
  <2>2. LinkInv' /\ AlonePasses'
    BY <1>1, <1>2, <1>3 DEF OrderInv, LinkInv, AlonePasses
  <2>3. \A id : Used(id) => Used(id)'
    BY <1>2, <1>3 DEF Used
  <2>4. k \notin shared => ~Used(k)
    BY <2>1 DEF Used
  <2>5. ASSUME NEW id, id = k, id \notin shared PROVE Used(id)'
    BY <1>1, <1>2, <1>3, <2>1, <2>5 DEF Used, OrderInv, LinkInv, AlonePasses
  <2>6. CountInv'
    <3> SUFFICES ASSUME NEW o \in OrderKeys,
                        IdFor(o, "OPEN") \notin shared, IdFor(o, "CLOSE") \notin shared
                 PROVE  orders'[o] <= Uses(IdFor(o, "OPEN"))' + Uses(IdFor(o, "CLOSE"))'
      BY <1>2 DEF CountInv
    <3>1. orders[o] <= Uses(IdFor(o, "OPEN")) + Uses(IdFor(o, "CLOSE")) /\ orders[o] \in Nat
      BY DEF OrderInv, CountInv, PollShape, MarketShape, OrderKeys
    <3>2. CASE o # key
      <4>1. orders'[o] = orders[o]
        BY <2>1, <3>2 DEF PollShape, MarketShape, OrderKeys
      <4>2. QED
        BY <2>3, <3>1, <4>1 DEF Uses
    <3>3. CASE o = key
      <4>1. orders'[o] = orders[o] + 1
        BY <2>1, <3>3 DEF PollShape, MarketShape, OrderKeys
      <4>2. IdFor(o, "OPEN") = k \/ IdFor(o, "CLOSE") = k
        BY <1>1, <3>3, OrderKeyIds
      <4>3. IdFor(o, "OPEN") # IdFor(o, "CLOSE")
        BY DEF IdFor
      <4>4. CASE IdFor(o, "OPEN") = k
        <5>1. ~Used(IdFor(o, "OPEN")) /\ Used(IdFor(o, "OPEN"))'
          BY <2>4, <2>5, <4>4
        <5>2. QED
          BY <2>3, <3>1, <4>1, <5>1 DEF Uses
      <4>5. CASE IdFor(o, "CLOSE") = k
        <5>1. ~Used(IdFor(o, "CLOSE")) /\ Used(IdFor(o, "CLOSE"))'
          BY <2>4, <2>5, <4>5
        <5>2. QED
          BY <2>3, <3>1, <4>1, <5>1 DEF Uses
      <4>6. QED
        BY <4>2, <4>4, <4>5
    <3>4. QED
      BY <3>2, <3>3
  <2>7. QED
    BY <2>2, <2>6 DEF OrderInv
<1>6. QED
  BY <1>4, <1>5 DEF Duplicate, NotSubmitted, noteVars

LEMMA OrderStep ==
  ASSUME Exact = Keys, PollShape, SeenInv, OrderInv, [Next]_vars
  PROVE  OrderInv'
<1>0. shared \subseteq shared'
  BY PollSeen, SharedGrows
<1>1. ASSUME NEW p \in Pollers, PollStep(p) PROVE OrderInv'
  <2>1. CASE BeginPoll(p) \/ SyncDirections(p) \/ SkipSymbol(p) \/ EndPoll(p)
    <3>1. \A q \in Pollers : poll'[q].pc = "dispatch" => poll'[q] = poll[q]
      BY <2>1, QuietTurn, TurnShape
    <3>2. QED
      BY <1>0, <2>1, <3>1, QuietTurn, CalmKeepsOrders DEF Passes, seenVars, OrderInv, LinkInv
  <2>2. CASE Dispatch(p)
    <3> DEFINE r == DispatchRecord(p)
    <3>1. /\ poll'[p] = r /\ \A q \in Pollers : q # p => poll'[q] = poll[q]
          /\ closeOnly' = closeOnly /\ orders' = orders
      BY <2>2, DispatchTurn, TurnShape DEF Dispatch, noteVars
    <3>2. /\ call'[p].pc = "read" /\ call'[p].key = r.id /\ grants' = grants
          /\ \A q \in Pollers : q # p => call'[q] = call[q]
      BY <2>2, DispatchTurn DEF BeginCheck, SeenInv, SeenTypeOK, Pollers
    <3>3. /\ \A q \in Pollers : Passes(q)' => Passes(q) /\ poll'[q].id = poll[q].id
          /\ \A q \in Pollers : poll'[q].pc = "dispatch" => call'[q].key = poll'[q].id
      BY <3>1, <3>2 DEF Passes, OrderInv, LinkInv
    <3>4. QED
      BY <1>0, <3>1, <3>2, <3>3, CalmKeepsOrders
  <2>3. CASE CheckDuplicate(p) /\ ReadSeen(p)
    <3>1. /\ UNCHANGED <<poll, orders, closeOnly, grants>>
          /\ call'[p].pc # "passed" /\ call'[p].key = call[p].key
          /\ \A q \in Pollers : q # p => call'[q] = call[q]
      BY <2>3 DEF CheckDuplicate, ReadSeen, noteVars, SeenInv, SeenTypeOK, Pollers
    <3>2. QED
      BY <1>0, <3>1, CalmKeepsOrders DEF Passes, OrderInv, LinkInv
  <2>4. CASE CheckDuplicate(p) /\ AppendSeen(p)
    BY <2>4, AppendKeepsOrders
  <2>5. CASE Duplicate(p) \/ NotSubmitted(p) \/ Submitted(p)
    BY <2>5, EndKeepsOrders
  <2>6. QED
    BY <1>1, <2>1, <2>2, <2>3, <2>4, <2>5 DEF PollStep, CheckDuplicate
<1>2. ASSUME NEW s \in Symbols, BarCloses(s) \/ StopTriggers(s) PROVE OrderInv'
  <2>1. UNCHANGED <<closeOnly, poll, orders, seenVars>>
    BY <1>2 DEF BarCloses, StopTriggers, noteVars
  <2>2. QED
    BY <1>0, <2>1, CalmKeepsOrders DEF Passes, seenVars, OrderInv, LinkInv
<1>3. CASE Restart
  <2>1. /\ \A q \in Pollers : poll'[q].pc # "dispatch"
        /\ UNCHANGED <<closeOnly, orders, grants>>
    BY <1>3, NoPollType DEF Restart, SeenCrash, noteVars
  <2>2. QED
    BY <1>0, <2>1, CalmKeepsOrders DEF Passes
<1>4. CASE UNCHANGED vars
  BY <1>0, <1>4, CalmKeepsOrders DEF vars, noteVars, seenVars, Passes, OrderInv, LinkInv
<1>5. QED
  BY <1>1, <1>2, <1>3, <1>4 DEF Next

(* For any symbols, bars, pollers, failing syncs and crashes: a bar and    *)
(* side of a symbol is ordered once, and in close_only mode at most twice, *)
(* unless two polls asked about it at once.                                *)
THEOREM BarsOrderOnce ==
  ASSUME Exact = Keys
  PROVE  Spec => []OneOrderPerBarSide
<1>1. Init => PollShape /\ SeenInv /\ OrderInv
  BY ShapeInit, SeenInitInv, OrderInit DEF Init
<1>2. PollShape /\ SeenInv /\ OrderInv /\ [Next]_vars => (PollShape /\ SeenInv /\ OrderInv)'
  BY ShapeStep, PollSeen, SeenStep, OrderStep
<1>3. PollShape /\ SeenInv /\ OrderInv => OneOrderPerBarSide
  <2> SUFFICES ASSUME PollShape, SeenInv, OrderInv, NEW o \in OrderKeys, ~Shared(o)
               PROVE  orders[o] <= IF closeOnly THEN 2 ELSE 1
    BY DEF OneOrderPerBarSide, PollShape, MarketShape, OrderKeys
  <2>1. IdFor(o, "OPEN") \notin shared /\ IdFor(o, "CLOSE") \notin shared
    BY DEF Shared, IdFor, OrderKeys
  <2>2. /\ orders[o] <= Uses(IdFor(o, "OPEN")) + Uses(IdFor(o, "CLOSE"))
        /\ orders[o] \in Nat
    BY <2>1 DEF OrderInv, CountInv, PollShape, MarketShape, OrderKeys
  <2>3. ~closeOnly => ~Used(IdFor(o, "CLOSE"))
    <3>1. IdFor(o, "CLOSE") \in Ids /\ IdFor(o, "CLOSE").action = "CLOSE"
      BY OrderKeyIds DEF IdFor
    <3>2. ~closeOnly => grants[IdFor(o, "CLOSE")] = 0
      BY <3>1 DEF OrderInv, LinkInv
    <3>3. QED
      BY <3>2 DEF Used
  <2>4. QED
    BY <2>2, <2>3 DEF Uses
<1>4. QED
  BY <1>1, <1>2, <1>3, PTL DEF Spec

-----------------------------------------------------------------------------
(* Positions. *)

\* A position as the orders of one side count it.
Toward(n, side) == IF side = "buy" THEN n ELSE -n

\* The poll has its directions and is not through with s yet.
Pending(r, s) ==
  /\ r.pc \in {"symbols", "dispatch"}
  /\ \E i \in 1..Len(r.todo) : r.todo[i] = s

\* The polls that may still order this side of s.
MayOrder(r, s, side) == Pending(r, s) /\ ~SameDirection(r.map[s], side)
Claimers(s, side) == {p \in Pollers : MayOrder(poll[p], s, side)}

Most == IF overlap THEN Cardinality(Pollers) ELSE 1

\* A poll lists a symbol once, and orders the one at the head of its list.
Orderly(r) ==
  /\ \A i, j \in 1..Len(r.todo) : i # j => r.todo[i] # r.todo[j]
  /\ r.pc = "dispatch" => /\ r.id.symbol = Head(r.todo) /\ r.id.side \in Sides
                          /\ ~SameDirection(r.map[r.id.symbol], r.id.side)

OneAtATime ==
  ~overlap => \A p, q \in Pollers : poll[p].pc # "idle" /\ poll[q].pc # "idle" => p = q

\* A side's position and the orders of that side to come stay within the bound.
StackInv ==
  /\ \A p \in Pollers : Orderly(poll[p])
  /\ OneAtATime
  /\ ~blind => \A s \in Symbols, side \in Sides :
                  Toward(units[s], side) + Cardinality(Claimers(s, side)) <= Most

LEMMA PollersFinite == IsFiniteSet(Pollers) /\ Cardinality(Pollers) \in Nat
BY PollAssumption, FS_CardinalityType DEF Pollers

LEMMA FewClaim ==
  ASSUME OneAtATime, NEW s, NEW side
  PROVE  /\ IsFiniteSet(Claimers(s, side)) /\ Cardinality(Claimers(s, side)) \in Nat
         /\ Most \in Nat /\ Cardinality(Claimers(s, side)) <= Most
<1> DEFINE C == Claimers(s, side)
<1>1. C \subseteq Pollers
  BY DEF Claimers
<1>2. IsFiniteSet(C) /\ Cardinality(C) \in Nat /\ Cardinality(C) <= Cardinality(Pollers)
  BY <1>1, PollersFinite, FS_Subset, FS_CardinalityType
<1>3. CASE overlap
  BY <1>2, <1>3, PollersFinite DEF Most
<1>4. CASE ~overlap
  <2>1. \A p \in C, q \in C : p = q
    BY <1>4 DEF Claimers, MayOrder, Pending, OneAtATime
  <2>2. Cardinality(C) <= 1
    <3>1. CASE C = {}
      BY <3>1, FS_EmptySet
    <3>2. ASSUME NEW p \in C PROVE Cardinality(C) <= 1
      <4> HIDE DEF C
      <4>1. C = {p}
        BY <2>1, <3>2
      <4>2. QED
        BY <4>1, FS_Singleton
    <3>3. QED
      BY <3>1, <3>2
  <2>3. QED
    BY <1>2, <1>4, <2>2 DEF Most
<1>5. QED
  BY <1>3, <1>4

LEMMA TowardIsInt == \A n \in Int : \A side : Toward(n, side) \in Int
BY DEF Toward

\* What a step may do to a side: clear it, let claims lapse, or turn one of the
\* claims into a unit.
Stacks(s, side) ==
  \/ Toward(units'[s], side) <= 0
  \/ /\ Toward(units'[s], side) <= Toward(units[s], side)
     /\ Claimers(s, side)' \subseteq Claimers(s, side)
  \/ /\ Toward(units'[s], side) <= Toward(units[s], side) + 1
     /\ \E p \in Claimers(s, side) : Claimers(s, side)' \subseteq Claimers(s, side) \ {p}

LEMMA StacksKeepsInv ==
  ASSUME PollShape, PollShape', StackInv,
         \A p \in Pollers : Orderly(poll'[p]), OneAtATime',
         blind => blind',
         overlap' = overlap \/ (overlap' = TRUE /\ Pollers # {}),
         ~blind' => \A s \in Symbols, side \in Sides : Stacks(s, side)
  PROVE  StackInv'
<1>1. ASSUME ~blind', NEW s \in Symbols, NEW side \in Sides
      PROVE  Toward(units'[s], side) + Cardinality(Claimers(s, side)') <= Most'
  <2> DEFINE C == Claimers(s, side)
             D == Claimers(s, side)'
  <2>1. /\ IsFiniteSet(C) /\ Cardinality(C) \in Nat
        /\ Most \in Nat /\ Cardinality(C) <= Most
    BY FewClaim DEF StackInv
  <2>2. /\ IsFiniteSet(D) /\ Cardinality(D) \in Nat
        /\ Most' \in Nat /\ Cardinality(D) <= Most'
    <3>1. (OneAtATime => /\ IsFiniteSet(Claimers(s, side))
                         /\ Cardinality(Claimers(s, side)) \in Nat
                         /\ Most \in Nat /\ Cardinality(Claimers(s, side)) <= Most)'
      BY FewClaim, PTL
    <3>2. QED
      BY <3>1
  <2>3. Most <= Most'
    <3>1. Pollers # {} => Cardinality(Pollers) >= 1
      BY PollersFinite, FS_EmptySet
    <3>2. QED
      BY <2>1, <2>2, <3>1, PollersFinite DEF Most, PollShape, MarketShape
  <2>4. Toward(units[s], side) + Cardinality(C) <= Most
    BY <1>1 DEF StackInv
  <2>5. Toward(units[s], side) \in Int /\ Toward(units'[s], side) \in Int
    <3>1. units[s] \in Int /\ units'[s] \in Int
      BY DEF PollShape, MarketShape
    <3>2. QED
      BY <3>1, TowardIsInt
  <2>6. Stacks(s, side)
    BY <1>1
  <2>7. D \subseteq C => Cardinality(D) <= Cardinality(C)
    BY <2>1, FS_Subset
  <2>8. ASSUME NEW p \in C, D \subseteq C \ {p} PROVE Cardinality(D) <= Cardinality(C) - 1
    <3>1. IsFiniteSet(C \ {p}) /\ Cardinality(C \ {p}) = Cardinality(C) - 1
      BY <2>1, FS_RemoveElement
    <3>2. QED
      BY <2>8, <3>1, FS_Subset
  <2> DEFINE a == Toward(units[s], side)
             b == Toward(units'[s], side)
  <2>9. \/ b <= 0
        \/ b <= a /\ Cardinality(D) <= Cardinality(C)
        \/ b <= a + 1 /\ Cardinality(D) <= Cardinality(C) - 1
    BY <2>6, <2>7, <2>8 DEF Stacks
  <2> HIDE DEF a, b, C, D
  <2>10. b + Cardinality(D) <= Most'
    BY <2>1, <2>2, <2>3, <2>4, <2>5, <2>9 DEF a, b
  <2>11. QED
    BY <2>10 DEF b, D
<1>2. QED
  BY <1>1 DEF StackInv

LEMMA TurnKeepsInv ==
  ASSUME PollShape, PollShape', StackInv, NEW p \in Pollers, NEW r, Turn(p, r), Orderly(r),
         closeOnly' = closeOnly, OneAtATime', blind => blind',
         overlap' = overlap \/ overlap' = TRUE,
         ~blind' => \A s \in Symbols, side \in Sides :
           \/ Toward(units'[s], side) <= 0
           \/ /\ Toward(units'[s], side) <= Toward(units[s], side)
              /\ MayOrder(r, s, side) => MayOrder(poll[p], s, side)
           \/ /\ Toward(units'[s], side) <= Toward(units[s], side) + 1
              /\ MayOrder(poll[p], s, side) /\ ~MayOrder(r, s, side)
  PROVE  StackInv'
<1>1. poll'[p] = r /\ \A q \in Pollers : q # p => poll'[q] = poll[q]
  BY TurnShape
<1>2. \A q \in Pollers : Orderly(poll'[q])
  BY <1>1 DEF StackInv
<1>3. ASSUME ~blind', NEW s \in Symbols, NEW side \in Sides
      PROVE  Stacks(s, side)
  <2>1. \A q \in Pollers : q # p =>
           (q \in Claimers(s, side)' <=> q \in Claimers(s, side))
    BY <1>1 DEF Claimers, MayOrder, Pending
  <2>2. /\ p \in Claimers(s, side) <=> MayOrder(poll[p], s, side)
        /\ p \in Claimers(s, side)' <=> MayOrder(r, s, side)
    BY <1>1 DEF Claimers, MayOrder, Pending
  <2>3. /\ Claimers(s, side) \subseteq Pollers /\ Claimers(s, side)' \subseteq Pollers
    BY DEF Claimers
  <2> DEFINE C == Claimers(s, side)
             D == Claimers(s, side)'
  <2> HIDE DEF C, D
  <2>4. (MayOrder(r, s, side) => MayOrder(poll[p], s, side)) => D \subseteq C
    BY <2>1, <2>2, <2>3 DEF C, D
  <2>5. MayOrder(poll[p], s, side) /\ ~MayOrder(r, s, side) => p \in C /\ D \subseteq C \ {p}
    BY <2>1, <2>2, <2>3 DEF C, D
  <2>6. QED
    BY <1>3, <2>4, <2>5 DEF Stacks, C, D
<1>4. overlap' = overlap \/ (overlap' = TRUE /\ Pollers # {})
  OBVIOUS
<1>5. QED
  BY <1>2, <1>3, <1>4, StacksKeepsInv

\* What the tail of a list without repetitions lists.
LEMMA TailLists ==
  ASSUME NEW t \in Seq(Symbols), t # <<>>,
         \A i, j \in 1..Len(t) : i # j => t[i] # t[j]
  PROVE  /\ \A i \in 1..Len(Tail(t)) : i + 1 \in 1..Len(t) /\ Tail(t)[i] = t[i + 1]
         /\ \A i, j \in 1..Len(Tail(t)) : i # j => Tail(t)[i] # Tail(t)[j]
         /\ \A i \in 1..Len(Tail(t)) : Tail(t)[i] # Head(t)
         /\ 1 \in 1..Len(t) /\ t[1] = Head(t)
<1>1. Len(t) \in Nat \ {0} /\ Head(t) = t[1] /\ Len(Tail(t)) = Len(t) - 1
  OBVIOUS
<1>2. \A i \in 1..Len(Tail(t)) : i + 1 \in 1..Len(t) /\ i + 1 # 1 /\ Tail(t)[i] = t[i + 1]
  BY <1>1
<1>3. \A i \in 1..Len(Tail(t)) : Tail(t)[i] # Head(t)
  BY <1>1, <1>2
<1>4. \A i, j \in 1..Len(Tail(t)) : i # j => Tail(t)[i] # Tail(t)[j]
  BY <1>1, <1>2
<1>5. QED
  BY <1>1, <1>2, <1>3, <1>4

\* A poll that goes on to its next symbol, whatever becomes of its id.
LEMMA NextLists ==
  ASSUME PollShape, StackInv, NEW p \in Pollers, poll[p].todo # <<>>,
         poll[p].pc \in {"symbols", "dispatch"}, NEW r,
         r.pc = "symbols", r.todo = Tail(poll[p].todo), r.map = poll[p].map
  PROVE  /\ Orderly(r)
         /\ \A s, side : MayOrder(r, s, side) => MayOrder(poll[p], s, side)
         /\ \A side : ~MayOrder(r, Head(poll[p].todo), side)
<1> DEFINE t == poll[p].todo
<1>1. t \in Seq(Symbols) /\ t # <<>> /\ \A i, j \in 1..Len(t) : i # j => t[i] # t[j]
  BY DEF PollShape, PollRecords, StackInv, Orderly
<1>2. /\ \A i \in 1..Len(Tail(t)) : i + 1 \in 1..Len(t) /\ Tail(t)[i] = t[i + 1]
      /\ \A i, j \in 1..Len(Tail(t)) : i # j => Tail(t)[i] # Tail(t)[j]
      /\ \A i \in 1..Len(Tail(t)) : Tail(t)[i] # Head(t)
  <2> HIDE DEF t
  <2>1. QED
    BY <1>1, TailLists
<1>3. Orderly(r)
  BY <1>2 DEF Orderly
<1>4. \A s : Pending(r, s) => Pending(poll[p], s) /\ s # Head(t)
  BY <1>2 DEF Pending
<1>5. QED
  BY <1>3, <1>4 DEF MayOrder

\* A step of a poll that is running already leaves one at a time.
LEMMA RunningAlone ==
  ASSUME PollShape, StackInv, NEW p \in Pollers, NEW r, Turn(p, r), closeOnly' = closeOnly,
         poll[p].pc # "idle", overlap' = overlap
  PROVE  OneAtATime'
<1>1. \A q \in Pollers : q # p => poll'[q] = poll[q]
  BY TurnShape
<1>2. QED
  BY <1>1 DEF StackInv, OneAtATime

LEMMA BeginStacks ==
  ASSUME SkipSame, PollShape, PollShape', StackInv, NEW p \in Pollers, BeginPoll(p)
  PROVE  StackInv'
<1>1. /\ Turn(p, BeginRecord) /\ BeginRecord.pc = "sync"
      /\ BeginRecord.todo = SetToSeq(Symbols)
  BY BeginTurn DEF BeginRecord, NoPoll
<1>2. Orderly(BeginRecord)
  BY <1>1, SetInOrder, PollAssumption DEF Orderly
<1>3. /\ UNCHANGED <<closeOnly, units, blind>> /\ poll[p].pc = "idle"
      /\ overlap' = (overlap \/ \E q \in Pollers : poll[q].pc # "idle")
  BY DEF BeginPoll, marketVars
<1>4. OneAtATime'
  <2>1. \A q \in Pollers : q # p => poll'[q] = poll[q]
    BY <1>1, <1>3, TurnShape
  <2>2. QED
    BY <1>3, <2>1 DEF OneAtATime
<1>5. overlap' = overlap \/ overlap' = TRUE
  BY <1>3 DEF PollShape, MarketShape
<1>6. \A s \in Symbols, side \in Sides :
        /\ Toward(units'[s], side) <= Toward(units[s], side)
        /\ ~MayOrder(BeginRecord, s, side)
  <2>1. \A s \in Symbols, side \in Sides : Toward(units[s], side) \in Int
    BY TowardIsInt DEF PollShape, MarketShape
  <2>2. QED
    BY <1>1, <1>3, <2>1 DEF MayOrder, Pending
<1>7. QED
  BY <1>1, <1>2, <1>3, <1>4, <1>5, <1>6, TurnKeepsInv

LEMMA SyncStacks ==
  ASSUME PollShape, PollShape', StackInv, NEW p \in Pollers, SyncDirections(p)
  PROVE  StackInv'
<1> DEFINE known == [poll[p] EXCEPT !.pc = "symbols", !.map = [s \in Symbols |-> DirectionOf(s)]]
           unknown == [poll[p] EXCEPT !.pc = "symbols"]
<1>0. \A s \in Symbols : DirectionOf(s) \in Directions
  BY DEF DirectionOf, Directions
<1>1. /\ known \in PollRecords /\ known.pc = "symbols" /\ known.todo = poll[p].todo
      /\ known.map = [s \in Symbols |-> DirectionOf(s)]
      /\ unknown \in PollRecords /\ unknown.pc = "symbols" /\ unknown.todo = poll[p].todo
  BY <1>0 DEF PollShape, PollRecords
<1>2. \/ poll' = [poll EXCEPT ![p] = known] /\ blind' = blind
      \/ poll' = [poll EXCEPT ![p] = unknown] /\ blind' = TRUE
  BY DEF SyncDirections, PollShape
<1>3. poll[p].pc = "sync" /\ UNCHANGED <<closeOnly, units, overlap>>
  BY DEF SyncDirections, marketVars
<1> HIDE DEF known, unknown
<1>4. Orderly(known) /\ Orderly(unknown)
  BY <1>1 DEF StackInv, Orderly
<1>5. \A s \in Symbols, side \in Sides :
        Toward(units'[s], side) <= 0 \/ ~MayOrder(known, s, side)
  <2> SUFFICES ASSUME NEW s \in Symbols, NEW side \in Sides, MayOrder(known, s, side)
               PROVE  Toward(units[s], side) <= 0
    BY <1>3
  <2>1. ~SameDirection(DirectionOf(s), side)
    BY <1>1 DEF MayOrder
  <2>2. units[s] \in Int
    BY DEF PollShape, MarketShape
  <2>3. QED
    BY <2>1, <2>2 DEF SameDirection, DirectionOf, Toward, Sides
<1>6. \A s \in Symbols, side \in Sides : Toward(units'[s], side) <= Toward(units[s], side)
  <2>1. \A s \in Symbols, side \in Sides : Toward(units[s], side) \in Int
    BY TowardIsInt DEF PollShape, MarketShape
  <2>2. QED
    BY <1>3, <2>1
<1>7. CASE poll' = [poll EXCEPT ![p] = known] /\ blind' = blind
  <2>1. Turn(p, known)
    BY <1>1, <1>7 DEF Turn, PollerShape
  <2>2. OneAtATime'
    BY <1>3, <2>1, RunningAlone
  <2>3. QED
    BY <1>3, <1>4, <1>5, <1>6, <1>7, <2>1, <2>2, TurnKeepsInv
<1>8. CASE poll' = [poll EXCEPT ![p] = unknown] /\ blind' = TRUE
  <2>1. Turn(p, unknown)
    BY <1>1, <1>8 DEF Turn, PollerShape
  <2>2. OneAtATime'
    BY <1>3, <2>1, RunningAlone
  <2>3. QED
    BY <1>3, <1>4, <1>8, <2>1, <2>2, TurnKeepsInv
<1>9. QED
  BY <1>2, <1>7, <1>8

\* No unit moves, and the poll may order no more than before.
LEMMA CalmStacks ==
  ASSUME PollShape, PollShape', StackInv, NEW p \in Pollers, NEW r, Turn(p, r), Orderly(r),
         poll[p].pc # "idle", UNCHANGED <<closeOnly, units, blind, overlap>>,
         \A s \in Symbols, side \in Sides : MayOrder(r, s, side) => MayOrder(poll[p], s, side)
  PROVE  StackInv'
<1>1. OneAtATime'
  BY RunningAlone
<1>2. \A s \in Symbols, side \in Sides : Toward(units'[s], side) <= Toward(units[s], side)
  <2>1. \A s \in Symbols, side \in Sides : Toward(units[s], side) \in Int
    BY TowardIsInt DEF PollShape, MarketShape
  <2>2. QED
    BY <2>1
<1>3. QED
  BY <1>1, <1>2, TurnKeepsInv

LEMMA ScanStacks ==
  ASSUME PollShape, PollShape', StackInv, NEW p \in Pollers, SkipSymbol(p) \/ EndPoll(p)
  PROVE  StackInv'
<1>1. poll[p].pc = "symbols" /\ UNCHANGED <<closeOnly, units, blind, overlap>>
  BY DEF SkipSymbol, EndPoll, AtSymbol, marketVars, noteVars
<1>2. CASE SkipSymbol(p)
  <2> DEFINE r == [poll[p] EXCEPT !.todo = Tail(@)]
  <2>1. poll[p].todo # <<>>
    BY <1>2 DEF SkipSymbol, AtSymbol
  <2>2. /\ r \in PollRecords /\ r.pc = "symbols" /\ r.todo = Tail(poll[p].todo)
        /\ r.map = poll[p].map
    BY <1>1, <2>1, HeadAndTail DEF PollShape, PollRecords
  <2>3. poll' = [poll EXCEPT ![p] = r]
    BY <1>2 DEF SkipSymbol, PollShape
  <2> HIDE DEF r
  <2>4. Turn(p, r)
    BY <2>2, <2>3 DEF Turn, PollerShape
  <2>5. Orderly(r) /\ \A s, side : MayOrder(r, s, side) => MayOrder(poll[p], s, side)
    BY <1>1, <2>1, <2>2, NextLists
  <2>6. QED
    BY <1>1, <2>4, <2>5, CalmStacks
<1>3. CASE EndPoll(p)
  <2>1. Turn(p, NoPoll)
    BY <1>3, NoPollType DEF EndPoll, Turn, PollerShape
  <2>2. Orderly(NoPoll) /\ \A s, side : ~MayOrder(NoPoll, s, side)
    BY DEF Orderly, MayOrder, Pending, NoPoll
  <2>3. QED
    BY <1>1, <2>1, <2>2, CalmStacks
<1>4. QED
  BY <1>2, <1>3

LEMMA DispatchStacks ==
  ASSUME PollShape, PollShape', StackInv, NEW p \in Pollers, Dispatch(p)
  PROVE  StackInv'
<1> DEFINE r == DispatchRecord(p)
           s == Current(p)
<1>1. /\ poll[p].pc = "symbols" /\ UNCHANGED <<closeOnly, units, blind, overlap>>
      /\ cross[s] # "none" /\ ~SameDirection(poll[p].map[s], cross[s]) /\ s \in Symbols
  BY HeadAndTail DEF Dispatch, AtSymbol, marketVars, noteVars
<1>2. /\ r.pc = "dispatch" /\ r.todo = poll[p].todo /\ r.map = poll[p].map
      /\ r.id = SignalId(s, poll[p].map[s])
  BY DEF PollShape, PollRecords, DispatchRecord
<1>3. r.id.symbol = Head(r.todo) /\ r.id.symbol = s /\ r.id.side = cross[s]
  BY <1>2 DEF SignalId, Current
<1>4. cross[s] \in Sides
  BY <1>1 DEF PollShape, MarketShape
<1>5. Turn(p, r)
  BY DispatchTurn
<1> HIDE DEF r, s
<1>6. Orderly(r)
  BY <1>1, <1>2, <1>3, <1>4 DEF StackInv, Orderly
<1>7. \A t, side : MayOrder(r, t, side) => MayOrder(poll[p], t, side)
  BY <1>1, <1>2 DEF MayOrder, Pending
<1>8. QED
  BY <1>1, <1>5, <1>6, <1>7, CalmStacks

LEMMA DoneStacks ==
  ASSUME PollShape, PollShape', StackInv, NEW p \in Pollers,
         Duplicate(p) \/ NotSubmitted(p) \/ Submitted(p)
  PROVE  StackInv'
<1> DEFINE r == NextSymbolRecord(p)
           id == poll[p].id
<1>1. /\ poll[p].pc = "dispatch" /\ Turn(p, r) /\ r.pc = "symbols"
      /\ UNCHANGED <<closeOnly, blind, overlap>>
  BY EndTurn DEF Duplicate, NotSubmitted, Submitted, noteVars
<1>2. /\ poll[p].todo # <<>> /\ id \in Ids
      /\ id.symbol = Head(poll[p].todo) /\ id.side \in Sides
      /\ ~SameDirection(poll[p].map[id.symbol], id.side)
  BY <1>1 DEF PollShape, PollerShape, StackInv, Orderly
<1>3. r.todo = Tail(poll[p].todo) /\ r.map = poll[p].map
  BY DEF PollShape, PollRecords, NextSymbolRecord
<1> HIDE DEF r
<1>4. /\ Orderly(r)
      /\ \A s, side : MayOrder(r, s, side) => MayOrder(poll[p], s, side)
      /\ \A side : ~MayOrder(r, Head(poll[p].todo), side)
  BY <1>1, <1>2, <1>3, NextLists
<1>5. CASE UNCHANGED units
  BY <1>1, <1>4, <1>5, CalmStacks
<1>6. CASE Submitted(p)
  <2>1. MayOrder(poll[p], id.symbol, id.side)
    <3>1. 1 \in 1..Len(poll[p].todo) /\ poll[p].todo[1] = Head(poll[p].todo)
      BY <1>2 DEF PollShape, PollRecords
    <3>2. QED
      BY <1>1, <1>2, <3>1 DEF MayOrder, Pending
  <2>2. units' = [units EXCEPT ![id.symbol] = Ordered(units[id.symbol], id.side, id.action)]
    BY <1>6 DEF Submitted
  <2>3. \A s \in Symbols : units[s] \in Int /\ units'[s] \in Int
    BY DEF PollShape, MarketShape
  <2>4. ASSUME NEW s \in Symbols, NEW side \in Sides
        PROVE  \/ /\ Toward(units'[s], side) <= Toward(units[s], side)
                  /\ MayOrder(r, s, side) => MayOrder(poll[p], s, side)
               \/ /\ Toward(units'[s], side) <= Toward(units[s], side) + 1
                  /\ MayOrder(poll[p], s, side) /\ ~MayOrder(r, s, side)
    <3>1. CASE s # id.symbol
      <4>1. units'[s] = units[s]
        BY <2>2, <3>1 DEF PollShape, MarketShape
      <4>2. Toward(units'[s], side) <= Toward(units[s], side)
        BY <2>3, <4>1 DEF Toward
      <4>3. QED
        BY <1>4, <4>2
    <3>2. CASE s = id.symbol
      <4>1. units'[s] = Ordered(units[s], id.side, id.action)
        BY <2>2, <3>2 DEF PollShape, MarketShape
      <4>2. units'[s] = units[s] \/ units'[s] = (IF id.side = "buy" THEN units[s] + 1
                                                 ELSE units[s] - 1)
        BY <2>3, <4>1 DEF Ordered
      <4>3. CASE side = id.side
        <5>1. Toward(units'[s], side) <= Toward(units[s], side) + 1
          BY <2>3, <4>2, <4>3 DEF Toward, Sides
        <5>2. QED
          BY <1>2, <1>4, <2>1, <3>2, <4>3, <5>1
      <4>4. CASE side # id.side
        <5>1. Toward(units'[s], side) <= Toward(units[s], side)
          BY <1>2, <2>3, <4>2, <4>4 DEF Toward, Sides
        <5>2. QED
          BY <1>4, <5>1
      <4>5. QED
        BY <4>3, <4>4
    <3>3. QED
      BY <3>1, <3>2
  <2>5. OneAtATime'
    BY <1>1, RunningAlone
  <2>6. QED
    BY <1>1, <1>4, <2>4, <2>5, TurnKeepsInv
<1>7. QED
  BY <1>5, <1>6 DEF Duplicate, NotSubmitted, marketVars

\* Nothing changes but that positions may close, or the polls all end.
LEMMA AroundStacks ==
  ASSUME PollShape, PollShape', StackInv, UNCHANGED <<blind, overlap>>,
         poll' = poll \/ poll' = [p \in Pollers |-> NoPoll],
         \A s \in Symbols : units'[s] = units[s] \/ units'[s] = 0
  PROVE  StackInv'
<1>1. Orderly(NoPoll) /\ NoPoll.pc = "idle" /\ \A s, side : ~MayOrder(NoPoll, s, side)
  BY DEF Orderly, MayOrder, Pending, NoPoll
<1>2. (\A p \in Pollers : Orderly(poll'[p])) /\ OneAtATime'
  <2>1. CASE poll' = poll
    BY <2>1 DEF StackInv, OneAtATime
  <2>2. CASE poll' = [p \in Pollers |-> NoPoll]
    BY <1>1, <2>2 DEF OneAtATime
  <2>3. QED
    BY <2>1, <2>2
<1>3. \A s, side : Claimers(s, side)' \subseteq Claimers(s, side)
  <2>1. CASE poll' = poll
    BY <2>1 DEF Claimers, MayOrder, Pending
  <2>2. CASE poll' = [p \in Pollers |-> NoPoll]
    <3>1. \A s, side : Claimers(s, side)' = {}
      BY <1>1, <2>2 DEF Claimers, MayOrder, Pending
    <3>2. QED
      BY <3>1
  <2>3. QED
    BY <2>1, <2>2
<1>4. ASSUME NEW s \in Symbols, NEW side \in Sides PROVE Stacks(s, side)
  <2>1. units[s] \in Int
    BY DEF PollShape, MarketShape
  <2>2. Toward(units'[s], side) <= 0 \/ Toward(units'[s], side) <= Toward(units[s], side)
    BY <2>1 DEF Toward
  <2>3. QED
    BY <1>3, <2>2 DEF Stacks
<1>5. QED
  BY <1>2, <1>4, StacksKeepsInv

LEMMA StackInit == Init => StackInv
<1> SUFFICES ASSUME Init PROVE StackInv
  OBVIOUS
<1>1. /\ \A p \in Pollers : poll[p] = NoPoll
      /\ overlap = FALSE /\ \A s \in Symbols : units[s] = 0
  BY DEF Init
<1>2. Orderly(NoPoll) /\ NoPoll.pc = "idle" /\ \A s, side : ~MayOrder(NoPoll, s, side)
  BY DEF Orderly, MayOrder, Pending, NoPoll
<1>3. OneAtATime /\ \A p \in Pollers : Orderly(poll[p])
  BY <1>1, <1>2 DEF OneAtATime
<1>4. ASSUME NEW s \in Symbols, NEW side \in Sides
      PROVE  Toward(units[s], side) + Cardinality(Claimers(s, side)) <= Most
  <2>1. Claimers(s, side) = {}
    BY <1>1, <1>2 DEF Claimers
  <2>2. Cardinality(Claimers(s, side)) = 0
    BY <2>1, FS_EmptySet
  <2>3. QED
    BY <1>1, <2>2 DEF Most, Toward
<1>5. QED
  BY <1>3, <1>4 DEF StackInv

LEMMA StackStep ==
  ASSUME SkipSame, PollShape, PollShape', StackInv, [Next]_vars
  PROVE  StackInv'
<1>1. ASSUME NEW p \in Pollers, PollStep(p) PROVE StackInv'
  <2>1. CASE CheckDuplicate(p)
    BY <2>1, AroundStacks DEF CheckDuplicate, marketVars, noteVars
  <2>2. QED
    BY <1>1, <2>1, BeginStacks, SyncStacks, ScanStacks, DispatchStacks, DoneStacks DEF PollStep
<1>2. ASSUME NEW s \in Symbols, BarCloses(s) PROVE StackInv'
  BY <1>2, AroundStacks DEF BarCloses, noteVars
<1>3. ASSUME NEW s \in Symbols, StopTriggers(s) PROVE StackInv'
  <2>1. UNCHANGED <<poll, blind, overlap>> /\ units' = [units EXCEPT ![s] = 0]
    BY <1>3 DEF StopTriggers, noteVars
  <2>2. \A t \in Symbols : units'[t] = units[t] \/ units'[t] = 0
    BY <2>1 DEF PollShape, MarketShape
  <2>3. QED
    BY <2>1, <2>2, AroundStacks
<1>4. CASE Restart
  BY <1>4, AroundStacks DEF Restart, marketVars, noteVars
<1>5. CASE UNCHANGED vars
  BY <1>5, AroundStacks DEF vars, marketVars, noteVars
<1>6. QED
  BY <1>1, <1>2, <1>3, <1>4, <1>5 DEF Next

(* For any symbols, bars and pollers, with same-direction signals skipped   *)
(* (the default): however stale the map of directions is by the time it is  *)
(* used, a symbol's position and the orders of one side still to come stay  *)
(* within one unit for each poll that may be running.                       *)
THEOREM PositionsDoNotPileUp ==
  ASSUME SkipSame
  PROVE  Spec => []NoPyramiding
<1>1. PollShape /\ StackInv => NoPyramiding
  <2> SUFFICES ASSUME PollShape, StackInv, ~blind, NEW s \in Symbols
               PROVE  units[s] \in -Most..Most
    BY DEF NoPyramiding, Most
  <2>1. /\ Toward(units[s], "buy") + Cardinality(Claimers(s, "buy")) <= Most
        /\ Toward(units[s], "sell") + Cardinality(Claimers(s, "sell")) <= Most
    BY DEF StackInv, Sides
  <2>2. /\ Cardinality(Claimers(s, "buy")) \in Nat /\ Cardinality(Claimers(s, "sell")) \in Nat
        /\ Most \in Nat
    BY FewClaim DEF StackInv
  <2>3. units[s] \in Int
    BY DEF PollShape, MarketShape
  <2>4. QED
    BY <2>1, <2>2, <2>3 DEF Toward
<1>2. Init => PollShape /\ StackInv
  BY ShapeInit, StackInit
<1>3. PollShape /\ StackInv /\ [Next]_vars => (PollShape /\ StackInv)'
  BY ShapeStep, StackStep
<1>4. QED
  BY <1>1, <1>2, <1>3, PTL DEF Spec

-----------------------------------------------------------------------------
(* Which symbols are polled. *)

\* How many are before each, in an order R on S.
Ranks(S, R) == [i \in S |-> Cardinality({j \in S : <<j, i>> \in R})]

LEMMA RanksAndPlaces ==
  ASSUME NEW S, IsFiniteSet(S), NEW R,
         \A i, j \in S : i # j => <<i, j>> \in R \/ <<j, i>> \in R,
         \A i \in S : <<i, i>> \notin R,
         \A i, j, k \in S : <<i, j>> \in R /\ <<j, k>> \in R => <<i, k>> \in R,
         NEW rank, rank = Ranks(S, R)
  PROVE  /\ \A i \in S : rank[i] \in 0..(Cardinality(S) - 1)
         /\ \A i, j \in S : <<i, j>> \in R => rank[i] < rank[j]
         /\ \A i, j \in S : rank[i] = rank[j] => i = j
         /\ \A k \in 0..(Cardinality(S) - 1) : \E i \in S : rank[i] = k
<1> DEFINE Below(i) == {j \in S : <<j, i>> \in R}
           n == Cardinality(S)
           T == 0..(n - 1)
<1>1. n \in Nat /\ \A i \in S : IsFiniteSet(Below(i)) /\ rank[i] = Cardinality(Below(i))
  BY FS_CardinalityType, FS_Subset DEF Ranks
<1>2. ASSUME NEW i \in S, NEW j \in S, <<i, j>> \in R
      PROVE  rank[i] < rank[j]
  <2>1. Below(i) \in SUBSET Below(j) /\ i \in Below(j) /\ i \notin Below(i)
    BY <1>2
  <2> DEFINE b == Below(i)
             c == Below(j)
  <2>2. IsFiniteSet(b) /\ IsFiniteSet(c) /\ rank[i] = Cardinality(b) /\ rank[j] = Cardinality(c)
    BY <1>1
  <2>3. b \in SUBSET c /\ b # c
    BY <2>1
  <2> HIDE DEF b, c
  <2>4. Cardinality(b) <= Cardinality(c) /\ Cardinality(b) # Cardinality(c)
    BY <2>2, <2>3, FS_Subset
  <2>5. Cardinality(b) \in Nat /\ Cardinality(c) \in Nat
    BY <2>2, FS_CardinalityType
  <2>6. QED
    BY <2>2, <2>4, <2>5
<1>3. ASSUME NEW i \in S
      PROVE  rank[i] \in T
  <2> DEFINE b == Below(i)
  <2>1. b \in SUBSET S /\ b # S /\ rank[i] = Cardinality(b) /\ IsFiniteSet(b)
    BY <1>1
  <2> HIDE DEF b
  <2>2. Cardinality(b) <= n /\ Cardinality(b) # n /\ Cardinality(b) \in Nat
    BY <2>1, FS_Subset, FS_CardinalityType
  <2> HIDE DEF n
  <2>3. QED
    BY <1>1, <2>1, <2>2
<1>4. ASSUME NEW i \in S, NEW j \in S, rank[i] = rank[j]
      PROVE  i = j
  <2>1. rank[i] \in Int
    BY <1>3
  <2>2. ~(rank[i] < rank[j]) /\ ~(rank[j] < rank[i])
    BY <1>4, <2>1
  <2>3. <<i, j>> \notin R /\ <<j, i>> \notin R
    BY <1>2, <2>2
  <2>4. QED
    BY <2>3
<1>5. rank \in Injection(S, T)
  <2> HIDE DEF T
  <2>1. rank \in [S -> T]
    <3>1. rank = [i \in S |-> rank[i]]
      BY DEF Ranks
    <3>2. QED
      BY <1>3, <3>1
  <2>2. QED
    BY <1>4, <2>1 DEF Injection, IsInjective
<1>6. IsFiniteSet(T) /\ Cardinality(T) = n
  <2> HIDE DEF n
  <2>1. 0 \in Int /\ n - 1 \in Int
    BY <1>1
  <2>2. IsFiniteSet(0..(n - 1)) /\ Cardinality(0..(n - 1)) = IF 0 > n - 1 THEN 0 ELSE (n - 1) - 0 + 1
    BY <2>1, FS_Interval
  <2>3. (IF 0 > n - 1 THEN 0 ELSE (n - 1) - 0 + 1) = n
    BY <1>1
  <2>4. QED
    BY <2>2, <2>3
<1>7. rank \in Surjection(S, T)
  <2> HIDE DEF T
  <2> QED
    BY <1>5, <1>6, FS_Injection
<1>8. \A k \in T : \E i \in S : rank[i] = k
  <2> HIDE DEF T
  <2> QED
    BY <1>7 DEF Surjection
<1>9. QED
  BY <1>2, <1>3, <1>4, <1>8

\* What the screener reads of a ticker is whole numbers.
Numbers(t) == {t.change, t.volume, t.below, t.spread} \subseteq Int

LEMMA ScoreIsInt ==
  ASSUME NEW t, Numbers(t), t.volume >= MinVolume
  PROVE  Score(t) \in Int
<1> DEFINE q == (120 * Low(t.volume, 5 * MinVolume)) \div MinVolume
<1>1. q \in Int
  BY ScreeningAssumption DEF Numbers, Low
<1>2. Bonus(t) \in Int
  BY DEF Bonus
<1> HIDE DEF q
<1>3. Score(t) = High(0, 36 * Low(t.change, 25) + q + 30 * High(0, 10 - Low(t.below, 10))
                         + Bonus(t) - Low(t.spread, 200))
  BY DEF Score, q
<1>4. QED
  BY <1>1, <1>2, <1>3 DEF High, Low, Numbers

LEMMA BonusIs ==
  ASSUME NEW t
  PROVE  Bonus(t) = IF t.spread >= 150 THEN 0
                    ELSE IF t.change >= 5 /\ t.below <= 2 THEN 200
                    ELSE IF t.change >= 3 /\ t.below <= 8 THEN 80 ELSE 0
<1>1. CASE t.spread >= 150
  BY <1>1 DEF Bonus, Category
<1>2. CASE ~(t.spread >= 150) /\ t.change >= 5 /\ t.below <= 2
  <2>1. Category(t) = "breakout"
    BY <1>2, Zenon DEF Category
  <2>2. QED
    BY <1>2, <2>1 DEF Bonus
<1>3. CASE ~(t.spread >= 150) /\ ~(t.change >= 5 /\ t.below <= 2) /\ t.change >= 3 /\ t.below <= 8
  <2>1. Category(t) = "pullback_watch"
    BY <1>3, Zenon DEF Category
  <2>2. QED
    BY <1>3, <2>1 DEF Bonus
<1>4. CASE /\ ~(t.spread >= 150) /\ ~(t.change >= 5 /\ t.below <= 2)
           /\ ~(t.change >= 3 /\ t.below <= 8)
  BY <1>4 DEF Bonus, Category
<1>5. QED
  BY <1>1, <1>2, <1>3, <1>4

\* A ticker that is no worse ranks above.
LEMMA BetterRanksAbove ==
  ASSUME NEW t, NEW u, Numbers(t), Numbers(u), t.volume >= MinVolume, u.volume >= MinVolume,
         NoWorse(t, u)
  PROVE  RanksAbove(t, u)
<1>0. /\ MinVolume \in Nat \ {0}
      /\ t.change \in Int /\ u.change \in Int /\ u.change <= t.change
      /\ t.volume \in Nat /\ u.volume \in Nat /\ u.volume <= t.volume
      /\ t.below \in Int /\ u.below \in Int /\ t.below <= u.below
      /\ t.spread \in Int /\ u.spread \in Int /\ t.spread <= u.spread
  BY ScreeningAssumption DEF Numbers, NoWorse
<1> DEFINE q(x) == (120 * Low(x.volume, 5 * MinVolume)) \div MinVolume
           a(x) == 36 * Low(x.change, 25)
           p(x) == 30 * High(0, 10 - Low(x.below, 10))
           s(x) == Low(x.spread, 200)
<1>1. q(t) \in Int /\ q(u) \in Int /\ q(u) <= q(t)
  <2> DEFINE n == 120 * Low(u.volume, 5 * MinVolume)
             m == 120 * Low(t.volume, 5 * MinVolume)
  <2>1. n \in Nat /\ m \in Nat /\ n <= m
    BY <1>0 DEF Low
  <2> HIDE DEF n, m
  <2>2. n \div MinVolume <= m \div MinVolume
    <3>1. MinVolume \in Nat \ {0} /\ MinVolume <= MinVolume
      BY <1>0
    <3>2. QED
      BY <2>1, <3>1, DivisionMonotone
  <2>3. n \div MinVolume \in Int /\ m \div MinVolume \in Int
    BY <1>0, <2>1
  <2>4. QED
    BY <2>2, <2>3 DEF n, m
<1>2. a(t) \in Int /\ a(u) \in Int /\ a(u) <= a(t)
  BY <1>0 DEF Low
<1>3. p(t) \in Int /\ p(u) \in Int /\ p(u) <= p(t)
  BY <1>0 DEF Low, High
<1>4. s(t) \in Int /\ s(u) \in Int /\ s(t) <= s(u)
  BY <1>0 DEF Low
<1>5. Bonus(t) \in Int /\ Bonus(u) \in Int /\ Bonus(u) <= Bonus(t)
  <2> HIDE DEF q, a, p, s
  <2> QED
    BY <1>0, BonusIs
<1>6. /\ Score(t) = High(0, a(t) + q(t) + p(t) + Bonus(t) - s(t))
      /\ Score(u) = High(0, a(u) + q(u) + p(u) + Bonus(u) - s(u))
  BY DEF Score
<1> HIDE DEF a, q, p, s
<1>7. Score(t) \in Int /\ Score(u) \in Int /\ Score(u) <= Score(t)
  <2> DEFINE x == a(t) + q(t) + p(t) + Bonus(t) - s(t)
             y == a(u) + q(u) + p(u) + Bonus(u) - s(u)
  <2>0. \A a1, a2, q1, q2, p1, p2, b1, b2, s1, s2 \in Int :
          a2 <= a1 /\ q2 <= q1 /\ p2 <= p1 /\ b2 <= b1 /\ s1 <= s2 =>
            a2 + q2 + p2 + b2 - s2 <= a1 + q1 + p1 + b1 - s1
    OBVIOUS
  <2>1. x \in Int /\ y \in Int /\ y <= x
    <3>1. x \in Int /\ y \in Int
      BY <1>1, <1>2, <1>3, <1>4, <1>5
    <3>2. y <= x
      BY <2>0, <1>1, <1>2, <1>3, <1>4, <1>5
    <3>3. QED
      BY <3>1, <3>2
  <2>2. Score(t) = High(0, x) /\ Score(u) = High(0, y)
    BY <1>6
  <2> HIDE DEF x, y
  <2>3. QED
    BY <2>1, <2>2 DEF High
<1>8. QED
  BY <1>7 DEF RanksAbove, NoWorse, Numbers

\* The order of the sort, on the places of an answer.
Places(list) == {x \in Found(list) \X Found(list) : SortsBefore(list, x[1], x[2])}

LEMMA SortIsTotal ==
  ASSUME NEW list \in TickerLists
  PROVE  /\ IsFiniteSet(Found(list))
         /\ \A i, j \in Found(list) : i # j => <<i, j>> \in Places(list) \/ <<j, i>> \in Places(list)
         /\ \A i \in Found(list) : <<i, i>> \notin Places(list)
         /\ \A i, j, k \in Found(list) :
              <<i, j>> \in Places(list) /\ <<j, k>> \in Places(list) => <<i, k>> \in Places(list)
<1>1. DOMAIN list = 1..Len(list) /\ Len(list) \in Nat
  BY ScreeningAssumption
<1>2. Found(list) \subseteq 1..Len(list) /\ Found(list) \subseteq Int
  BY <1>1 DEF Found
<1>3. IsFiniteSet(Found(list))
  <2>1. IsFiniteSet(1..Len(list))
    BY <1>1, FS_Interval
  <2>2. QED
    BY <1>2, <2>1, FS_Subset
<1>4. ASSUME NEW i \in Found(list)
      PROVE  Score(list[i]) \in Int /\ list[i].change \in Int /\ list[i].volume \in Int
  <2>1. list[i] \in Range(list) /\ Eligible(list[i])
    BY DEF Found, Range
  <2>2. Numbers(list[i])
    BY <2>1, ScreeningAssumption DEF Numbers
  <2>3. QED
    BY <2>1, <2>2, ScoreIsInt DEF Eligible, Numbers
<1>5. \A i \in Found(list) : ~SortsBefore(list, i, i)
  BY <1>2, <1>4 DEF SortsBefore, RanksAbove
<1>6. \A i, j \in Found(list) : i # j => SortsBefore(list, i, j) \/ SortsBefore(list, j, i)
  BY <1>2, <1>4 DEF SortsBefore, RanksAbove
<1>7. ASSUME NEW i \in Found(list), NEW j \in Found(list), NEW k \in Found(list),
             SortsBefore(list, i, j), SortsBefore(list, j, k)
      PROVE  SortsBefore(list, i, k)
  <2>1. /\ i \in Int /\ j \in Int /\ k \in Int
        /\ Score(list[i]) \in Int /\ Score(list[j]) \in Int /\ Score(list[k]) \in Int
        /\ list[i].change \in Int /\ list[j].change \in Int /\ list[k].change \in Int
        /\ list[i].volume \in Int /\ list[j].volume \in Int /\ list[k].volume \in Int
    BY <1>2, <1>4
  <2>2. SortsBefore(list, i, j) /\ SortsBefore(list, j, k)
    BY <1>7
  <2> HIDE <1>7
  <2>3. QED
    BY <2>1, <2>2, SMTT(20) DEF SortsBefore, RanksAbove
<1>8. QED
  BY <1>3, <1>5, <1>6, <1>7 DEF Places

Top(list) ==
  IF TopN <= 0 THEN Cardinality(Found(list)) ELSE Low(TopN, Cardinality(Found(list)))

\* The places of the answer and the ranks are matched one to one.
LEMMA RanksMatch ==
  ASSUME NEW list \in TickerLists
  PROVE  LET n == Cardinality(Found(list)) IN
         /\ n \in Nat /\ Top(list) \in Nat /\ Top(list) <= n
         /\ \A i \in Found(list) : Rank(list, i) \in 0..(n - 1)
         /\ \A i, j \in Found(list) : SortsBefore(list, i, j) => Rank(list, i) < Rank(list, j)
         /\ \A i, j \in Found(list) : Rank(list, i) = Rank(list, j) => i = j
         /\ \A k \in 0..(n - 1) : \E i \in Found(list) : Rank(list, i) = k
<1> DEFINE S == Found(list)
           R == Places(list)
           n == Cardinality(S)
           rank == Ranks(S, R)
<1>1. /\ IsFiniteSet(S)
      /\ \A i, j \in S : i # j => <<i, j>> \in R \/ <<j, i>> \in R
      /\ \A i \in S : <<i, i>> \notin R
      /\ \A i, j, k \in S : <<i, j>> \in R /\ <<j, k>> \in R => <<i, k>> \in R
  BY SortIsTotal
<1>2. \A i, j \in S : <<i, j>> \in R <=> SortsBefore(list, i, j)
  BY DEF Places
<1>3. \A i \in S : rank[i] = Rank(list, i)
  <2> SUFFICES ASSUME NEW i \in S PROVE rank[i] = Rank(list, i)
    OBVIOUS
  <2>1. {j \in S : <<j, i>> \in R} = {j \in S : SortsBefore(list, j, i)}
    BY <1>2
  <2>2. QED
    BY <2>1 DEF Rank, Ranks
<1>4. /\ \A i \in S : rank[i] \in 0..(n - 1)
      /\ \A i, j \in S : <<i, j>> \in R => rank[i] < rank[j]
      /\ \A i, j \in S : rank[i] = rank[j] => i = j
      /\ \A k \in 0..(n - 1) : \E i \in S : rank[i] = k
  <2> DEFINE f == rank
  <2>1. f = Ranks(S, R)
    OBVIOUS
  <2> HIDE DEF S, R, f
  <2>2. /\ \A i \in S : f[i] \in 0..(Cardinality(S) - 1)
        /\ \A i, j \in S : <<i, j>> \in R => f[i] < f[j]
        /\ \A i, j \in S : f[i] = f[j] => i = j
        /\ \A k \in 0..(Cardinality(S) - 1) : \E i \in S : f[i] = k
    BY <1>1, <2>1, RanksAndPlaces
  <2>3. QED
    BY <2>2 DEF f
<1>5. n \in Nat /\ Top(list) \in Nat /\ Top(list) <= n
  <2>1. n \in Nat
    BY <1>1, FS_CardinalityType
  <2>2. Top(list) = IF TopN <= 0 THEN n ELSE Low(TopN, n)
    BY DEF Top
  <2> HIDE DEF n
  <2>3. QED
    BY <2>1, <2>2, ScreeningAssumption DEF Low
<1> HIDE DEF rank, n
<1>6. /\ \A i \in S : Rank(list, i) \in 0..(n - 1)
      /\ \A i, j \in S : SortsBefore(list, i, j) => Rank(list, i) < Rank(list, j)
      /\ \A i, j \in S : Rank(list, i) = Rank(list, j) => i = j
      /\ \A k \in 0..(n - 1) : \E i \in S : Rank(list, i) = k
  <2> HIDE DEF R, S
  <2>1. \A i, j \in S : SortsBefore(list, i, j) => Rank(list, i) < Rank(list, j)
    BY <1>2, <1>3, <1>4, ZenonT(30)
  <2>2. QED
    BY <1>3, <1>4, <2>1
<1>7. QED
  BY <1>5, <1>6 DEF n

\* The screener's answer: whoever is found and ranks below the top.
LEMMA ScreenIs ==
  ASSUME NEW list \in TickerLists
  PROVE  /\ Screen(list) \in Seq(Range(list)) /\ Len(Screen(list)) = Top(list)
         /\ \A r \in 1..Top(list) : \E i \in Found(list) :
              Rank(list, i) = r - 1 /\ Screen(list)[r] = list[i]
         /\ \A i \in Found(list) : Rank(list, i) < Top(list) =>
              Rank(list, i) + 1 \in 1..Top(list) /\ Screen(list)[Rank(list, i) + 1] = list[i]
<1> DEFINE S == Found(list)
           n == Cardinality(S)
           top == Top(list)
           at(r) == CHOOSE i \in S : Rank(list, i) = r - 1
<1>1. /\ n \in Nat /\ top \in Nat /\ top <= n
      /\ \A i \in S : Rank(list, i) \in 0..(n - 1)
      /\ \A i, j \in S : Rank(list, i) = Rank(list, j) => i = j
      /\ \A k \in 0..(n - 1) : \E i \in S : Rank(list, i) = k
  BY RanksMatch
<1>2. Screen(list) = [r \in 1..top |-> list[at(r)]]
  BY DEF Screen, Top
<1> HIDE DEF n, top
<1>3. ASSUME NEW r \in 1..top
      PROVE  at(r) \in S /\ Rank(list, at(r)) = r - 1 /\ Screen(list)[r] = list[at(r)]
  <2>1. r - 1 \in 0..(n - 1)
    BY <1>1
  <2>2. \E i \in S : Rank(list, i) = r - 1
    BY <1>1, <2>1
  <2>3. at(r) \in S /\ Rank(list, at(r)) = r - 1
    BY <2>2
  <2>4. QED
    BY <1>2, <2>3
<1> HIDE DEF at
<1>4. \A r \in 1..top : list[at(r)] \in Range(list)
  BY <1>3 DEF Found, Range
<1>5. Screen(list) \in Seq(Range(list)) /\ Len(Screen(list)) = top
  <2>1. Screen(list) \in [1..top -> Range(list)]
    BY <1>2, <1>4
  <2>2. Screen(list) \in Seq(Range(list))
    BY <1>1, <2>1, SeqDef
  <2>3. Len(Screen(list)) \in Nat /\ 1..Len(Screen(list)) = 1..top
    BY <2>1, <2>2, LenProperties
  <2>4. QED
    BY <1>1, <2>2, <2>3
<1>6. ASSUME NEW i \in S, Rank(list, i) < top
      PROVE  Rank(list, i) + 1 \in 1..top /\ Screen(list)[Rank(list, i) + 1] = list[i]
  <2> DEFINE r == Rank(list, i) + 1
  <2>1. Rank(list, i) \in Nat /\ r \in 1..top /\ r - 1 = Rank(list, i)
    BY <1>1, <1>6
  <2> HIDE DEF r
  <2>2. at(r) = i
    BY <1>1, <1>3, <2>1
  <2>3. QED
    BY <1>3, <2>1, <2>2 DEF r
<1>7. QED
  BY <1>3, <1>5, <1>6 DEF top

\* The loop over what was screened, as StrategySymbols writes it.
IsCombined(f, screened, n) ==
  f = [r \in 0..n |->
         IF r = 0 THEN BaseSymbols
         ELSE IF screened[r].id \in Range(f[r - 1]) THEN f[r - 1]
         ELSE Append(f[r - 1], screened[r].id)]

LEMMA CombinedExists ==
  ASSUME NEW screened, NEW n \in Nat
  PROVE  \E f : IsCombined(f, screened, n)
<1> DEFINE Good == {k \in Nat : \E f : IsCombined(f, screened, k)}
<1>1. 0 \in Good
  <2> DEFINE f == [r \in 0..0 |-> BaseSymbols]
  <2>1. IsCombined(f, screened, 0)
    BY DEF IsCombined
  <2>2. QED
    BY <2>1
<1>2. ASSUME NEW k \in Nat, k \in Good
      PROVE  k + 1 \in Good
  <2>1. PICK f : IsCombined(f, screened, k)
    BY <1>2
  <2> DEFINE last == IF screened[k + 1].id \in Range(f[k]) THEN f[k]
                     ELSE Append(f[k], screened[k + 1].id)
             g == [r \in 0..(k + 1) |-> IF r = k + 1 THEN last ELSE f[r]]
  <2>2. ASSUME NEW r \in 0..(k + 1)
        PROVE  g[r] = IF r = 0 THEN BaseSymbols
                      ELSE IF screened[r].id \in Range(g[r - 1]) THEN g[r - 1]
                      ELSE Append(g[r - 1], screened[r].id)
    <3>1. CASE r = k + 1
      <4>1. g[r] = last /\ g[r - 1] = f[k] /\ r # 0
        BY <3>1
      <4>2. QED
        BY <3>1, <4>1
    <3>2. CASE r # k + 1
      <4>1. r \in 0..k /\ g[r] = f[r] /\ (r # 0 => g[r - 1] = f[r - 1])
        BY <3>2
      <4>2. f[r] = IF r = 0 THEN BaseSymbols
                   ELSE IF screened[r].id \in Range(f[r - 1]) THEN f[r - 1]
                   ELSE Append(f[r - 1], screened[r].id)
        BY <2>1, <4>1 DEF IsCombined
      <4> HIDE DEF g
      <4>3. QED
        BY <4>1, <4>2
    <3>3. QED
      BY <3>1, <3>2
  <2>3. g = [r \in 0..(k + 1) |-> g[r]]
    OBVIOUS
  <2>4. IsCombined(g, screened, k + 1)
    <3> HIDE DEF g
    <3> QED
      BY <2>2, <2>3 DEF IsCombined
  <2>5. QED
    BY <2>4
<1>3. Nat \subseteq Good
  <2> HIDE DEF Good
  <2> QED
    BY <1>1, <1>2, NatSetInduction
<1>4. QED
  BY <1>3

LEMMA RangeOfAppend ==
  ASSUME NEW S, NEW s \in Seq(S), NEW e \in S
  PROVE  Append(s, e) \in Seq(S) /\ Range(Append(s, e)) = Range(s) \cup {e}
<1>1. /\ Append(s, e) \in Seq(S) /\ Len(Append(s, e)) = Len(s) + 1
      /\ \A i \in 1..Len(s) : Append(s, e)[i] = s[i]
      /\ Append(s, e)[Len(s) + 1] = e
      /\ DOMAIN s = 1..Len(s) /\ Len(s) \in Nat
  OBVIOUS
<1>2. DOMAIN Append(s, e) = 1..(Len(s) + 1)
  BY <1>1
<1>3. 1..(Len(s) + 1) = 1..Len(s) \cup {Len(s) + 1}
  BY <1>1
<1>4. QED
  BY <1>1, <1>2, <1>3 DEF Range

\* What is polled: the base symbols, and what was screened.
LEMMA StrategySymbolsAre ==
  ASSUME NEW list \in TickerLists
  PROVE  Range(StrategySymbols(list))
           = Range(BaseSymbols) \cup {Screen(list)[r].id : r \in 1..Top(list)}
<1> DEFINE screened == Screen(list)
           n == Len(screened)
           f == CHOOSE g : IsCombined(g, screened, n)
           AllIds == Range(BaseSymbols) \cup {screened[r].id : r \in 1..n}
           Upto(k) == Range(BaseSymbols) \cup {screened[r].id : r \in 1..k}
           Good == {k \in Nat : k <= n => f[k] \in Seq(AllIds) /\ Range(f[k]) = Upto(k)}
<1>1. n \in Nat /\ n = Top(list)
  BY ScreenIs
<1>2. StrategySymbols(list) = f[n]
  BY DEF StrategySymbols, IsCombined
<1> HIDE DEF screened, n
<1>3. IsCombined(f, screened, n)
  <2>1. \E g : IsCombined(g, screened, n)
    BY <1>1, CombinedExists
  <2> HIDE DEF IsCombined
  <2>2. QED
    BY <2>1, Zenon
<1> HIDE DEF f
<1>4. 0 \in Good
  <2>1. f[0] = BaseSymbols
    BY <1>1, <1>3 DEF IsCombined
  <2>2. BaseSymbols \in Seq(AllIds)
    <3>1. BaseSymbols \in Seq(Range(BaseSymbols)) /\ Range(BaseSymbols) \subseteq AllIds
      BY ScreeningAssumption
    <3> HIDE DEF AllIds
    <3>2. Len(BaseSymbols) \in Nat /\ BaseSymbols \in [1..Len(BaseSymbols) -> Range(BaseSymbols)]
      BY <3>1, LenProperties
    <3>3. BaseSymbols \in [1..Len(BaseSymbols) -> AllIds]
      BY <3>1, <3>2
    <3>4. QED
      BY <3>2, <3>3, SeqDef
  <2>3. Upto(0) = Range(BaseSymbols)
    OBVIOUS
  <2> HIDE DEF AllIds, Upto
  <2>4. QED
    BY <2>1, <2>2, <2>3
<1>5. ASSUME NEW k \in Nat, k \in Good
      PROVE  k + 1 \in Good
  <2> SUFFICES ASSUME k + 1 <= n
               PROVE  f[k + 1] \in Seq(AllIds) /\ Range(f[k + 1]) = Upto(k + 1)
    OBVIOUS
  <2>1. f[k] \in Seq(AllIds) /\ Range(f[k]) = Upto(k)
    BY <1>1, <1>5
  <2>2. k + 1 \in 0..n /\ k + 1 # 0 /\ (k + 1) - 1 = k /\ k + 1 \in 1..n
    BY <1>1
  <2> DEFINE e == screened[k + 1].id
  <2>3. f[k + 1] = IF e \in Range(f[k]) THEN f[k] ELSE Append(f[k], e)
    BY <1>3, <2>2 DEF IsCombined
  <2>4. e \in AllIds
    BY <2>2
  <2>5. Upto(k + 1) = Upto(k) \cup {e}
    <3>1. 1..(k + 1) = 1..k \cup {k + 1}
      OBVIOUS
    <3>2. QED
      BY <3>1
  <2> HIDE DEF AllIds, Upto, e
  <2>6. CASE e \in Range(f[k])
    BY <2>1, <2>3, <2>5, <2>6
  <2>7. CASE e \notin Range(f[k])
    <3>1. Append(f[k], e) \in Seq(AllIds) /\ Range(Append(f[k], e)) = Range(f[k]) \cup {e}
      BY <2>1, <2>4, RangeOfAppend
    <3>2. QED
      BY <2>1, <2>3, <2>5, <2>7, <3>1
  <2>8. QED
    BY <2>6, <2>7
<1>6. Nat \subseteq Good
  <2> HIDE DEF Good
  <2> QED
    BY <1>4, <1>5, NatSetInduction
<1>7. Range(f[n]) = Upto(n)
  <2>1. n \in Good /\ n <= n
    <3> HIDE DEF Good
    <3> QED
      BY <1>1, <1>6
  <2> HIDE DEF Upto
  <2>2. QED
    BY <2>1
<1>8. QED
  BY <1>1, <1>2, <1>7 DEF screened

LEMMA BetterIsPolled ==
  ASSUME NEW list \in TickerLists, NEW i \in DOMAIN list, NEW j \in DOMAIN list,
         Eligible(list[i]), NoWorse(list[i], list[j]),
         list[j].id \in Range(StrategySymbols(list)), list[j].id \notin Range(BaseSymbols)
  PROVE  list[i].id \in Range(StrategySymbols(list))
<1>1. PICK r \in 1..Top(list) : Screen(list)[r].id = list[j].id
  BY StrategySymbolsAre
<1>2. PICK k \in Found(list) : Rank(list, k) = r - 1 /\ Screen(list)[r] = list[k]
  BY ScreenIs
<1>3. k = j
  BY <1>1, <1>2, ScreeningAssumption DEF Found
<1>4. i \in Found(list) /\ j \in Found(list) /\ Eligible(list[j])
  BY <1>2, <1>3 DEF Found
<1>5. RanksAbove(list[i], list[j])
  <2>1. list[i] \in Range(list) /\ list[j] \in Range(list)
    BY DEF Range
  <2>2. Numbers(list[i]) /\ Numbers(list[j])
    BY <2>1, ScreeningAssumption DEF Numbers
  <2>3. list[i].volume >= MinVolume /\ list[j].volume >= MinVolume
    BY <1>4 DEF Eligible
  <2>4. QED
    BY <2>2, <2>3, BetterRanksAbove
<1>6. Rank(list, i) < Rank(list, j)
  BY <1>4, <1>5, RanksMatch DEF SortsBefore
<1>7. Rank(list, i) \in Nat /\ Rank(list, i) < Top(list)
  <2>1. Rank(list, i) \in Nat /\ Top(list) \in Nat
    BY <1>4, RanksMatch
  <2>2. QED
    BY <1>2, <1>3, <1>6, <2>1
<1>8. Rank(list, i) + 1 \in 1..Top(list) /\ Screen(list)[Rank(list, i) + 1] = list[i]
  BY <1>4, <1>7, ScreenIs
<1>9. QED
  BY <1>8, StrategySymbolsAre

(* A symbol that is no worse than one the screener added is never passed   *)
(* over for it: for any answer of the exchange and any top_n, with the     *)
(* caps, categories and bonuses of the score.                              *)
THEOREM BetterIsAdded == ScreeningSpec => []BetterIsNotPassedOver
<1> DEFINE Inv == \/ tickers = <<>>
                  \/ tickers \in TickerLists /\ polled = StrategySymbols(tickers)
<1>1. ScreeningInit => Inv
  BY DEF ScreeningInit
<1>2. Inv /\ [ScreeningNext]_screeningVars => Inv'
  <2> SUFFICES ASSUME Inv, [ScreeningNext]_screeningVars PROVE Inv'
    OBVIOUS
  <2>1. CASE Resolve
    BY <2>1 DEF Resolve
  <2>2. CASE RoundOver
    BY <2>2 DEF RoundOver
  <2>3. CASE UNCHANGED screeningVars
    BY <2>3 DEF screeningVars
  <2>4. QED
    BY <2>1, <2>2, <2>3 DEF ScreeningNext
<1>3. Inv => BetterIsNotPassedOver
  <2>1. CASE tickers = <<>>
    BY <2>1 DEF BetterIsNotPassedOver
  <2>2. CASE tickers \in TickerLists /\ polled = StrategySymbols(tickers)
    BY <2>2, BetterIsPolled DEF BetterIsNotPassedOver
  <2>3. QED
    BY <2>1, <2>2
<1>4. QED
  BY <1>1, <1>2, <1>3, PTL DEF ScreeningSpec

-----------------------------------------------------------------------------
(* The averages of the indicators.                                         *)

IsFraction(x) == x.n \in Int /\ x.d \in Nat \ {0}

\* A fraction between two integers.
Between(lo, x, hi) == lo * x.d <= x.n /\ x.n <= hi * x.d

\* f is the running average up to the m-th value.
IsAverage(f, values, m, first, seed, old, new) ==
  f = [i \in first..m |-> IF i = first THEN seed ELSE Blend(f[i - 1], values[i], old, new)]

LEMMA AverageExists ==
  ASSUME NEW values, NEW m \in Nat, NEW first \in Nat, NEW seed, NEW old, NEW new
  PROVE  \E f : IsAverage(f, values, m, first, seed, old, new)
<1> DEFINE Good == {k \in Nat : \E f : IsAverage(f, values, k, first, seed, old, new)}
           Step(f, i) == IF i = first THEN seed ELSE Blend(f[i - 1], values[i], old, new)
<1>1. 0 \in Good
  <2> DEFINE f == [i \in first..0 |-> seed]
  <2>1. f = [i \in first..0 |-> Step(f, i)]
    OBVIOUS
  <2>2. QED
    BY <2>1 DEF IsAverage
<1>2. ASSUME NEW k \in Nat, k \in Good
      PROVE  k + 1 \in Good
  <2>1. PICK f : IsAverage(f, values, k, first, seed, old, new)
    BY <1>2
  <2> DEFINE last == Step(f, k + 1)
             g == [i \in first..(k + 1) |-> IF i = k + 1 THEN last ELSE f[i]]
  <2>2. ASSUME NEW i \in first..(k + 1)
        PROVE  g[i] = Step(g, i)
    <3>1. CASE i = k + 1
      <4>1. g[i] = last
        BY <3>1
      <4>2. i # first => g[i - 1] = f[k]
        BY <3>1
      <4> HIDE DEF g
      <4>3. QED
        BY <3>1, <4>1, <4>2
    <3>2. CASE i # k + 1
      <4>1. i \in first..k /\ g[i] = f[i] /\ (i # first => g[i - 1] = f[i - 1])
        BY <3>2
      <4>2. f[i] = Step(f, i)
        BY <2>1, <4>1 DEF IsAverage
      <4> HIDE DEF g
      <4>3. QED
        BY <4>1, <4>2
    <3>3. QED
      BY <3>1, <3>2
  <2>3. g = [i \in first..(k + 1) |-> g[i]]
    OBVIOUS
  <2>4. IsAverage(g, values, k + 1, first, seed, old, new)
    <3> HIDE DEF g
    <3> QED
      BY <2>2, <2>3 DEF IsAverage
  <2>5. QED
    BY <2>4
<1>3. Nat \subseteq Good
  <2> HIDE DEF Good
  <2> QED
    BY <1>1, <1>2, NatSetInduction
<1>4. QED
  BY <1>3

\* Smoothed is the running average over all values.
LEMMA SmoothedIs ==
  ASSUME NEW values, Len(values) \in Nat, NEW first \in Nat, NEW seed, NEW old, NEW new
  PROVE  LET s == Smoothed(values, first, seed, old, new)
         IN  /\ first <= Len(values) => s[first] = seed
             /\ \A i \in (first + 1)..Len(values) : s[i] = Blend(s[i - 1], values[i], old, new)
<1> DEFINE m == Len(values)
           s == CHOOSE f : IsAverage(f, values, m, first, seed, old, new)
<1>1. IsAverage(s, values, m, first, seed, old, new)
  <2>1. \E f : IsAverage(f, values, m, first, seed, old, new)
    BY AverageExists
  <2>2. QED
    BY <2>1
<1>2. Smoothed(values, first, seed, old, new) = s
  BY DEF Smoothed, IsAverage
<1> HIDE DEF s
<1>3. /\ first <= m => s[first] = seed
      /\ \A i \in (first + 1)..m : s[i] = Blend(s[i - 1], values[i], old, new)
  BY <1>1 DEF IsAverage
<1>4. QED
  BY <1>2, <1>3

LEMMA BlendBetween ==
  ASSUME NEW x, IsFraction(x), NEW v \in Int, NEW old \in Nat, NEW new \in Nat \ {0},
         NEW lo \in Int, NEW hi \in Int
  PROVE  /\ IsFraction(Blend(x, v, old, new))
         /\ Between(lo, x, hi) /\ lo <= v /\ v <= hi => Between(lo, Blend(x, v, old, new), hi)
<1> DEFINE n == x.n
           d == x.d
           b == Blend(x, v, old, new)
<1>1. n \in Int /\ d \in Nat \ {0} /\ b.n = new * v * d + old * n /\ b.d = (old + new) * d
  BY DEF IsFraction, Blend
<1>2. IsFraction(b)
  <2>1. new * v * d \in Int /\ old * n \in Int
    BY <1>1
  <2>2. old + new \in Nat \ {0}
    OBVIOUS
  <2>3. (old + new) * d \in Nat \ {0}
    BY <1>1, <2>2
  <2>4. QED
    BY <1>1, <2>1, <2>3 DEF IsFraction
<1>3. ASSUME lo * d <= n, n <= hi * d, lo <= v, v <= hi
      PROVE  lo * ((old + new) * d) <= new * v * d + old * n
             /\ new * v * d + old * n <= hi * ((old + new) * d)
  <2> HIDE DEF n, d
  <2>1. new * d \in Nat /\ d \in Nat /\ n \in Int /\ lo * d \in Int /\ hi * d \in Int
    BY <1>1
  <2>2. lo * (new * d) <= v * (new * d) /\ v * (new * d) <= hi * (new * d)
    BY <1>3, <2>1
  <2>3. old * (lo * d) <= old * n /\ old * n <= old * (hi * d)
    BY <1>3, <2>1
  <2>4. new * v * d = v * (new * d)
    BY <2>1
  <2>5. lo * ((old + new) * d) = lo * (new * d) + old * (lo * d)
    BY <2>1
  <2>6. hi * ((old + new) * d) = hi * (new * d) + old * (hi * d)
    BY <2>1
  <2>7. {lo * (new * d), v * (new * d), hi * (new * d), old * (lo * d), old * n, old * (hi * d)}
          \subseteq Int
    BY <2>1
  <2>8. QED
    BY <2>2, <2>3, <2>4, <2>5, <2>6, <2>7
<1>4. QED
  BY <1>1, <1>2, <1>3 DEF Between

\* A running average stays between the bounds of its seed and values.
LEMMA SmoothedBetween ==
  ASSUME NEW values, Len(values) \in Nat, NEW first \in Nat, NEW seed, IsFraction(seed),
         NEW old \in Nat, NEW new \in Nat \ {0}, NEW lo \in Int, NEW hi \in Int,
         \A i \in (first + 1)..Len(values) : values[i] \in Int
  PROVE  LET s == Smoothed(values, first, seed, old, new)
         IN  /\ \A i \in first..Len(values) : IsFraction(s[i])
             /\ /\ Between(lo, seed, hi)
                /\ \A i \in (first + 1)..Len(values) : lo <= values[i] /\ values[i] <= hi
                => \A i \in first..Len(values) : Between(lo, s[i], hi)
<1> DEFINE s == Smoothed(values, first, seed, old, new)
           m == Len(values)
<1>1. /\ first <= m => s[first] = seed
      /\ \A i \in (first + 1)..m : s[i] = Blend(s[i - 1], values[i], old, new)
  BY SmoothedIs
<1> HIDE DEF s
<1>2. first..m \subseteq {i \in first..m : IsFraction(s[i])}
  <2> DEFINE Good == {i \in first..m : IsFraction(s[i])}
  <2>1. first <= m => first \in Good
    BY <1>1
  <2>2. ASSUME NEW i \in (first + 1)..m, i - 1 \in Good
        PROVE  i \in Good
    <3>1. IsFraction(Blend(s[i - 1], values[i], old, new))
      BY <2>2, BlendBetween
    <3>2. QED
      BY <1>1, <3>1
  <2> HIDE DEF Good
  <2>3. first..m \subseteq Good
    BY <2>1, <2>2, IntervalInduction
  <2>4. QED
    BY <2>3 DEF Good
<1>3. ASSUME Between(lo, seed, hi),
             \A i \in (first + 1)..m : lo <= values[i] /\ values[i] <= hi
      PROVE  first..m \subseteq {i \in first..m : Between(lo, s[i], hi)}
  <2> DEFINE Good == {i \in first..m : Between(lo, s[i], hi)}
  <2>1. first <= m => first \in Good
    BY <1>1, <1>3
  <2>2. ASSUME NEW i \in (first + 1)..m, i - 1 \in Good
        PROVE  i \in Good
    <3>1. IsFraction(s[i - 1])
      BY <1>2
    <3>2. Between(lo, Blend(s[i - 1], values[i], old, new), hi)
      BY <1>3, <2>2, <3>1, BlendBetween
    <3>3. QED
      BY <1>1, <3>2
  <2> HIDE DEF Good
  <2>3. first..m \subseteq Good
    BY <2>1, <2>2, IntervalInduction
  <2>4. QED
    BY <2>3 DEF Good
<1>4. QED
  BY <1>2, <1>3 DEF s

\* The mean of some of the values lies between their bounds.
LEMMA MeanBetween ==
  ASSUME NEW values, NEW i \in Nat, NEW j \in Nat, i <= j,
         NEW lo \in Int, NEW hi \in Int,
         \A k \in i..j : values[k] \in Int
  PROVE  /\ IsFraction(Mean(values, i, j))
         /\ (\A k \in i..j : lo <= values[k] /\ values[k] <= hi)
            => Between(lo, Mean(values, i, j), hi)
<1> DEFINE part == SubSeq(values, i, j)
           n == j - i + 1
           sum == SumFunctionOnSet(part, 1..n)
<1>1. part \in Seq(Int) /\ Len(part) = n /\ n \in Nat \ {0}
      /\ \A k \in 1..n : part[k] = values[i + k - 1]
  BY SubSeqProperties
<1> HIDE DEF part
<1>2. Mean(values, i, j) = [n |-> FoldFunction(+, 0, part), d |-> n]
  BY DEF Mean, FoldSeq, part
<1>3. FoldFunction(+, 0, part) = sum /\ sum \in Int
  BY <1>1, SumOfSequence
<1>4. IsFiniteSet(1..n) /\ Cardinality(1..n) = n
  BY <1>1, FS_Interval
<1>5. ASSUME \A k \in i..j : lo <= values[k] /\ values[k] <= hi
      PROVE  lo * n <= sum /\ sum <= hi * n
  <2>1. \A k \in 1..n : part[k] \in Int /\ lo <= part[k] /\ part[k] <= hi
    BY <1>1, <1>5
  <2>2. n * lo <= sum /\ sum <= n * hi
    <3> HIDE DEF n
    <3> QED
      BY <2>1, <1>4, SumBounded, SumBoundedBelow
  <2>3. QED
    BY <2>2, <1>1
<1> HIDE DEF n, sum
<1>6. /\ Mean(values, i, j).n = sum /\ Mean(values, i, j).d = n
      /\ n \in Nat \ {0} /\ sum \in Int
  <2>1. Mean(values, i, j) = [n |-> sum, d |-> n]
    BY <1>2, <1>3, Zenon
  <2>2. n \in Nat \ {0} /\ sum \in Int
    BY <1>1, <1>3, Zenon
  <2>3. QED
    BY <2>1, <2>2
<1>7. IsFraction(Mean(values, i, j))
  BY <1>6 DEF IsFraction
<1>8. QED
  BY <1>5, <1>6, <1>7 DEF Between

-----------------------------------------------------------------------------
(* The strategy's averages over a history.                                 *)

LEMMA ClosesOf ==
  ASSUME NEW s \in Seq(Candles)
  PROVE  /\ Closes(s) \in Seq(Int) /\ Len(Closes(s)) = Len(s)
         /\ \A i \in 1..Len(s) : Closes(s)[i] = s[i].close
<1>1. \A i \in 1..Len(s) : s[i] \in Candles /\ s[i].close \in Int
  <2>1. \A i \in 1..Len(s) : s[i] \in Candles
    BY ElementOfSeq
  <2>2. QED
    BY <2>1, IndicatorAssumption
<1>2. Closes(s) = [i \in 1..Len(s) |-> s[i].close] /\ Len(s) \in Nat
  BY DEF Closes
<1>3. QED
  BY <1>1, <1>2

\* An average is a fraction between the bounds of the closes.
LEMMA EmaBetween ==
  ASSUME NEW s \in Seq(Candles), NEW p \in Nat \ {0}, NEW lo \in Int, NEW hi \in Int
  PROVE  /\ \A i \in p..Len(s) : IsFraction(Ema(Closes(s), p)[i])
         /\ (\A i \in 1..Len(s) : lo <= s[i].close /\ s[i].close <= hi)
            => \A i \in p..Len(s) : Between(lo, Ema(Closes(s), p)[i], hi)
<1> DEFINE values == Closes(s)
           seed == Mean(values, 1, p)
<1>1. values \in Seq(Int) /\ Len(values) = Len(s) /\ Len(s) \in Nat
      /\ \A i \in 1..Len(s) : values[i] = s[i].close /\ values[i] \in Int
  <2>1. values \in Seq(Int) /\ Len(values) = Len(s) /\ \A i \in 1..Len(s) : values[i] = s[i].close
    BY ClosesOf
  <2> HIDE DEF values
  <2>2. \A i \in 1..Len(s) : values[i] \in Int
    BY <2>1, ElementOfSeq
  <2>3. QED
    BY <2>1, <2>2
<1> HIDE DEF values
<1>2. SUFFICES ASSUME p <= Len(s)
               PROVE  /\ \A i \in p..Len(s) : IsFraction(Ema(Closes(s), p)[i])
                      /\ (\A i \in 1..Len(s) : lo <= s[i].close /\ s[i].close <= hi)
                         => \A i \in p..Len(s) : Between(lo, Ema(Closes(s), p)[i], hi)
  <2>1. ~(p <= Len(s)) => p..Len(s) = {}
    BY <1>1
  <2>2. QED
    BY <2>1
<1>3. /\ IsFraction(seed)
      /\ (\A i \in 1..p : lo <= values[i] /\ values[i] <= hi) => Between(lo, seed, hi)
  <2>1. \A k \in 1..p : values[k] \in Int
    BY <1>1, <1>2
  <2>2. 1 \in Nat /\ p \in Nat /\ 1 <= p
    OBVIOUS
  <2>3. QED
    BY <2>1, <2>2, MeanBetween
<1> HIDE DEF seed
<1>4. LET a == Smoothed(values, p, seed, p - 1, 2)
      IN  /\ \A i \in p..Len(values) : IsFraction(a[i])
          /\ /\ Between(lo, seed, hi)
             /\ \A i \in (p + 1)..Len(values) : lo <= values[i] /\ values[i] <= hi
             => \A i \in p..Len(values) : Between(lo, a[i], hi)
  <2>1. \A i \in (p + 1)..Len(values) : values[i] \in Int
    BY <1>1
  <2>2. p \in Nat /\ p - 1 \in Nat /\ 2 \in Nat \ {0} /\ Len(values) \in Nat
    BY <1>1
  <2>3. QED
    BY <1>3, <2>1, <2>2, SmoothedBetween
<1>5. Ema(values, p) = Smoothed(values, p, seed, p - 1, 2)
  BY DEF Ema, seed
<1>6. \A i \in p..Len(s) : IsFraction(Ema(values, p)[i])
  BY <1>1, <1>4, <1>5
<1>7. ASSUME \A i \in 1..Len(s) : lo <= s[i].close /\ s[i].close <= hi
      PROVE  \A i \in p..Len(s) : Between(lo, Ema(values, p)[i], hi)
  <2>1. \A i \in 1..Len(s) : lo <= values[i] /\ values[i] <= hi
    BY <1>1, <1>7
  <2>2. Between(lo, seed, hi)
    BY <1>1, <1>2, <1>3, <2>1
  <2>3. \A i \in (p + 1)..Len(values) : lo <= values[i] /\ values[i] <= hi
    BY <1>1, <2>1
  <2>4. QED
    BY <1>1, <1>4, <1>5, <2>2, <2>3
<1>8. QED
  BY <1>6, <1>7 DEF values

\* The averages of a prefix are those of the whole.
LEMMA EmaOfPrefix ==
  ASSUME NEW s \in Seq(Candles), NEW p \in Nat \ {0}, NEW k \in p..Len(s)
  PROVE  \A i \in p..k : Ema(Closes(SubSeq(s, 1, k)), p)[i] = Ema(Closes(s), p)[i]
<1> DEFINE t == SubSeq(s, 1, k)
           v == Closes(s)
           u == Closes(t)
           seed == Mean(v, 1, p)
           f == Smoothed(v, p, seed, p - 1, 2)
           g == Smoothed(u, p, seed, p - 1, 2)
<1>1. t \in Seq(Candles) /\ Len(t) = k /\ \A i \in 1..k : t[i] = s[i]
  <2>1. \A i \in 1..k : s[i] \in Candles
    BY ElementOfSeq
  <2>2. QED
    BY <2>1, SubSeqProperties
<1>2. /\ Len(u) = k /\ Len(v) = Len(s) /\ u \in Seq(Int) /\ v \in Seq(Int)
      /\ \A i \in 1..k : u[i] = v[i]
  <2> HIDE DEF t
  <2> QED
    BY <1>1, ClosesOf, SMTT(20)
<1> HIDE DEF t, u, v
<1>3. SubSeq(u, 1, p) = SubSeq(v, 1, p)
  <2>1. \A i \in 1..p : u[i] \in Int /\ v[i] \in Int /\ u[i] = v[i]
    BY <1>2, ElementOfSeq
  <2>2. /\ SubSeq(u, 1, p) \in Seq(Int) /\ SubSeq(v, 1, p) \in Seq(Int)
        /\ Len(SubSeq(u, 1, p)) = p /\ Len(SubSeq(v, 1, p)) = p
        /\ \A i \in 1..p : SubSeq(u, 1, p)[i] = u[i] /\ SubSeq(v, 1, p)[i] = v[i]
    BY <2>1, SubSeqProperties
  <2>3. QED
    BY <2>1, <2>2, SeqEqual
<1>4. Ema(u, p) = g /\ Ema(v, p) = f
  BY <1>3 DEF Ema, Mean
<1>5. /\ f[p] = seed /\ \A i \in (p + 1)..Len(v) : f[i] = Blend(f[i - 1], v[i], p - 1, 2)
      /\ g[p] = seed /\ \A i \in (p + 1)..Len(u) : g[i] = Blend(g[i - 1], u[i], p - 1, 2)
  <2> HIDE DEF seed
  <2>1. Len(u) \in Nat /\ Len(v) \in Nat /\ p \in Nat /\ p <= Len(u) /\ p <= Len(v)
    BY <1>2
  <2>2. f[p] = seed /\ \A i \in (p + 1)..Len(v) : f[i] = Blend(f[i - 1], v[i], p - 1, 2)
    BY <2>1, SmoothedIs
  <2>3. g[p] = seed /\ \A i \in (p + 1)..Len(u) : g[i] = Blend(g[i - 1], u[i], p - 1, 2)
    BY <2>1, SmoothedIs
  <2>4. QED
    BY <2>2, <2>3
<1> HIDE DEF f, g
<1>6. p..k \subseteq {i \in p..k : g[i] = f[i]}
  <2> DEFINE Good == {i \in p..k : g[i] = f[i]}
  <2>1. p \in Good
    BY <1>5
  <2>2. ASSUME NEW i \in (p + 1)..k, i - 1 \in Good
        PROVE  i \in Good
    <3>1. g[i] = Blend(g[i - 1], u[i], p - 1, 2) /\ f[i] = Blend(f[i - 1], v[i], p - 1, 2)
      BY <1>2, <1>5, SMTT(20)
    <3>2. QED
      BY <2>2, <3>1, <1>2, SMTT(20)
  <2> HIDE DEF Good
  <2>3. p \in Nat /\ k \in Nat
    BY <1>2
  <2>4. p..k \subseteq Good
    BY <2>1, <2>2, <2>3, IntervalInduction
  <2>5. QED
    BY <2>4 DEF Good
<1>7. QED
  BY <1>4, <1>6 DEF t, u, v

-----------------------------------------------------------------------------
(* Crossings.                                                              *)

TypedHistory == bars \in Seq(Candles) /\ config \in Configs

\* What a side says of the averages.
LEMMA SidesAre ==
  ASSUME NEW s \in Seq(Candles)
  PROVE  LET n == Len(s)
             fast == Ema(Closes(s), config.fast)
             slow == Ema(Closes(s), config.slow)
             side == EmaAtrSignal(s).side
         IN  /\ side \in {"none", "buy", "sell"}
             /\ side = "buy" => CrossedUp(fast, slow, n)
             /\ side = "sell" => CrossedDown(fast, slow, n)
BY DEF EmaAtrSignal, NoSignal

LEMMA LargestIs ==
  ASSUME NEW x \in Int, NEW y \in Int
  PROVE  Largest(x, y) \in {x, y} /\ x <= Largest(x, y) /\ y <= Largest(x, y)
BY DEF Largest

LEMMA ConfigIs ==
  ASSUME TypedHistory
  PROVE  /\ config.fast \in Nat \ {0} /\ config.slow \in Nat \ {0} /\ config.atr \in Nat \ {0}
         /\ config.stopMult \in Nat /\ config.tpMult \in Nat
         /\ FirstBar \in Nat /\ config.fast < FirstBar /\ config.slow < FirstBar
         /\ config.atr < FirstBar
<1>1. /\ config.fast \in Nat \ {0} /\ config.slow \in Nat \ {0} /\ config.atr \in Nat \ {0}
      /\ config.stopMult \in Nat /\ config.tpMult \in Nat
  BY IndicatorAssumption DEF TypedHistory, Positive
<1>2. QED
  BY <1>1 DEF FirstBar, Largest

\* The averages of the history are the ones its prefixes have.
LEMMA PrefixAverages ==
  ASSUME TypedHistory, NEW k \in FirstBar..Len(bars)
  PROVE  LET s == SubSeq(bars, 1, k)
             fast == Ema(Closes(s), config.fast)
             slow == Ema(Closes(s), config.slow)
         IN  /\ s \in Seq(Candles) /\ Len(s) = k
             /\ \A i \in 1..k : s[i] = bars[i]
             /\ fast[k] = FastAt(k) /\ fast[k - 1] = FastAt(k - 1)
             /\ slow[k] = SlowAt(k) /\ slow[k - 1] = SlowAt(k - 1)
             /\ IsFraction(FastAt(k)) /\ IsFraction(FastAt(k - 1))
             /\ IsFraction(SlowAt(k)) /\ IsFraction(SlowAt(k - 1))
<1> DEFINE s == SubSeq(bars, 1, k)
<1>1. /\ bars \in Seq(Candles) /\ k \in 1..Len(bars) /\ Len(bars) \in Nat
      /\ config.fast \in Nat \ {0} /\ config.slow \in Nat \ {0}
      /\ {k, k - 1} \subseteq config.fast..k /\ {k, k - 1} \subseteq config.slow..k
  BY ConfigIs DEF TypedHistory
<1>2. s \in Seq(Candles) /\ Len(s) = k /\ \A i \in 1..k : s[i] = bars[i]
  <2>1. \A i \in 1..k : bars[i] \in Candles
    BY <1>1, ElementOfSeq
  <2>2. QED
    BY <1>1, <2>1, SubSeqProperties
<1>3. ASSUME NEW p \in {config.fast, config.slow}
      PROVE  \A i \in {k, k - 1} : /\ Ema(Closes(s), p)[i] = Ema(Closes(bars), p)[i]
                                   /\ IsFraction(Ema(Closes(bars), p)[i])
  <2>1. p \in Nat \ {0} /\ k \in p..Len(bars) /\ {k, k - 1} \subseteq p..k
        /\ {k, k - 1} \subseteq p..Len(bars)
    BY <1>1
  <2>2. \A i \in p..k : Ema(Closes(s), p)[i] = Ema(Closes(bars), p)[i]
    BY <1>1, <2>1, EmaOfPrefix
  <2>3. \A i \in p..Len(bars) : IsFraction(Ema(Closes(bars), p)[i])
    <3>1. 0 \in Int
      OBVIOUS
    <3>2. QED
      BY <1>1, <2>1, <3>1, EmaBetween
  <2>4. QED
    BY <2>1, <2>2, <2>3
<1> HIDE DEF s
<1>4. QED
  BY <1>2, <1>3 DEF s, FastAt, SlowAt

\* No side is signalled on two bars in a row.
LEMMA SidesAlternate ==
  ASSUME TypedHistory, Len(bars) > FirstBar
  PROVE  SideAt(Len(bars)) # "none" => SideAt(Len(bars)) # SideAt(Len(bars) - 1)
<1> DEFINE n == Len(bars)
           s == SubSeq(bars, 1, n)
           t == SubSeq(bars, 1, n - 1)
           fs == Ema(Closes(s), config.fast)
           ss == Ema(Closes(s), config.slow)
           ft == Ema(Closes(t), config.fast)
           st == Ema(Closes(t), config.slow)
<1>1. n \in FirstBar..Len(bars) /\ n - 1 \in FirstBar..Len(bars) /\ n \in Nat
  BY ConfigIs DEF TypedHistory
<1>2. /\ s \in Seq(Candles) /\ Len(s) = n
      /\ fs[n - 1] = FastAt(n - 1) /\ ss[n - 1] = SlowAt(n - 1)
      /\ IsFraction(FastAt(n - 1)) /\ IsFraction(SlowAt(n - 1))
  <2> HIDE DEF n
  <2> QED
    BY <1>1, PrefixAverages
<1>3. /\ t \in Seq(Candles) /\ Len(t) = n - 1
      /\ ft[n - 1] = FastAt(n - 1) /\ st[n - 1] = SlowAt(n - 1)
  <2> HIDE DEF n
  <2> QED
    BY <1>1, PrefixAverages
<1>4. /\ SideAt(n) \in {"none", "buy", "sell"}
      /\ SideAt(n) = "buy" => CrossedUp(fs, ss, n)
      /\ SideAt(n) = "sell" => CrossedDown(fs, ss, n)
  <2> HIDE DEF s, n
  <2> QED
    BY <1>2, SidesAre DEF SideAt, s
<1>5. /\ SideAt(n - 1) = "buy" => CrossedUp(ft, st, n - 1)
      /\ SideAt(n - 1) = "sell" => CrossedDown(ft, st, n - 1)
  <2> HIDE DEF t, n
  <2> QED
    BY <1>3, SidesAre DEF SideAt, t
<1> HIDE DEF s, t, fs, ss, ft, st, n
<1>6. CASE SideAt(n) = "buy" /\ SideAt(n - 1) = "buy"
  BY <1>1, <1>2, <1>3, <1>4, <1>5, <1>6 DEF CrossedUp, Less, AtMostFrac, IsFraction
<1>7. CASE SideAt(n) = "sell" /\ SideAt(n - 1) = "sell"
  BY <1>1, <1>2, <1>3, <1>4, <1>5, <1>7, SMTT(20) DEF CrossedDown, Less, AtMostFrac, IsFraction
<1>8. QED
  BY <1>4, <1>6, <1>7 DEF n

\* The average range lies between the bounds of the ranges.
LEMMA AtrBetween ==
  ASSUME NEW s \in Seq(Candles), NEW p \in Nat \ {0}, NEW lo \in Int, NEW hi \in Int,
         p + 1 <= Len(s),
         \A i \in 2..Len(s) : TrueRange(s, i) \in Int
                              /\ lo <= TrueRange(s, i) /\ TrueRange(s, i) <= hi
  PROVE  LET range == Atr(s, p)[Len(s)] IN IsFraction(range) /\ Between(lo, range, hi)
<1> DEFINE values == TrueRanges(s)
           seed == Mean(values, 2, p + 1)
<1>1. /\ Len(values) = Len(s) /\ Len(s) \in Nat
      /\ \A i \in 2..Len(s) : values[i] \in Int /\ lo <= values[i] /\ values[i] <= hi
  <2>1. values = [i \in 1..Len(s) |-> IF i = 1 THEN 0 ELSE TrueRange(s, i)] /\ Len(s) \in Nat
    BY DEF TrueRanges
  <2> HIDE DEF values
  <2>2. Len(values) = Len(s)
    BY <2>1
  <2>3. QED
    BY <2>1, <2>2
<1> HIDE DEF values
<1>2. IsFraction(seed) /\ Between(lo, seed, hi)
  <2>1. \A k \in 2..(p + 1) : values[k] \in Int /\ lo <= values[k] /\ values[k] <= hi
    BY <1>1
  <2>2. 2 \in Nat /\ p + 1 \in Nat /\ 2 <= p + 1
    OBVIOUS
  <2>3. QED
    BY <2>1, <2>2, MeanBetween
<1> HIDE DEF seed
<1>3. LET a == Smoothed(values, p + 1, seed, p - 1, 1)
      IN  \A i \in (p + 1)..Len(values) : IsFraction(a[i]) /\ Between(lo, a[i], hi)
  <2>1. \A i \in ((p + 1) + 1)..Len(values) :
           values[i] \in Int /\ lo <= values[i] /\ values[i] <= hi
    BY <1>1
  <2>2. p + 1 \in Nat /\ p - 1 \in Nat /\ 1 \in Nat \ {0} /\ Len(values) \in Nat
    BY <1>1
  <2>3. QED
    BY <1>2, <2>1, <2>2, SmoothedBetween
<1>4. Atr(s, p) = Smoothed(values, p + 1, seed, p - 1, 1)
  BY DEF Atr, values, seed
<1>5. QED
  BY <1>1, <1>3, <1>4

LEMMA RangesAre ==
  ASSUME NEW s \in Seq(Candles), NEW i \in 2..Len(s)
  PROVE  TrueRange(s, i) \in Nat
<1>1. i \in 1..Len(s) /\ i - 1 \in 1..Len(s)
  OBVIOUS
<1>2. s[i] \in Candles /\ s[i - 1] \in Candles
  BY <1>1, ElementOfSeq
<1>3. s[i].high \in Int /\ s[i].low \in Int /\ s[i - 1].close \in Int /\ s[i].low <= s[i].high
  <2>1. \A c \in Candles : /\ c.low \in Int /\ c.close \in Int /\ c.high \in Int
                           /\ c.low <= c.close /\ c.close <= c.high
    BY IndicatorAssumption
  <2>2. QED
    BY <1>2, <2>1
<1>4. s[i].high - s[i].low \in Nat
  <2>1. \A x, y \in Int : x <= y => y - x \in Nat
    OBVIOUS
  <2>2. QED
    BY <1>3, <2>1
<1>5. /\ \A x, y \in Int : Gap(x, y) \in Nat
      /\ \A x, y \in Nat : Largest(x, y) \in Nat
  BY DEF Gap, Largest
<1>6. QED
  BY <1>3, <1>4, <1>5 DEF TrueRange

\* A price above a multiple of every range is above that multiple of the average.
LEMMA FarAbove ==
  ASSUME NEW x, IsFraction(x), NEW hi \in Nat, NEW mult \in Nat, NEW k \in Nat, k <= mult,
         NEW entry \in Int, mult * hi < entry, Between(1, x, hi)
  PROVE  x.n > 0 /\ Plus(entry, x, k).n > 0 /\ Plus(entry, x, -k).n > 0
<1> DEFINE n == x.n
           d == x.d
<1>1. n \in Int /\ d \in Nat \ {0} /\ d <= n /\ n <= hi * d
  BY DEF IsFraction, Between
<1>2. Plus(entry, x, k).n = entry * d + k * n /\ Plus(entry, x, -k).n = entry * d - k * n
  <2>1. Plus(entry, x, -k).n = entry * d + (-k) * n
    BY DEF Plus
  <2> HIDE DEF n, d
  <2>2. (-k) * n = -(k * n) /\ k * n \in Int /\ entry * d \in Int
    BY <1>1
  <2>3. Plus(entry, x, k).n = entry * d + k * n
    BY DEF Plus, n, d
  <2>4. QED
    BY <2>1, <2>2, <2>3
<1> HIDE DEF n, d
<1>3. k * n <= mult * n
  BY <1>1
<1>4. mult * n <= mult * (hi * d)
  BY <1>1
<1>5. mult * (hi * d) = (mult * hi) * d
  BY <1>1
<1>6. (mult * hi) * d < entry * d
  <2>1. mult * hi \in Int
    OBVIOUS
  <2>2. QED
    BY <1>1, <2>1
<1>7. {k * n, mult * n, mult * (hi * d), entry * d} \subseteq Int /\ k * n >= 0
  BY <1>1
<1>8. QED
  BY <1>1, <1>2, <1>3, <1>4, <1>5, <1>6, <1>7 DEF n

Up(k)   == AtMostFrac(FastAt(k - 1), SlowAt(k - 1)) /\ Less(SlowAt(k), FastAt(k))
Down(k) == AtMostFrac(SlowAt(k - 1), FastAt(k - 1)) /\ Less(FastAt(k), SlowAt(k))

\* Every bar has a range, and prices are far above the ranges.
Calm == \A i, j \in 2..Len(bars) :
          /\ TrueRange(bars, i) # 0
          /\ Largest(config.stopMult, config.tpMult) * TrueRange(bars, i) < bars[j].close

\* The average range of a calm history, against its last price.
LEMMA RangeOfCalm ==
  ASSUME TypedHistory, Calm, NEW k \in (FirstBar + 1)..Len(bars)
  PROVE  LET s == SubSeq(bars, 1, k)
             range == Atr(s, config.atr)[k]
         IN  \A m \in {config.stopMult, config.tpMult} :
               /\ range.n > 0
               /\ Plus(s[k].close, range, m).n > 0
               /\ Plus(s[k].close, range, -m).n > 0
<1> DEFINE s == SubSeq(bars, 1, k)
           p == config.atr
           mult == Largest(config.stopMult, config.tpMult)
           range == Atr(s, p)[k]
           ranges == {TrueRange(bars, i) : i \in 2..k}
<1>1. /\ bars \in Seq(Candles) /\ Len(bars) \in Nat /\ k \in 1..Len(bars)
      /\ p \in Nat \ {0} /\ p + 1 <= k /\ k >= 2
      /\ config.stopMult \in Nat /\ config.tpMult \in Nat
  BY ConfigIs DEF TypedHistory
<1>2. /\ s \in Seq(Candles) /\ Len(s) = k /\ \A i \in 1..k : s[i] = bars[i]
  <2>1. k \in FirstBar..Len(bars)
    BY <1>1, ConfigIs
  <2>2. QED
    BY <2>1, PrefixAverages
<1>3. \A i \in 2..k : TrueRange(bars, i) \in Nat \ {0}
  <2>1. \A i \in 2..k : i \in 2..Len(bars)
    BY <1>1
  <2>2. \A i \in 2..k : TrueRange(bars, i) \in Nat
    BY <1>1, <2>1, RangesAre
  <2>3. QED
    BY <2>1, <2>2 DEF Calm
<1>4. PICK hi \in ranges : \A r \in ranges : r <= hi
  <2>1. IsFiniteSet(ranges)
    <3>1. IsFiniteSet(2..k)
      BY <1>1, FS_Interval
    <3>2. [i \in 2..k |-> TrueRange(bars, i)] \in Surjection(2..k, ranges)
      BY DEF Surjection
    <3> HIDE DEF ranges
    <3>3. QED
      BY <3>1, <3>2, FS_Surjection
  <2>2. ranges \subseteq Int /\ ranges # {}
    <3>1. 2 \in 2..k
      BY <1>1
    <3>2. QED
      BY <1>3, <3>1
  <2> HIDE DEF ranges
  <2>3. QED
    BY <2>1, <2>2, LargestExists
<1>5. hi \in Nat /\ mult * hi < s[k].close /\ s[k].close \in Int
  <2>1. PICK i \in 2..k : hi = TrueRange(bars, i)
    BY <1>4
  <2>2. i \in 2..Len(bars) /\ k \in 2..Len(bars)
    BY <1>1
  <2>3. mult * hi < bars[k].close
    BY <2>1, <2>2 DEF Calm
  <2>4. hi \in Nat
    BY <1>3, <2>1
  <2>5. bars[k] \in Candles
    BY <1>1, ElementOfSeq
  <2>6. bars[k].close \in Int
    BY <2>5, IndicatorAssumption
  <2>7. s[k] = bars[k]
    BY <1>1, <1>2
  <2> HIDE DEF s, mult
  <2>8. QED
    BY <2>3, <2>4, <2>6, <2>7
<1>6. \A i \in 2..k : /\ TrueRange(s, i) \in Int
                      /\ 1 <= TrueRange(s, i) /\ TrueRange(s, i) <= hi
  <2>1. ASSUME NEW i \in 2..k
        PROVE  TrueRange(s, i) = TrueRange(bars, i)
    <3>1. i \in 1..k /\ i - 1 \in 1..k
      BY <1>1
    <3>2. s[i] = bars[i] /\ s[i - 1] = bars[i - 1]
      BY <1>2, <3>1
    <3> HIDE DEF s
    <3>3. QED
      BY <3>2 DEF TrueRange
  <2>2. \A i \in 2..k : TrueRange(bars, i) \in ranges
    OBVIOUS
  <2>3. \A i \in 2..k : TrueRange(bars, i) <= hi
    BY <1>4, <2>2
  <2> HIDE DEF s, ranges
  <2>4. QED
    BY <1>3, <2>1, <2>3
<1>7. IsFraction(range) /\ Between(1, range, hi)
  <2> HIDE DEF s, p
  <2>1. 1 \in Int /\ hi \in Int /\ p + 1 <= Len(s)
    BY <1>1, <1>2, <1>5
  <2>2. \A i \in 2..Len(s) : TrueRange(s, i) \in Int
                             /\ 1 <= TrueRange(s, i) /\ TrueRange(s, i) <= hi
    BY <1>2, <1>6
  <2>3. IsFraction(Atr(s, p)[Len(s)]) /\ Between(1, Atr(s, p)[Len(s)], hi)
    BY <1>1, <1>2, <2>1, <2>2, AtrBetween
  <2>4. QED
    BY <2>3, <1>2
<1>8. mult \in Nat /\ \A m \in {config.stopMult, config.tpMult} : m \in Nat /\ m <= mult
  BY <1>1, LargestIs
<1> HIDE DEF range, mult
<1>9. \A m \in {config.stopMult, config.tpMult} :
        range.n > 0 /\ Plus(s[k].close, range, m).n > 0 /\ Plus(s[k].close, range, -m).n > 0
  <2> HIDE DEF s
  <2> QED
    BY <1>5, <1>7, <1>8, FarAbove
<1>10. QED
  BY <1>9 DEF range

\* In a calm history without a higher timeframe every crossing is signalled.
LEMMA CrossingsSignalled ==
  ASSUME TypedHistory, Calm, ~(config.higher > 0), NEW k \in (FirstBar + 1)..Len(bars)
  PROVE  /\ Up(k) => SideAt(k) = "buy"
         /\ Down(k) => SideAt(k) = "sell"
<1> DEFINE s == SubSeq(bars, 1, k)
           fast == Ema(Closes(s), config.fast)
           slow == Ema(Closes(s), config.slow)
           range == Atr(s, config.atr)[k]
           entry == s[k].close
           up == CrossedUp(fast, slow, k)
           down == CrossedDown(fast, slow, k)
           toward(mult) == Plus(entry, range, mult)
           away(mult) == Plus(entry, range, -mult)
           stop == IF up THEN away(config.stopMult) ELSE toward(config.stopMult)
           target == IF up THEN toward(config.tpMult) ELSE away(config.tpMult)
           signal == [side |-> IF up THEN "buy" ELSE "sell", entry |-> entry,
                      stop |-> stop, target |-> target]
<1>1. /\ k \in FirstBar..Len(bars) /\ k > Largest(config.slow, config.atr) + 1
      /\ k >= config.fast + 1
  BY ConfigIs, SMTT(20) DEF FirstBar, Largest, TypedHistory
<1>2. /\ s \in Seq(Candles) /\ Len(s) = k
      /\ fast[k] = FastAt(k) /\ fast[k - 1] = FastAt(k - 1)
      /\ slow[k] = SlowAt(k) /\ slow[k - 1] = SlowAt(k - 1)
      /\ IsFraction(FastAt(k)) /\ IsFraction(FastAt(k - 1))
      /\ IsFraction(SlowAt(k)) /\ IsFraction(SlowAt(k - 1))
  BY <1>1, PrefixAverages
<1>3. \A m \in {config.stopMult, config.tpMult} :
        range.n > 0 /\ toward(m).n > 0 /\ away(m).n > 0
  BY RangeOfCalm
<1>4. stop.n > 0 /\ target.n > 0 /\ range.n > 0
  <2> HIDE DEF range, entry, up
  <2>1. CASE up
    BY <1>3, <2>1
  <2>2. CASE ~up
    BY <1>3, <2>2
  <2>3. QED
    BY <2>1, <2>2
<1>5. (up \/ down) => SideAt(k) = signal.side
  <2> DEFINE n == Len(s)
             r == Atr(s, config.atr)[n]
             e == s[n].close
             u == CrossedUp(fast, slow, n)
             d == CrossedDown(fast, slow, n)
             sig == [side |-> IF u THEN "buy" ELSE "sell", entry |-> e,
                     stop |-> IF u THEN Plus(e, r, -config.stopMult)
                                   ELSE Plus(e, r, config.stopMult),
                     target |-> IF u THEN Plus(e, r, config.tpMult)
                                     ELSE Plus(e, r, -config.tpMult)]
             shown == /\ n >= config.fast + 1
                      /\ r.n > 0
                      /\ u \/ d
                      /\ config.higher > 0 => HigherTfConfirms(u)
                      /\ sig.stop.n > 0 /\ sig.target.n > 0
  <2>1. EmaAtrSignal(s) = IF n <= Largest(config.slow, config.atr) + 1 THEN NoSignal
                          ELSE IF shown THEN sig ELSE NoSignal
    BY DEF EmaAtrSignal
  <2>2. n = k /\ r = range /\ e = entry /\ (u <=> up) /\ (d <=> down)
    <3> HIDE DEF s, fast, slow
    <3> QED
      BY <1>2
  <2>3. /\ sig.stop = IF u THEN Plus(e, r, -config.stopMult) ELSE Plus(e, r, config.stopMult)
        /\ sig.target = IF u THEN Plus(e, r, config.tpMult) ELSE Plus(e, r, -config.tpMult)
        /\ sig.side = IF u THEN "buy" ELSE "sell"
    OBVIOUS
  <2> HIDE DEF n, r, e, u, d, sig, s, fast, slow, range, entry, up, down
  <2>4. sig.stop = stop /\ sig.target = target /\ sig.side = signal.side
    BY <2>2, <2>3
  <2>5. ~(n <= Largest(config.slow, config.atr) + 1) /\ n >= config.fast + 1
    <3>1. k \in Int /\ Largest(config.slow, config.atr) + 1 \in Int
      BY ConfigIs DEF Largest
    <3>2. QED
      BY <1>1, <2>2, <3>1
  <2>6. r.n > 0 /\ sig.stop.n > 0 /\ sig.target.n > 0
    <3> HIDE DEF stop, target
    <3> QED
      BY <1>4, <2>2, <2>4
  <2>7. up \/ down => shown
    BY <2>2, <2>5, <2>6
  <2> HIDE DEF shown
  <2>8. up \/ down => EmaAtrSignal(s) = sig
    BY <2>1, <2>5, <2>7
  <2>9. SideAt(k) = EmaAtrSignal(s).side
    BY DEF SideAt, s
  <2>10. QED
    BY <2>4, <2>8, <2>9
<1>6. Up(k) <=> up
  BY <1>2 DEF Up, CrossedUp
<1>7. Down(k) <=> down
  BY <1>2 DEF Down, CrossedDown
<1>8. ~(up /\ down)
  BY <1>2, <1>6, <1>7, SMTT(20) DEF Up, Down, Less, AtMostFrac, IsFraction
<1>9. signal.side = IF up THEN "buy" ELSE "sell"
  OBVIOUS
<1> HIDE DEF signal, up, down
<1>10. QED
  BY <1>5, <1>6, <1>7, <1>8, <1>9

\* Averages that change sides cross at some bar between.
LEMMA CrossingExists ==
  ASSUME TypedHistory, NEW i \in FirstBar..(Len(bars) - 1)
  PROVE  LET n == Len(bars)
         IN  /\ Less(FastAt(i), SlowAt(i)) /\ Less(SlowAt(n), FastAt(n))
                => \E j \in (i + 1)..n : Up(j)
             /\ Less(SlowAt(i), FastAt(i)) /\ Less(FastAt(n), SlowAt(n))
                => \E j \in (i + 1)..n : Down(j)
<1> DEFINE n == Len(bars)
<1>1. n \in Nat /\ i \in Nat /\ i <= n /\ n \in i..n /\ i..n \subseteq FirstBar..n
  BY ConfigIs DEF TypedHistory
<1>2. \A j \in i..n : IsFraction(FastAt(j)) /\ IsFraction(SlowAt(j))
  BY <1>1, PrefixAverages
<1> HIDE DEF n
<1>3. ASSUME Less(FastAt(i), SlowAt(i)), Less(SlowAt(n), FastAt(n)),
             ~ \E j \in (i + 1)..n : Up(j)
      PROVE  FALSE
  <2> DEFINE Good == {j \in i..n : AtMostFrac(FastAt(j), SlowAt(j))}
  <2>1. i \in Good
    BY <1>1, <1>2, <1>3, SMTT(20) DEF Less, AtMostFrac, IsFraction
  <2>2. ASSUME NEW j \in (i + 1)..n, j - 1 \in Good
        PROVE  j \in Good
    <3>1. j \in i..n
      BY <1>1
    <3>2. AtMostFrac(FastAt(j - 1), SlowAt(j - 1)) /\ ~Up(j)
      BY <1>3, <2>2
    <3>3. ~Less(SlowAt(j), FastAt(j))
      BY <3>2 DEF Up
    <3>4. AtMostFrac(FastAt(j), SlowAt(j))
      BY <1>2, <3>1, <3>3 DEF Less, AtMostFrac, IsFraction
    <3>5. QED
      BY <3>1, <3>4
  <2> HIDE DEF Good
  <2>3. i..n \subseteq Good
    BY <1>1, <2>1, <2>2, IntervalInduction
  <2>4. AtMostFrac(FastAt(n), SlowAt(n))
    BY <1>1, <2>3 DEF Good
  <2>5. QED
    BY <1>1, <1>2, <1>3, <2>4 DEF Less, AtMostFrac, IsFraction
<1>4. ASSUME Less(SlowAt(i), FastAt(i)), Less(FastAt(n), SlowAt(n)),
             ~ \E j \in (i + 1)..n : Down(j)
      PROVE  FALSE
  <2> DEFINE Good == {j \in i..n : AtMostFrac(SlowAt(j), FastAt(j))}
  <2>1. i \in Good
    BY <1>1, <1>2, <1>4, SMTT(20) DEF Less, AtMostFrac, IsFraction
  <2>2. ASSUME NEW j \in (i + 1)..n, j - 1 \in Good
        PROVE  j \in Good
    <3>1. j \in i..n
      BY <1>1
    <3>2. AtMostFrac(SlowAt(j - 1), FastAt(j - 1)) /\ ~Down(j)
      BY <1>4, <2>2
    <3>3. ~Less(FastAt(j), SlowAt(j))
      BY <3>2 DEF Down
    <3>4. AtMostFrac(SlowAt(j), FastAt(j))
      BY <1>2, <3>1, <3>3 DEF Less, AtMostFrac, IsFraction
    <3>5. QED
      BY <3>1, <3>4
  <2> HIDE DEF Good
  <2>3. i..n \subseteq Good
    BY <1>1, <2>1, <2>2, IntervalInduction
  <2>4. AtMostFrac(SlowAt(n), FastAt(n))
    BY <1>1, <2>3 DEF Good
  <2>5. QED
    BY <1>1, <1>2, <1>4, <2>4 DEF Less, AtMostFrac, IsFraction
<1>5. QED
  BY <1>3, <1>4 DEF n

LEMMA HistoryTyped == IndicatorSpec => []TypedHistory
<1>1. IndicatorInit => TypedHistory
  BY DEF IndicatorInit, TypedHistory
<1>2. TypedHistory /\ [AppendBar]_indicatorVars => TypedHistory'
  <2> SUFFICES ASSUME TypedHistory, [AppendBar]_indicatorVars PROVE TypedHistory'
    OBVIOUS
  <2>1. CASE AppendBar
    BY <2>1 DEF AppendBar, TypedHistory
  <2>2. CASE UNCHANGED indicatorVars
    BY <2>2 DEF indicatorVars, TypedHistory
  <2>3. QED
    BY <2>1, <2>2
<1>3. QED
  BY <1>1, <1>2, PTL DEF IndicatorSpec

(* Crossings of the two averages are signalled, once.                      *)
THEOREM CrossingsSignalledOnce == IndicatorSpec => []CrossingsSeenOnce
<1>1. TypedHistory => CrossingsSeenOnce
  <2> SUFFICES ASSUME TypedHistory, Len(bars) > FirstBar PROVE CrossingsSeenOnce
    BY DEF CrossingsSeenOnce
  <2> DEFINE n == Len(bars)
             mult == Largest(config.stopMult, config.tpMult)
             vetoed == \/ config.higher > 0
                       \/ \E i, j \in 2..n : \/ TrueRange(bars, i) = 0
                                             \/ bars[j].close <= mult * TrueRange(bars, i)
  <2>1. SideAt(n) # "none" => SideAt(n) # SideAt(n - 1)
    BY SidesAlternate
  <2>2. ASSUME ~vetoed PROVE Calm
    <3>1. \A i \in 2..n : TrueRange(bars, i) \in Nat
      BY RangesAre DEF TypedHistory
    <3>2. \A j \in 2..n : bars[j].close \in Int
      <4>1. \A j \in 2..n : bars[j] \in Candles
        BY ElementOfSeq DEF TypedHistory
      <4>2. QED
        BY <4>1, IndicatorAssumption
    <3>3. mult \in Nat
      BY ConfigIs DEF Largest
    <3>4. \A i \in 2..n : mult * TrueRange(bars, i) \in Int
      BY <3>1, <3>3
    <3> HIDE DEF mult
    <3>5. \A i, j \in 2..n : TrueRange(bars, i) # 0 /\ mult * TrueRange(bars, i) < bars[j].close
      BY <2>2, <3>2, <3>4
    <3>6. QED
      BY <3>5 DEF Calm, mult
  <2>3. ASSUME ~vetoed, NEW i \in FirstBar..(n - 1)
        PROVE  /\ Less(FastAt(i), SlowAt(i)) /\ Less(SlowAt(n), FastAt(n))
                    => \E j \in (i + 1)..n : SideAt(j) = "buy"
               /\ Less(SlowAt(i), FastAt(i)) /\ Less(FastAt(n), SlowAt(n))
                    => \E j \in (i + 1)..n : SideAt(j) = "sell"
    <3>1. \A j \in (i + 1)..n : j \in (FirstBar + 1)..n
      BY ConfigIs DEF TypedHistory
    <3>2. Calm /\ ~(config.higher > 0)
      BY <2>2, <2>3
    <3>3. \A j \in (i + 1)..n : (Up(j) => SideAt(j) = "buy") /\ (Down(j) => SideAt(j) = "sell")
      BY <3>1, <3>2, CrossingsSignalled
    <3>4. QED
      BY <3>3, CrossingExists
  <2>4. QED
    BY <2>1, <2>3 DEF CrossingsSeenOnce
<1>2. QED
  BY <1>1, HistoryTyped, PTL

-----------------------------------------------------------------------------
(* How a window forgets where it began.                                    *)

IsPowers(f, x, k) == f = [i \in 0..k |-> IF i = 0 THEN 1 ELSE x * f[i - 1]]

LEMMA PowersExist ==
  ASSUME NEW x \in Nat, NEW k \in Nat
  PROVE  \E f : IsPowers(f, x, k)
<1> DEFINE Good == {m \in Nat : \E f : IsPowers(f, x, m)}
<1>1. 0 \in Good
  <2> DEFINE f == [i \in 0..0 |-> 1]
  <2>1. IsPowers(f, x, 0)
    BY DEF IsPowers
  <2>2. QED
    BY <2>1
<1>2. ASSUME NEW m \in Nat, m \in Good
      PROVE  m + 1 \in Good
  <2>1. PICK f : IsPowers(f, x, m)
    BY <1>2
  <2> DEFINE g == [i \in 0..(m + 1) |-> IF i = m + 1 THEN x * f[m] ELSE f[i]]
  <2>2. ASSUME NEW i \in 0..(m + 1)
        PROVE  g[i] = IF i = 0 THEN 1 ELSE x * g[i - 1]
    <3>1. CASE i = m + 1
      BY <3>1
    <3>2. CASE i # m + 1
      <4>1. i \in 0..m /\ g[i] = f[i] /\ (i # 0 => g[i - 1] = f[i - 1])
        BY <3>2
      <4>2. f[i] = IF i = 0 THEN 1 ELSE x * f[i - 1]
        BY <2>1, <4>1 DEF IsPowers
      <4> HIDE DEF g
      <4>3. QED
        BY <4>1, <4>2
    <3>3. QED
      BY <3>1, <3>2
  <2>3. g = [i \in 0..(m + 1) |-> g[i]]
    OBVIOUS
  <2>4. IsPowers(g, x, m + 1)
    <3> HIDE DEF g
    <3> QED
      BY <2>2, <2>3 DEF IsPowers
  <2>5. QED
    BY <2>4
<1>3. Nat \subseteq Good
  <2> HIDE DEF Good
  <2> QED
    BY <1>1, <1>2, NatSetInduction
<1>4. QED
  BY <1>3

\* The powers up to the k-th, in one table.
LEMMA PowersOf ==
  ASSUME NEW x \in Nat, NEW k \in Nat
  PROVE  \E f : /\ f[k] = Power(x, k) /\ f[0] = 1
                /\ \A i \in 1..k : f[i] = x * f[i - 1]
                /\ \A i \in 0..k : f[i] \in Nat
<1> DEFINE f == CHOOSE g : IsPowers(g, x, k)
<1>1. IsPowers(f, x, k)
  BY PowersExist
<1>2. f[k] = Power(x, k)
  BY DEF Power, IsPowers
<1> HIDE DEF f
<1>3. f[0] = 1 /\ \A i \in 1..k : f[i] = x * f[i - 1]
  BY <1>1 DEF IsPowers
<1>4. 0..k \subseteq {i \in 0..k : f[i] \in Nat}
  <2> DEFINE Good == {i \in 0..k : f[i] \in Nat}
  <2>1. 0 \in Good
    BY <1>3
  <2>2. ASSUME NEW i \in (0 + 1)..k, i - 1 \in Good
        PROVE  i \in Good
    BY <1>3, <2>2
  <2> HIDE DEF Good
  <2>3. 0..k \subseteq Good
    BY <2>1, <2>2, IntervalInduction
  <2>4. QED
    BY <2>3 DEF Good
<1>5. QED
  BY <1>2, <1>3, <1>4

LEMMA GapIs ==
  ASSUME NEW x \in Int, NEW y \in Int
  PROVE  Gap(x, y) \in Nat
BY DEF Gap

LEMMA GapScales ==
  ASSUME NEW x \in Int, NEW y \in Int, NEW k \in Nat, NEW p \in Int, NEW q \in Int,
         x - y = k * (p - q)
  PROVE  Gap(x, y) = k * Gap(p, q)
<1>1. k * (p - q) = k * p - k * q /\ k * (q - p) = k * q - k * p
      /\ k * p \in Int /\ k * q \in Int
  OBVIOUS
<1>2. CASE p >= q
  <2>1. k * (p - q) >= 0
    BY <1>2
  <2>2. Gap(p, q) = p - q /\ Gap(x, y) = x - y
    BY <1>2, <2>1 DEF Gap
  <2>3. QED
    BY <2>2
<1>3. CASE p < q
  <2>1. k * p <= k * q
    BY <1>3
  <2>2. Gap(p, q) = q - p
    BY <1>3 DEF Gap
  <2>3. y - x = k * q - k * p
    BY <1>1
  <2>4. Gap(x, y) = y - x
    BY <1>1, <2>1, <2>3 DEF Gap
  <2>5. QED
    BY <1>1, <2>2, <2>3, <2>4
<1>4. QED
  BY <1>2, <1>3

\* Two averages that take in the same value come closer, in proportion.
LEMMA BlendsApproach ==
  ASSUME NEW x, IsFraction(x), NEW y, IsFraction(y), NEW v \in Int,
         NEW old \in Nat, NEW new \in Nat \ {0}
  PROVE  LET a == Blend(x, v, old, new)
             b == Blend(y, v, old, new)
         IN  /\ Gap(a.n * b.d, b.n * a.d) = ((old + new) * old) * Gap(x.n * y.d, y.n * x.d)
             /\ a.d * b.d = ((old + new) * (old + new)) * (x.d * y.d)
<1> DEFINE n == x.n
           d == x.d
           m == y.n
           e == y.d
           t == old + new
<1>1. n \in Int /\ d \in Nat \ {0} /\ m \in Int /\ e \in Nat \ {0} /\ t \in Nat \ {0}
  BY DEF IsFraction
<1>2. /\ Blend(x, v, old, new).n = new * v * d + old * n /\ Blend(x, v, old, new).d = t * d
      /\ Blend(y, v, old, new).n = new * v * e + old * m /\ Blend(y, v, old, new).d = t * e
  BY DEF Blend
<1> HIDE DEF n, d, m, e, t
<1>3. (t * d) * (t * e) = (t * t) * (d * e)
  BY <1>1
<1>4. (new * v * d + old * n) * (t * e) = new * v * d * (t * e) + (t * old) * (n * e)
  BY <1>1
<1>5. (new * v * e + old * m) * (t * d) = new * v * d * (t * e) + (t * old) * (m * d)
  BY <1>1
<1>6. Gap(new * v * d * (t * e) + (t * old) * (n * e), new * v * d * (t * e) + (t * old) * (m * d))
        = (t * old) * Gap(n * e, m * d)
  <2> DEFINE c == new * v * d * (t * e)
             k == t * old
             p == n * e
             q == m * d
             r == c + k * p
             s == c + k * q
  <2>1. c \in Int /\ k \in Nat /\ p \in Int /\ q \in Int
    BY <1>1
  <2> HIDE DEF c, k, p, q
  <2>2. r \in Int /\ s \in Int /\ r - s = k * (p - q)
    BY <2>1
  <2> HIDE DEF r, s
  <2>3. Gap(r, s) = k * Gap(p, q)
    BY <2>1, <2>2, GapScales
  <2>4. QED
    BY <2>3 DEF c, k, p, q, r, s
<1>7. QED
  BY <1>2, <1>3, <1>4, <1>5, <1>6 DEF n, d, m, e, t

\* Two averages within the same bounds are at most their distance apart.
LEMMA WithinBounds ==
  ASSUME NEW x, IsFraction(x), NEW y, IsFraction(y), NEW lo \in Int, NEW hi \in Int,
         Between(lo, x, hi), Between(lo, y, hi)
  PROVE  Gap(x.n * y.d, y.n * x.d) <= (hi - lo) * (x.d * y.d)
<1> DEFINE n == x.n
           d == x.d
           m == y.n
           e == y.d
<1>1. /\ n \in Int /\ d \in Nat \ {0} /\ m \in Int /\ e \in Nat \ {0}
      /\ lo * d <= n /\ n <= hi * d /\ lo * e <= m /\ m <= hi * e
  BY DEF IsFraction, Between
<1> HIDE DEF n, d, m, e
<1>2. /\ (lo * d) * e <= n * e /\ n * e <= (hi * d) * e
      /\ (lo * e) * d <= m * d /\ m * d <= (hi * e) * d
  <2>1. lo * d \in Int /\ hi * d \in Int /\ lo * e \in Int /\ hi * e \in Int
    BY <1>1
  <2>2. QED
    BY <1>1, <2>1
<1>3. /\ (lo * d) * e = lo * (d * e) /\ (hi * d) * e = hi * (d * e)
      /\ (lo * e) * d = lo * (d * e) /\ (hi * e) * d = hi * (d * e)
      /\ (hi - lo) * (d * e) = hi * (d * e) - lo * (d * e)
      /\ {n * e, m * d, lo * (d * e), hi * (d * e)} \subseteq Int
  BY <1>1
<1>4. Gap(n * e, m * d) <= (hi - lo) * (d * e)
  BY <1>2, <1>3 DEF Gap
<1>5. QED
  BY <1>4 DEF n, d, m, e

\* The step of the induction: where the weight of what was before shrinks by
\* old / (old + new), the distance does.
LEMMA StepForgets ==
  ASSUME NEW g \in Nat, NEW up \in Nat, NEW down \in Nat, NEW spread \in Nat, NEW dd \in Nat,
         NEW t \in Nat, NEW old \in Nat, g * up <= spread * down * dd
  PROVE  ((t * old) * g) * (t * up) <= spread * (old * down) * ((t * t) * dd)
<1>1. ((t * old) * g) * (t * up) = (t * t * old) * (g * up)
  OBVIOUS
<1>2. spread * (old * down) * ((t * t) * dd) = (t * t * old) * (spread * down * dd)
  OBVIOUS
<1>3. (t * t * old) * (g * up) <= (t * t * old) * (spread * down * dd)
  <2> DEFINE c == t * t * old
             a == g * up
             b == spread * down * dd
  <2>1. c \in Nat /\ a \in Nat /\ b \in Nat /\ a <= b
    OBVIOUS
  <2> HIDE DEF a, b, c
  <2>2. c * a <= c * b
    BY <2>1
  <2>3. QED
    BY <2>2 DEF a, b, c
<1>4. QED
  BY <1>1, <1>2, <1>3

\* Averages f and h that take in the same values, h from its first on and f from
\* a place o further on, approach each other.
LEMMA AveragesApproach ==
  ASSUME NEW f, NEW h, NEW values, NEW o \in Nat, NEW p \in Nat \ {0}, NEW w \in Nat, p <= w,
         \A k \in p..w : IsFraction(f[o + k]) /\ IsFraction(h[k]),
         \A k \in (p + 1)..w : /\ values[k] \in Int
                               /\ f[o + k] = Blend(f[o + k - 1], values[k], p - 1, 2)
                               /\ h[k] = Blend(h[k - 1], values[k], p - 1, 2),
         NEW spread \in Nat,
         Gap(f[o + p].n * h[p].d, h[p].n * f[o + p].d) <= spread * (f[o + p].d * h[p].d)
  PROVE  Gap(f[o + w].n * h[w].d, h[w].n * f[o + w].d) * Power(p + 1, w - p)
           <= spread * Power(p - 1, w - p) * (f[o + w].d * h[w].d)
<1>1. w - p \in Nat /\ p + 1 \in Nat /\ p - 1 \in Nat
  OBVIOUS
<1>2. PICK up : /\ up[w - p] = Power(p + 1, w - p) /\ up[0] = 1
                /\ \A i \in 1..(w - p) : up[i] = (p + 1) * up[i - 1]
                /\ \A i \in 0..(w - p) : up[i] \in Nat
  BY <1>1, PowersOf, ZenonT(30)
<1>3. PICK down : /\ down[w - p] = Power(p - 1, w - p) /\ down[0] = 1
                  /\ \A i \in 1..(w - p) : down[i] = (p - 1) * down[i - 1]
                  /\ \A i \in 0..(w - p) : down[i] \in Nat
  BY <1>1, PowersOf, ZenonT(30)
<1> DEFINE gap(k) == Gap(f[o + k].n * h[k].d, h[k].n * f[o + k].d)
           dd(k) == f[o + k].d * h[k].d
           Good == {k \in p..w : gap(k) * up[k - p] <= spread * down[k - p] * dd(k)}
<1>4. \A k \in p..w : gap(k) \in Nat /\ dd(k) \in Nat
  <2> SUFFICES ASSUME NEW k \in p..w PROVE gap(k) \in Nat /\ dd(k) \in Nat
    OBVIOUS
  <2>1. f[o + k].n * h[k].d \in Int /\ h[k].n * f[o + k].d \in Int /\ dd(k) \in Nat
    BY DEF IsFraction
  <2>2. QED
    BY <2>1, GapIs
<1>5. p \in Good
  <2>1. p \in p..w /\ p - p = 0 /\ gap(p) <= spread * dd(p)
    OBVIOUS
  <2> HIDE DEF gap, dd
  <2>2. gap(p) * 1 = gap(p) /\ spread * 1 * dd(p) = spread * dd(p)
    BY <1>4, <2>1
  <2>3. QED
    BY <1>2, <1>3, <2>1, <2>2
<1>6. ASSUME NEW k \in (p + 1)..w, k - 1 \in Good
      PROVE  k \in Good
  <2>1. k \in p..w /\ k - 1 \in p..w /\ k - p \in 1..(w - p) /\ (k - 1) - p = (k - p) - 1
        /\ (k - p) - 1 \in 0..(w - p) /\ o + k - 1 = o + (k - 1)
    OBVIOUS
  <2>2. /\ f[o + k] = Blend(f[o + (k - 1)], values[k], p - 1, 2)
        /\ h[k] = Blend(h[k - 1], values[k], p - 1, 2) /\ values[k] \in Int
    BY <2>1
  <2>3. IsFraction(f[o + (k - 1)]) /\ IsFraction(h[k - 1])
    BY <2>1
  <2>4. /\ gap(k) = ((p - 1 + 2) * (p - 1)) * gap(k - 1)
        /\ dd(k) = ((p - 1 + 2) * (p - 1 + 2)) * dd(k - 1)
    <3>1. p - 1 \in Nat /\ 2 \in Nat \ {0}
      OBVIOUS
    <3> DEFINE x == f[o + (k - 1)]
               y == h[k - 1]
               v == values[k]
               a == Blend(x, v, p - 1, 2)
               b == Blend(y, v, p - 1, 2)
    <3>2. IsFraction(x) /\ IsFraction(y) /\ v \in Int /\ f[o + k] = a /\ h[k] = b
      BY <2>2, <2>3
    <3> HIDE DEF x, y, v
    <3>3. /\ Gap(a.n * b.d, b.n * a.d)
                = ((p - 1 + 2) * (p - 1)) * Gap(x.n * y.d, y.n * x.d)
          /\ a.d * b.d = ((p - 1 + 2) * (p - 1 + 2)) * (x.d * y.d)
      BY <3>1, <3>2, BlendsApproach
    <3> HIDE DEF a, b
    <3>4. QED
      BY <3>2, <3>3 DEF x, y
  <2>5. p - 1 + 2 = p + 1
    OBVIOUS
  <2>6. gap(k - 1) * up[(k - p) - 1] <= spread * down[(k - p) - 1] * dd(k - 1)
    BY <1>6, <2>1
  <2>7. up[k - p] = (p + 1) * up[(k - p) - 1] /\ down[k - p] = (p - 1) * down[(k - p) - 1]
        /\ up[(k - p) - 1] \in Nat /\ down[(k - p) - 1] \in Nat
    BY <1>2, <1>3, <2>1
  <2>8. gap(k - 1) \in Nat /\ dd(k - 1) \in Nat
    BY <1>4, <2>1
  <2> HIDE DEF gap, dd
  <2>9. (((p + 1) * (p - 1)) * gap(k - 1)) * ((p + 1) * up[(k - p) - 1])
          <= spread * ((p - 1) * down[(k - p) - 1]) * (((p + 1) * (p + 1)) * dd(k - 1))
    BY <1>1, <2>6, <2>7, <2>8, StepForgets
  <2>10. gap(k) * up[k - p] <= spread * down[k - p] * dd(k)
    BY <2>4, <2>5, <2>7, <2>9
  <2>11. QED
    BY <2>1, <2>10
<1>7. w \in Good
  <2> HIDE DEF Good
  <2>1. p..w \subseteq Good
    BY <1>5, <1>6, IntervalInduction
  <2>2. QED
    BY <2>1
<1>8. QED
  BY <1>2, <1>3, <1>7

LEMMA SpreadIs ==
  ASSUME NEW values \in Seq(Int), Len(values) > 0
  PROVE  \E lo, hi \in Int : /\ Spread(values) = hi - lo /\ hi - lo \in Nat
                             /\ \A i \in 1..Len(values) : lo <= values[i] /\ values[i] <= hi
<1> DEFINE m == {values[i] : i \in DOMAIN values}
           hi == CHOOSE x \in m : \A y \in m : y <= x
           lo == CHOOSE x \in m : \A y \in m : x <= y
<1>1. DOMAIN values = 1..Len(values) /\ Len(values) \in Nat
      /\ \A i \in 1..Len(values) : values[i] \in Int
  BY ElementOfSeq
<1>2. m \subseteq Int /\ m # {} /\ IsFiniteSet(m)
  <2>1. values \in Surjection(1..Len(values), m)
    BY <1>1 DEF Surjection
  <2>2. IsFiniteSet(1..Len(values))
    BY <1>1, FS_Interval
  <2>3. m \subseteq Int /\ m # {}
    BY <1>1
  <2> HIDE DEF m
  <2>4. QED
    BY <2>1, <2>2, <2>3, FS_Surjection
<1>3. hi \in m /\ \A y \in m : y <= hi
  <2> HIDE DEF m
  <2>1. \E x \in m : \A y \in m : y <= x
    BY <1>2, LargestExists
  <2>2. QED
    BY <2>1
<1>4. lo \in m /\ \A y \in m : lo <= y
  <2> HIDE DEF m
  <2>1. \E x \in m : \A y \in m : x <= y
    BY <1>2, SmallestExists
  <2>2. QED
    BY <2>1
<1>5. Spread(values) = hi - lo
  BY DEF Spread
<1>6. \A i \in 1..Len(values) : values[i] \in m
  BY <1>1
<1> HIDE DEF m, hi, lo
<1>7. lo \in Int /\ hi \in Int /\ hi - lo \in Nat
  BY <1>2, <1>3, <1>4
<1>8. QED
  BY <1>3, <1>4, <1>5, <1>6, <1>7

\* The averages of a window take in the values of the whole, from its place on.
LEMMA AverageStarts ==
  ASSUME NEW s \in Seq(Candles), NEW p \in Nat \ {0}
  PROVE  \A i \in (p + 1)..Len(s) :
           Ema(Closes(s), p)[i] = Blend(Ema(Closes(s), p)[i - 1], s[i].close, p - 1, 2)
<1> DEFINE v == Closes(s)
           seed == Mean(v, 1, p)
<1>1. Len(v) = Len(s) /\ Len(s) \in Nat /\ \A i \in 1..Len(s) : v[i] = s[i].close
  BY ClosesOf
<1>2. Ema(v, p) = Smoothed(v, p, seed, p - 1, 2)
  BY DEF Ema
<1> HIDE DEF v, seed
<1>3. \A i \in (p + 1)..Len(v) :
        Smoothed(v, p, seed, p - 1, 2)[i] = Blend(Smoothed(v, p, seed, p - 1, 2)[i - 1], v[i], p - 1, 2)
  BY <1>1, SmoothedIs
<1>4. \A i \in (p + 1)..Len(s) : i \in 1..Len(s)
  OBVIOUS
<1>5. QED
  BY <1>1, <1>2, <1>3, <1>4 DEF v

LEMMA WindowForgets ==
  ASSUME TypedHistory, NEW w \in config.slow..Len(bars)
  PROVE  LET p == config.slow
             long == Ema(Closes(bars), p)[Len(bars)]
             short == Ema(Closes(Window(bars, w)), p)[w]
         IN  Gap(long.n * short.d, short.n * long.d) * Power(p + 1, w - p)
               <= Spread(Closes(bars)) * Power(p - 1, w - p) * (long.d * short.d)
<1> DEFINE p == config.slow
           n == Len(bars)
           o == n - w
           t == Window(bars, w)
           f == Ema(Closes(bars), p)
           h == Ema(Closes(t), p)
           values == [k \in 1..w |-> t[k].close]
<1>1. /\ p \in Nat \ {0} /\ n \in Nat /\ o \in Nat /\ w \in Nat /\ p <= w /\ w <= n
      /\ bars \in Seq(Candles)
  BY ConfigIs DEF TypedHistory
<1>2. t \in Seq(Candles) /\ Len(t) = w /\ \A k \in 1..w : t[k] = bars[o + k]
  <2>1. \A k \in (n - w + 1)..n : bars[k] \in Candles
    <3>1. \A k \in (n - w + 1)..n : k \in 1..Len(bars)
      BY <1>1
    <3>2. QED
      BY <1>1, <3>1, ElementOfSeq
  <2>2. n - w + 1 \in Int /\ n \in Int
    BY <1>1
  <2>3. /\ SubSeq(bars, n - w + 1, n) \in Seq(Candles)
        /\ Len(SubSeq(bars, n - w + 1, n)) = IF n - w + 1 <= n THEN n - (n - w + 1) + 1 ELSE 0
        /\ \A k \in 1..(n - (n - w + 1) + 1) :
             SubSeq(bars, n - w + 1, n)[k] = bars[(n - w + 1) + k - 1]
    <3> HIDE DEF n
    <3> QED
      BY <2>1, <2>2, SubSeqProperties
  <2>4. n - (n - w + 1) + 1 = w /\ n - w + 1 <= n
    BY <1>1
  <2>5. t = SubSeq(bars, n - w + 1, n)
    BY DEF Window
  <2>6. \A k \in 1..w : (n - w + 1) + k - 1 = o + k
    BY <1>1
  <2> HIDE DEF t, n, o
  <2>7. QED
    BY <2>3, <2>4, <2>5, <2>6
<1>3. PICK lo, hi \in Int : /\ Spread(Closes(bars)) = hi - lo /\ hi - lo \in Nat
                           /\ \A i \in 1..n : lo <= bars[i].close /\ bars[i].close <= hi
  <2>1. /\ Closes(bars) \in Seq(Int) /\ Len(Closes(bars)) = n /\ n > 0
        /\ \A i \in 1..n : Closes(bars)[i] = bars[i].close
    BY <1>1, ClosesOf
  <2>2. \E lo, hi \in Int :
           /\ Spread(Closes(bars)) = hi - lo /\ hi - lo \in Nat
           /\ \A i \in 1..Len(Closes(bars)) : lo <= Closes(bars)[i] /\ Closes(bars)[i] <= hi
    BY <2>1, SpreadIs
  <2> HIDE DEF n
  <2>3. QED
    BY <2>1, <2>2
<1> HIDE DEF o, t, n, p
<1>4. \A i \in p..n : IsFraction(f[i]) /\ Between(lo, f[i], hi)
  BY <1>1, <1>3, EmaBetween DEF n
<1>5. \A k \in 1..w : lo <= t[k].close /\ t[k].close <= hi /\ t[k].close \in Int
  <2>1. \A k \in 1..w : o + k \in 1..n
    BY <1>1 DEF o
  <2>2. \A k \in 1..w : t[k] \in Candles
    BY <1>2, ElementOfSeq
  <2>3. QED
    BY <1>2, <1>3, <2>1, <2>2, IndicatorAssumption
<1>6. \A k \in p..w : IsFraction(h[k]) /\ Between(lo, h[k], hi)
  BY <1>1, <1>2, <1>5, EmaBetween
<1>7. \A k \in (p + 1)..w : h[k] = Blend(h[k - 1], t[k].close, p - 1, 2)
  BY <1>1, <1>2, AverageStarts
<1>8. \A k \in (p + 1)..w : f[o + k] = Blend(f[o + k - 1], t[k].close, p - 1, 2)
  <2>1. \A i \in (p + 1)..n : f[i] = Blend(f[i - 1], bars[i].close, p - 1, 2)
    BY <1>1, AverageStarts DEF n
  <2> HIDE DEF f
  <2> SUFFICES ASSUME NEW k \in (p + 1)..w
               PROVE  f[o + k] = Blend(f[o + k - 1], t[k].close, p - 1, 2)
    OBVIOUS
  <2>2. o + k \in (p + 1)..n /\ k \in 1..w
    BY <1>1 DEF o
  <2>3. f[o + k] = Blend(f[o + k - 1], bars[o + k].close, p - 1, 2)
    <3>1. o + k - 1 = (o + k) - 1
      BY <1>1 DEF o
    <3>2. QED
      BY <2>1, <2>2, <3>1
  <2>4. t[k] = bars[o + k]
    BY <1>2, <2>2
  <2>5. QED
    BY <2>3, <2>4
<1>9. \A k \in p..w : o + k \in p..n
  BY <1>1 DEF o
<1> HIDE DEF f, h
<1>10. Gap(f[o + p].n * h[p].d, h[p].n * f[o + p].d) <= (hi - lo) * (f[o + p].d * h[p].d)
  <2>1. p \in p..w /\ o + p \in p..n
    BY <1>1, <1>9
  <2>2. /\ IsFraction(f[o + p]) /\ Between(lo, f[o + p], hi)
        /\ IsFraction(h[p]) /\ Between(lo, h[p], hi)
    BY <1>4, <1>6, <2>1
  <2>3. QED
    BY <2>2, WithinBounds
<1>11. Gap(f[o + w].n * h[w].d, h[w].n * f[o + w].d) * Power(p + 1, w - p)
         <= (hi - lo) * Power(p - 1, w - p) * (f[o + w].d * h[w].d)
  <2>1. \A k \in p..w : IsFraction(f[o + k]) /\ IsFraction(h[k])
    BY <1>4, <1>6, <1>9
  <2>2. \A k \in (p + 1)..w : /\ values[k] \in Int
                              /\ f[o + k] = Blend(f[o + k - 1], values[k], p - 1, 2)
                              /\ h[k] = Blend(h[k - 1], values[k], p - 1, 2)
    <3>1. \A k \in (p + 1)..w : k \in 1..w /\ values[k] = t[k].close
      BY <1>1
    <3> HIDE DEF values
    <3>2. QED
      BY <1>5, <1>7, <1>8, <3>1
  <2> HIDE DEF values
  <2> DEFINE spread == hi - lo
  <2>3. spread \in Nat
    BY <1>3
  <2>4. Gap(f[o + p].n * h[p].d, h[p].n * f[o + p].d) <= spread * (f[o + p].d * h[p].d)
    BY <1>10
  <2> HIDE DEF spread
  <2>5. Gap(f[o + w].n * h[w].d, h[w].n * f[o + w].d) * Power(p + 1, w - p)
          <= spread * Power(p - 1, w - p) * (f[o + w].d * h[w].d)
    BY <1>1, <2>1, <2>2, <2>3, <2>4, AveragesApproach, ZenonT(30)
  <2>6. QED
    BY <2>5 DEF spread
<1>12. o + w = n
  BY <1>1 DEF o
<1>13. QED
  BY <1>3, <1>11, <1>12 DEF f, h, n, p, t

(* A window's average differs from the whole history's by no more than the *)
(* weight its seed still has, times the span of the prices.                *)
THEOREM WindowsForget == IndicatorSpec => []WindowForgetsSeed
<1>1. TypedHistory => WindowForgetsSeed
  <2> SUFFICES ASSUME TypedHistory, NEW w \in config.slow..Len(bars)
               PROVE  LET p == config.slow
                          long == Ema(Closes(bars), p)[Len(bars)]
                          short == Ema(Closes(Window(bars, w)), p)[w]
                      IN  Gap(long.n * short.d, short.n * long.d) * Power(p + 1, w - p)
                            <= Spread(Closes(bars)) * Power(p - 1, w - p) * (long.d * short.d)
    BY DEF WindowForgetsSeed
  <2> QED
    BY WindowForgets
<1>2. QED
  BY <1>1, HistoryTyped, PTL
=============================================================================
