----------------------- MODULE FreqtradeBridge_proofs -----------------------
(***************************************************************************)
(* The bridge for any trades, threads and faults: it uses the idempotency  *)
(* file as SeenFile says, and so an event is ordered at most once.         *)
(***************************************************************************)
EXTENDS FreqtradeBridge, Files_proofs

LEMMA EventIds ==
  ASSUME NEW e \in Events
  PROVE  IdOf(e) \in Keys \cup {NoKey} /\ (IdOf(e) \in Keys => IdOf(e) = e)
BY BridgeAssumption, SeenAssumption DEF IdOf

LEMMA ThreadSeen ==
  ASSUME NEW th \in Threads, ThreadStep(th)
  PROVE  [SeenNext]_seenVars
<1>1. CASE EndCheck(th)
  BY <1>1 DEF SeenNext, Threads
<1>2. CASE CheckDuplicate(th)
  BY <1>2 DEF CheckDuplicate, SeenNext, Threads
<1>3. CASE ~EndCheck(th) /\ ~CheckDuplicate(th)
  <2>1. CASE Pipeline(th)
    BY <1>3, <2>1 DEF Pipeline
  <2>2. CASE Reconcile(th)
    BY <2>2 DEF Reconcile
  <2>3. QED
    BY <1>3, <2>1, <2>2 DEF ThreadStep, Refuse, Answer
<1>4. QED
  BY <1>1, <1>2, <1>3

LEMMA BridgeSeen == [Next]_vars => [SeenNext]_seenVars
<1> SUFFICES ASSUME [Next]_vars PROVE [SeenNext]_seenVars
  OBVIOUS
<1>1. ASSUME NEW t \in Trades, EnterTrade(t) \/ ExitTrade(t) PROVE UNCHANGED seenVars
  BY <1>1 DEF EnterTrade, ExitTrade
<1>2. ASSUME NEW th \in Threads, NEW e \in Events, Receive(th, e) PROVE [SeenNext]_seenVars
  BY <1>2, EventIds DEF Receive, SeenNext, Threads
<1>3. CASE Restart
  BY <1>3 DEF Restart, SeenNext
<1>4. CASE UNCHANGED vars
  BY <1>4 DEF vars
<1>5. QED
  BY <1>1, <1>2, <1>3, <1>4, ThreadSeen DEF Next

(* The bridge makes its checks the way SeenFile specifies.                 *)
THEOREM BridgeUsesSeenFile == Spec => SeenSpec
<1>1. Init => SeenInit
  BY DEF Init
<1>2. QED
  BY <1>1, BridgeSeen, PTL DEF Spec, SeenSpec

-----------------------------------------------------------------------------
\* th has passed the check and may still order.
Passes(th) == At(th, "check") /\ call[th].pc = "passed"

ServeShape ==
  /\ serve \in [Threads -> [pc : {"idle", "check", "blocked", "reply"},
                            event : Events \cup {NoEvent}]]
  /\ \A th \in Threads :
       ~At(th, "idle") => Event(th) \in Events /\ call[th].key = IdOf(Event(th))
  /\ orders \in [Events -> Nat]

\* An event that was never shared: before the check passes there is no order;
\* then one thread may order, and afterwards nobody.
Single(e) ==
  /\ grants[e] = 0 => orders[e] = 0 /\ \A th \in Threads : Passes(th) => Event(th) # e
  /\ \A th \in Threads : Passes(th) /\ Event(th) = e => orders[e] = 0
  /\ \A th, u \in Threads : Passes(th) /\ Event(th) = e /\ Passes(u) /\ Event(u) = e => th = u
  /\ orders[e] <= 1

BridgeInv == ServeShape /\ \A e \in Exact \ shared : Single(e)

LEMMA BridgeInitInv == Init => BridgeInv
<1> SUFFICES ASSUME Init PROVE BridgeInv
  OBVIOUS
<1>1. ServeShape
  BY DEF Init, ServeShape, NoServe, NoEvent, At
<1>2. \A e \in Exact : Single(e)
  BY BridgeAssumption DEF Init, Single, Passes, At, NoServe, Exact
<1>3. QED
  BY <1>1, <1>2 DEF BridgeInv

\* A step that orders and grants nothing, and after which no thread passes
\* that did not before.
LEMMA CalmKeepsInv ==
  ASSUME BridgeInv, ServeShape', UNCHANGED <<orders, grants>>, shared \subseteq shared',
         \A th \in Threads : Passes(th)' => Passes(th) /\ Event(th)' = Event(th)
  PROVE  BridgeInv'
BY DEF BridgeInv, Single

LEMMA ReceiveInv ==
  ASSUME BridgeInv, SeenInv, NEW th \in Threads, NEW e \in Events, Receive(th, e),
         shared \subseteq shared'
  PROVE  BridgeInv'
<1>1. CASE UNCHANGED <<serve, seenVars>>
  BY <1>1, CalmKeepsInv DEF Receive, exchangeVars, seenVars, BridgeInv, ServeShape, At, Event, Passes
<1>2. CASE /\ serve' = [serve EXCEPT ![th] = [pc |-> "check", event |-> e]]
           /\ BeginCheck(th, IdOf(e))
  <2>1. /\ serve'[th] = [pc |-> "check", event |-> e]
        /\ \A u \in Threads : u # th => serve'[u] = serve[u] /\ call'[u] = call[u]
        /\ call'[th] = [pc |-> "read", key |-> IdOf(e)]
    BY <1>2 DEF BridgeInv, ServeShape, BeginCheck, SeenInv, SeenTypeOK, Threads
  <2>2. ServeShape'
    BY <1>2, <2>1 DEF Receive, exchangeVars, BridgeInv, ServeShape, At, Event
  <2>3. \A u \in Threads : Passes(u)' => Passes(u) /\ Event(u)' = Event(u)
    BY <2>1 DEF Passes, At, Event
  <2>4. QED
    BY <1>2, <2>2, <2>3, CalmKeepsInv DEF Receive, exchangeVars, BeginCheck
<1>3. QED
  BY <1>1, <1>2 DEF Receive

LEMMA CheckInv ==
  ASSUME BridgeInv, SeenInv, NEW th \in Threads, CheckDuplicate(th), shared \subseteq shared'
  PROVE  BridgeInv'
<1>0. /\ serve' = serve /\ orders' = orders /\ At(th, "check") /\ Event(th) \in Events
      /\ call[th].key = IdOf(Event(th))
      /\ \A u \in Threads : u # th => call'[u] = call[u]
      /\ call'[th].key = call[th].key
  BY DEF CheckDuplicate, exchangeVars, BridgeInv, ServeShape, ReadSeen, AppendSeen,
         SeenInv, SeenTypeOK, Threads, At
<1>1. ServeShape'
  BY <1>0 DEF BridgeInv, ServeShape, At, Event
<1>2. CASE ReadSeen(th)
  <2>1. call'[th].pc # "passed" /\ grants' = grants
    BY <1>2 DEF ReadSeen, SeenInv, SeenTypeOK, Threads
  <2>2. QED
    BY <1>0, <1>1, <2>1, CalmKeepsInv DEF Passes, At, Event
<1>3. CASE AppendSeen(th)
  <2>1. call[th].key \in Keys /\ call[th].pc = "append"
    BY <1>3 DEF AppendSeen, SeenInv, KeyedInv, Threads
  <2> DEFINE k == Event(th)
  <2>2. k = call[th].key
    BY <1>0, <2>1, EventIds
  <2>3. grants' = [grants EXCEPT ![k] = @ + 1] /\ shared' = shared
    BY <1>3, <2>2 DEF AppendSeen
  <2>4. ASSUME NEW e \in Exact \ shared PROVE Single(e)'
    <3>1. e \in Keys /\ grants[e] \in Nat /\ Single(e)
      BY DEF Exact, SeenInv, SeenTypeOK, BridgeInv
    <3>2. CASE e = k
      <4>1. grants[e] = 0
        BY <2>1, <2>2, <3>2 DEF SeenInv, AloneInv, Threads
      <4>2. grants'[e] = 1
        BY <2>3, <3>1, <3>2, <4>1 DEF SeenInv, SeenTypeOK
      <4>3. \A u \in Threads : u # th => ~(Passes(u)' /\ Event(u)' = e)
        BY <1>0, <3>1, <4>1 DEF Single, Passes, At, Event
      <4>4. QED
        BY <1>0, <3>1, <4>1, <4>2, <4>3 DEF Single
    <3>3. CASE e # k
      <4>1. grants'[e] = grants[e]
        BY <2>3, <3>1, <3>3 DEF SeenInv, SeenTypeOK
      <4>2. \A u \in Threads : Passes(u)' /\ Event(u)' = e => Passes(u) /\ Event(u) = e
        BY <1>0, <3>3 DEF Passes, At, Event
      <4>3. QED
        BY <1>0, <3>1, <4>1, <4>2 DEF Single
    <3>4. QED
      BY <3>2, <3>3
  <2>5. QED
    BY <1>1, <2>3, <2>4 DEF BridgeInv, Exact
<1>4. QED
  BY <1>2, <1>3 DEF CheckDuplicate

\* After a step of th that is not a check, its thread has stopped passing or
\* stays what it was.
Leaves(th) ==
  /\ \/ Reply(th)
     \/ /\ Move(th, "blocked") \/ Move(th, "reply")
        /\ ~At(th, "idle") /\ call' = call
  /\ \A u \in Threads : u # th => call'[u] = call[u]
  /\ UNCHANGED <<grants, shared>>

LEMMA LeavesShape ==
  ASSUME ServeShape, NEW th \in Threads, Leaves(th), orders' \in [Events -> Nat]
  PROVE  /\ ServeShape' /\ ~Passes(th)'
         /\ \A u \in Threads : u # th => (Passes(u)' <=> Passes(u)) /\ Event(u)' = Event(u)
<1>1. CASE Reply(th)
  BY <1>1 DEF ServeShape, Leaves, Reply, NoServe, Passes, At, Event
<1>2. CASE (Move(th, "blocked") \/ Move(th, "reply")) /\ ~At(th, "idle") /\ call' = call
  BY <1>2 DEF ServeShape, Leaves, Move, Passes, At, Event
<1>3. QED
  BY <1>1, <1>2 DEF Leaves

LEMMA LeavesKeepsInv ==
  ASSUME BridgeInv, NEW th \in Threads, Leaves(th), orders' = orders
  PROVE  BridgeInv'
<1>1. ServeShape' /\ \A u \in Threads : Passes(u)' => Passes(u) /\ Event(u)' = Event(u)
  BY LeavesShape DEF BridgeInv, ServeShape
<1>2. QED
  BY <1>1, CalmKeepsInv DEF Leaves

LEMMA OrderKeepsInv ==
  ASSUME BridgeInv, SeenInv, NEW th \in Threads, Leaves(th), Passes(th),
         TakesEffect(Event(th))
  PROVE  BridgeInv'
<1> DEFINE k == Event(th)
<1>1. k \in Events /\ k = call[th].key
  <2>1. k \in Events /\ call[th].key = IdOf(k) /\ call[th].key \in Keys
    BY DEF BridgeInv, ServeShape, Passes, At, SeenInv, KeyedInv, Threads
  <2>2. QED
    BY <2>1, EventIds
<1>2. orders' = [orders EXCEPT ![k] = @ + 1] /\ orders' \in [Events -> Nat]
  BY <1>1 DEF TakesEffect, BridgeInv, ServeShape
<1>3. /\ ServeShape' /\ ~Passes(th)'
      /\ \A u \in Threads : u # th => (Passes(u)' <=> Passes(u)) /\ Event(u)' = Event(u)
  BY <1>2, LeavesShape DEF BridgeInv
<1>4. ASSUME NEW e \in Exact \ shared PROVE Single(e)'
  <2>1. Single(e) /\ e \in Events /\ grants'[e] = grants[e]
    BY BridgeAssumption DEF BridgeInv, Leaves, Exact
  <2>2. CASE e = k
    <3>1. orders[e] = 0 /\ grants[e] # 0 /\ \A u \in Threads : Passes(u) /\ Event(u) = e => u = th
      BY <2>1, <2>2 DEF Single
    <3>2. orders'[e] = 1
      BY <1>2, <2>1, <2>2, <3>1 DEF BridgeInv, ServeShape
    <3>3. QED
      BY <1>3, <2>1, <3>1, <3>2 DEF Single
  <2>3. CASE e # k
    <3>1. orders'[e] = orders[e]
      BY <1>2, <2>1, <2>3 DEF BridgeInv, ServeShape
    <3>2. QED
      BY <1>3, <2>1, <3>1 DEF Single
  <2>4. QED
    BY <2>2, <2>3
<1>5. QED
  BY <1>3, <1>4 DEF BridgeInv, Leaves

LEMMA EndLeaves ==
  ASSUME BridgeInv, SeenInv, NEW th \in Threads, Reply(th), EndCheck(th)
  PROVE  Leaves(th)
BY DEF EndCheck, Leaves, SeenInv, SeenTypeOK, Threads

LEMMA ThreadInv ==
  ASSUME BridgeInv, SeenInv, NEW th \in Threads, ThreadStep(th), shared \subseteq shared'
  PROVE  BridgeInv'
<1>1. CASE CheckDuplicate(th)
  BY <1>1, CheckInv
<1>2. CASE Refuse(th) \/ Answer(th)
  BY <1>2, EndLeaves, LeavesKeepsInv DEF Refuse, Answer, exchangeVars
<1>3. CASE Reconcile(th)
  <2>1. Leaves(th) /\ orders' = orders
    BY <1>3 DEF Reconcile, At, Leaves, exchangeVars, seenVars
  <2>2. QED
    BY <2>1, LeavesKeepsInv
<1>4. CASE Pipeline(th)
  <2>1. Passes(th)
    BY <1>4 DEF Pipeline, Passes
  <2>2. Leaves(th)
    BY <1>4, EndLeaves DEF Pipeline, Leaves, At, seenVars
  <2>3. TakesEffect(Event(th)) \/ orders' = orders
    BY <1>4 DEF Pipeline, exchangeVars
  <2>4. QED
    BY <2>1, <2>2, <2>3, LeavesKeepsInv, OrderKeepsInv
<1>5. QED
  BY <1>1, <1>2, <1>3, <1>4 DEF ThreadStep

LEMMA RestartInv ==
  ASSUME BridgeInv, Restart
  PROVE  BridgeInv'
<1>1. /\ ServeShape' /\ UNCHANGED <<orders, grants, shared>>
      /\ \A th \in Threads : ~Passes(th)'
  BY DEF Restart, SeenCrash, exchangeVars, BridgeInv, ServeShape, NoServe, NoEvent, At, Passes
<1>2. QED
  BY <1>1, CalmKeepsInv

LEMMA BridgeStep ==
  ASSUME BridgeInv, SeenInv, [Next]_vars
  PROVE  BridgeInv'
<1>1. shared \subseteq shared'
  BY BridgeSeen, SharedGrows
<1>2. ASSUME NEW t \in Trades, EnterTrade(t) \/ ExitTrade(t)
      PROVE  UNCHANGED <<serve, exchangeVars, seenVars>>
  BY <1>2 DEF EnterTrade, ExitTrade
<1>3. CASE UNCHANGED <<serve, exchangeVars, seenVars>>
  BY <1>3 DEF exchangeVars, seenVars, BridgeInv, ServeShape, Single, Passes, At, Event
<1>4. CASE UNCHANGED vars
  BY <1>3, <1>4 DEF vars
<1>5. QED
  BY <1>1, <1>2, <1>3, <1>4, ReceiveInv, ThreadInv, RestartInv DEF Next

(* One event of one trade is ordered at most once (README.md:148), for any *)
(* trades and threads, however often freqtrade repeats its webhooks and the*)
(* service is restarted, unless two attempts were checked at once.         *)
THEOREM EventsOrderOnce == Spec => []OneOrderPerEvent
<1>1. BridgeInv => OneOrderPerEvent
  BY DEF BridgeInv, Single, OneOrderPerEvent
<1>2. QED
  BY <1>1, BridgeInitInv, BridgeStep, BridgeUsesSeenFile, SeenInvariant, PTL DEF Spec

-----------------------------------------------------------------------------
\* What is held has been ordered; an exit that is answered, or about to be, was
\* blocked, refused or too small, or the position is gone and cannot come back.
Gone(t) == t \notin holds /\ orders[Entry(t)] # 0
Told(t) ==
  \/ Exit(t) \in acked
  \/ \E th \in Threads : At(th, "reply") /\ Event(th) = Exit(t)
Excused(t) == Exit(t) \in blocked \cup refused \cup reduced

Kept(t) ==
  /\ t \in holds => orders[Entry(t)] # 0
  /\ Told(t) => Excused(t) \/ Gone(t)
  /\ \A th \in Threads : At(th, "blocked") => Event(th) \in blocked

KeptInv == \A t \in Trades : Entry(t) \in Exact \ shared => Kept(t)

LEMMA KeptInitially == Init => KeptInv
BY DEF Init, KeptInv, Kept, Told, At, NoServe

\* A step that orders nothing and tells of no exit that was not told of.
LEMMA CalmKeeps ==
  ASSUME KeptInv, UNCHANGED exchangeVars, shared \subseteq shared',
         blocked \subseteq blocked', refused \subseteq refused',
         \A t \in Trades : Told(t)' => Told(t) \/ Excused(t)',
         \A th \in Threads : At(th, "blocked")' => Event(th)' \in blocked'
  PROVE  KeptInv'
BY DEF KeptInv, Kept, Gone, Excused, exchangeVars

LEMMA CheckingKeeps ==
  ASSUME KeptInv, BridgeInv, NEW th \in Threads,
         CheckDuplicate(th) \/ Refuse(th) \/ Answer(th) \/ Reconcile(th),
         shared \subseteq shared', \E t \in Trades : Entry(t) \in Exact \ shared
  PROVE  KeptInv'
<1>1. \A u \in Threads : At(u, "blocked") => Event(u) \in blocked
  BY DEF KeptInv, Kept
<1>2. CASE CheckDuplicate(th)
  BY <1>1, <1>2, CalmKeeps DEF CheckDuplicate, freqtradeVars, notedVars, Told, At, Event
<1>3. CASE Refuse(th)
  BY <1>1, <1>3, CalmKeeps
     DEF Refuse, Reply, NoServe, freqtradeVars, notedVars, Told, At, Event,
         BridgeInv, ServeShape, EndCheck
<1>4. CASE Answer(th)
  BY <1>1, <1>4, CalmKeeps
     DEF Answer, Reply, NoServe, notedVars, Told, At, Event, BridgeInv, ServeShape, EndCheck
<1>5. CASE Reconcile(th)
  <2>1. /\ Event(th) \in blocked /\ \A u \in Threads : Event(u)' = Event(u)
        /\ \A u \in Threads : u # th => (At(u, "reply")' <=> At(u, "reply"))
                                      /\ (At(u, "blocked")' <=> At(u, "blocked"))
        /\ ~At(th, "blocked")'
    BY <1>1, <1>5 DEF Reconcile, Move, At, Event, BridgeInv, ServeShape
  <2>2. \A t \in Trades : Told(t)' => Told(t) \/ Excused(t)'
    BY <1>5, <2>1 DEF Reconcile, Told, Excused
  <2>3. QED
    BY <1>1, <1>5, <2>1, <2>2, CalmKeeps DEF Reconcile
<1>6. QED
  BY <1>2, <1>3, <1>4, <1>5

LEMMA OrderingKeeps ==
  ASSUME KeptInv, BridgeInv, SeenInv, NEW th \in Threads, Pipeline(th),
         shared \subseteq shared', \E t \in Trades : Entry(t) \in Exact \ shared
  PROVE  KeptInv'
<1> DEFINE e == Event(th)
<1>1. /\ \A u \in Threads : At(u, "blocked") => Event(u) \in blocked
      /\ Passes(th) /\ e \in Events /\ acked' = acked
  BY DEF KeptInv, Kept, Pipeline, Passes, At, BridgeInv, ServeShape, freqtradeVars
<1>2. /\ \A u \in Threads : u # th => serve'[u] = serve[u]
      /\ serve'[th] = NoServe
         \/ (serve'[th].pc \in {"blocked", "reply"} /\ Event(th)' = e)
  <2>1. serve \in [Threads -> [pc : {"idle", "check", "blocked", "reply"},
                              event : Events \cup {NoEvent}]]
    BY DEF BridgeInv, ServeShape
  <2>2. CASE Reply(th)
    BY <2>1, <2>2 DEF Reply
  <2>3. ASSUME NEW pc \in {"blocked", "reply"}, Move(th, pc)
        PROVE  /\ \A u \in Threads : u # th => serve'[u] = serve[u]
               /\ serve'[th].pc = pc /\ Event(th)' = e
    BY <2>1, <2>3 DEF Move, Event
  <2>4. Reply(th) \/ Move(th, "blocked") \/ Move(th, "reply")
    BY DEF Pipeline
  <2>5. CASE Move(th, "blocked")
    BY <2>3, <2>5
  <2>6. CASE Move(th, "reply")
    BY <2>3, <2>6
  <2>7. QED
    BY <2>2, <2>4, <2>5, <2>6
<1>3. CASE blocked' = blocked \cup {e} /\ UNCHANGED <<exchangeVars, refused>>
  <2>1. \A t \in Trades : Told(t)' => Told(t) \/ Excused(t)'
    BY <1>1, <1>2, <1>3 DEF Told, Excused, At, Event, NoServe
  <2>2. \A u \in Threads : At(u, "blocked")' => Event(u)' \in blocked'
    BY <1>1, <1>2, <1>3 DEF At, Event, NoServe
  <2>3. QED
    BY <1>3, <2>1, <2>2, CalmKeeps
<1>4. CASE ~(blocked' = blocked \cup {e} /\ UNCHANGED <<exchangeVars, refused>>)
  <2>1. /\ blocked' = blocked /\ refused \subseteq refused'
        /\ \A u \in Threads : At(u, "blocked")' => Event(u)' \in blocked'
    BY <1>1, <1>2, <1>4
       DEF Pipeline, Move, Reply, NoServe, At, Event, BridgeInv, ServeShape, notedVars
  <2>2. CASE UNCHANGED exchangeVars
    <3>1. serve'[th] = NoServe \/ e \in refused'
      <4>1. ~TakesEffect(e)
        BY <1>1, <2>2 DEF TakesEffect, exchangeVars, BridgeInv, ServeShape
      <4>2. Reply(th) => serve'[th] = NoServe
        BY DEF Reply, BridgeInv, ServeShape
      <4>3. QED
        BY <1>4, <2>2, <4>1, <4>2 DEF Pipeline
    <3>2. \A t \in Trades : Told(t)' => Told(t) \/ Excused(t)'
      BY <1>1, <1>2, <3>1 DEF Told, Excused, At, Event, NoServe
    <3>3. QED
      BY <2>1, <2>2, <3>2, CalmKeeps
  <2>3. CASE TakesEffect(e)
    <3> SUFFICES ASSUME NEW t \in Trades, Entry(t) \in Exact \ shared' PROVE Kept(t)'
      BY DEF KeptInv
    <3>1. Entry(t) \in Exact \ shared /\ Kept(t) /\ Single(Entry(t)) /\ Entry(t) \in Events
      BY BridgeAssumption DEF KeptInv, BridgeInv, Exact
    <3>2. /\ \A x \in Events : orders'[x] = IF x = e THEN orders[x] + 1 ELSE orders[x]
          /\ \A x \in Events : orders[x] \in Nat
          /\ reduced \subseteq reduced'
      BY <1>1, <2>3 DEF TakesEffect, BridgeInv, ServeShape
    <3>3. CASE e = Entry(t)
      <4>1. orders[e] = 0 /\ ~Gone(t) /\ Exit(t) # e
        BY <1>1, <3>1, <3>3 DEF Single, Gone, Entry, Exit
      <4>2. orders'[Entry(t)] # 0
        BY <3>1, <3>2, <3>3, <4>1
      <4>3. Told(t)' => Told(t)
        BY <1>1, <1>2, <4>1 DEF Told, At, Event, NoServe
      <4>4. Told(t)' => Excused(t)'
        BY <2>1, <3>1, <3>2, <4>1, <4>3 DEF Kept, Excused
      <4>5. QED
        BY <2>1, <4>2, <4>4 DEF Kept
    <3>4. CASE e = Exit(t)
      <4>1. t \in holds /\ orders[Entry(t)] # 0 /\ e.action = "CLOSE" /\ e.trade = t
        BY <2>3, <3>1, <3>4 DEF TakesEffect, Accepts, Exit, Kept
      <4>2. orders'[Entry(t)] # 0
        BY <3>1, <3>2, <4>1
      <4>3. t \notin holds' \/ e \in reduced'
        BY <2>3, <4>1 DEF TakesEffect
      <4>4. Gone(t)' \/ Excused(t)'
        BY <3>4, <4>2, <4>3 DEF Gone, Excused
      <4>5. QED
        BY <2>1, <4>2, <4>4 DEF Kept
    <3>5. CASE e # Entry(t) /\ e # Exit(t)
      <4>1. e.trade # t
        BY <1>1, <3>5 DEF Events, Entry, Exit
      <4>2. (t \in holds' <=> t \in holds) /\ orders'[Entry(t)] = orders[Entry(t)]
        BY <2>3, <3>1, <3>2, <3>5, <4>1 DEF TakesEffect
      <4>3. Told(t)' => Told(t)
        BY <1>1, <1>2, <3>5 DEF Told, At, Event, NoServe
      <4>4. QED
        BY <2>1, <3>1, <3>2, <4>2, <4>3 DEF Kept, Gone, Excused
    <3>6. QED
      BY <3>3, <3>4, <3>5
  <2>4. QED
    BY <1>4, <2>2, <2>3 DEF Pipeline, exchangeVars
<1>5. QED
  BY <1>3, <1>4

LEMMA KeptStep ==
  ASSUME KeptInv, BridgeInv, SeenInv, [Next]_vars
  PROVE  KeptInv'
<1>0. shared \subseteq shared'
  BY BridgeSeen, SharedGrows
<1> SUFFICES ASSUME \E t \in Trades : Entry(t) \in Exact \ shared PROVE KeptInv'
  BY <1>0 DEF KeptInv
<1>1. \A u \in Threads : At(u, "blocked") => Event(u) \in blocked
  BY DEF KeptInv, Kept
<1>2. ASSUME NEW t \in Trades, EnterTrade(t) \/ ExitTrade(t) PROVE KeptInv'
  BY <1>0, <1>1, <1>2, CalmKeeps DEF EnterTrade, ExitTrade, notedVars, Told, At, Event
<1>3. ASSUME NEW th \in Threads, NEW e \in Events, Receive(th, e) PROVE KeptInv'
  <2>1. \A u \in Threads : serve'[u] = serve[u] \/ serve'[u].pc = "check"
    BY <1>3 DEF Receive, BridgeInv, ServeShape
  <2>2. QED
    BY <1>0, <1>1, <1>3, <2>1, CalmKeeps DEF Receive, notedVars, Told, At, Event
<1>4. CASE Restart
  BY <1>0, <1>4, CalmKeeps DEF Restart, freqtradeVars, Told, At, Event, NoServe
<1>5. CASE UNCHANGED vars
  BY <1>0, <1>1, <1>5, CalmKeeps DEF vars, freqtradeVars, notedVars, Told, At, Event
<1>6. QED
  BY <1>0, <1>2, <1>3, <1>4, <1>5, CheckingKeeps, OrderingKeeps DEF Next, ThreadStep

(* An exit that was answered leaves nothing of its trade behind, unless it *)
(* was blocked (main.py:477-519), refused, or sized below the position by  *)
(* what the caps had left (proposal_service.py:25-33), for any trades and  *)
(* threads.                                                                *)
THEOREM NothingStranded == Spec => []NoStrandedPosition
<1>1. KeptInv => NoStrandedPosition
  BY DEF KeptInv, Kept, Told, Excused, Gone, NoStrandedPosition
<1>2. QED
  BY <1>1, KeptInitially, KeptStep, BridgeInitInv, BridgeStep, BridgeUsesSeenFile,
     SeenInvariant, PTL DEF Spec

-----------------------------------------------------------------------------
\* Whatever is served or was blocked is in freqtrade's book.
Booked ==
  /\ book \in [Trades -> {"none", "open", "closed"}]
  /\ blocked \subseteq Events
  /\ \A th \in Threads : ~At(th, "idle") => book[Event(th).trade] # "none"
  /\ \A e \in blocked : book[e.trade] # "none"

\* A phantom has a thread that is about to reconcile it.
Pending(t) ==
  book[t] = "open" /\ Entry(t) \in blocked \ failed
    => \E th \in Threads : At(th, "blocked") /\ Event(th) = Entry(t)

PhantomInv == Booked /\ \A t \in Trades \ Untagged : Pending(t)

LEMMA PhantomInitially == Init => PhantomInv
<1> SUFFICES ASSUME Init PROVE PhantomInv
  OBVIOUS
<1>1. Booked BY DEF Init, Booked, At, NoServe
<1>2. \A t \in Trades : Pending(t) BY DEF Init, Pending
<1>3. QED BY <1>1, <1>2 DEF PhantomInv

\* A thread that was not reconciling moves on.
LEMMA OtherThreadsReconcile ==
  ASSUME PhantomInv, ServeShape, NEW th \in Threads, ~At(th, "blocked"),
         \A u \in Threads : u # th => serve'[u] = serve[u],
         At(th, "idle")' \/ (Event(th)' = Event(th) /\ ~At(th, "idle")),
         UNCHANGED <<book, blocked, failed>>
  PROVE  PhantomInv'
<1>1. Booked'
  BY DEF PhantomInv, Booked, At, Event
<1>2. ASSUME NEW t \in Trades \ Untagged PROVE Pending(t)'
  BY DEF PhantomInv, Pending, At, Event
<1>3. QED BY <1>1, <1>2 DEF PhantomInv

LEMMA PhantomStep ==
  ASSUME ReconcileOnBlock, PhantomInv, ServeShape, [Next]_vars
  PROVE  PhantomInv'
<1>1. ASSUME NEW t \in Trades, EnterTrade(t) \/ ExitTrade(t) PROVE PhantomInv'
  <2>1. UNCHANGED <<serve, blocked, failed>> BY <1>1 DEF EnterTrade, ExitTrade, notedVars
  <2>2. \/ book' = [book EXCEPT ![t] = "open"] /\ book[t] = "none"
        \/ book' = [book EXCEPT ![t] = "closed"] /\ book[t] = "open"
    BY <1>1 DEF EnterTrade, ExitTrade
  <2>3. Booked'
    <3>1. /\ book' \in [Trades -> {"none", "open", "closed"}]
          /\ \A u \in Trades : book[u] # "none" => book'[u] # "none"
      BY <2>2 DEF PhantomInv, Booked
    <3>2. \A u \in Threads : ~At(u, "idle") => Event(u).trade \in Trades
      BY DEF ServeShape, Events
    <3>3. \A e \in blocked : e.trade \in Trades BY DEF PhantomInv, Booked, Events
    <3> QED BY <2>1, <3>1, <3>2, <3>3 DEF PhantomInv, Booked, At, Event
  <2>4. ASSUME NEW u \in Trades \ Untagged PROVE Pending(u)'
    <3>1. CASE u # t
      BY <2>1, <2>2, <3>1 DEF PhantomInv, Booked, Pending, At, Event
    <3>2. CASE u = t /\ book[t] = "none"
      <4>1. Entry(t) \notin blocked BY <3>2 DEF PhantomInv, Booked, Entry
      <4> QED BY <2>1, <3>2, <4>1 DEF Pending, Entry
    <3>3. CASE u = t /\ book[t] = "open"
      BY <2>2, <3>3 DEF PhantomInv, Booked, Pending
    <3> QED BY <2>2, <3>1, <3>2, <3>3
  <2> QED BY <2>3, <2>4 DEF PhantomInv
<1>2. ASSUME NEW th \in Threads, NEW e \in Events, Receive(th, e) PROVE PhantomInv'
  <2>1. UNCHANGED <<book, blocked, failed>> /\ At(th, "idle") /\ book[e.trade] # "none"
    BY <1>2 DEF Receive, notedVars, Due, Events
  <2>2. CASE serve' = serve
    BY <2>1, <2>2 DEF PhantomInv, Booked, Pending, At, Event
  <2>3. CASE serve' = [serve EXCEPT ![th] = [pc |-> "check", event |-> e]]
    <3>1. /\ serve'[th] = [pc |-> "check", event |-> e]
          /\ \A u \in Threads : u # th => serve'[u] = serve[u]
      BY <2>3 DEF ServeShape
    <3>2. Booked' BY <2>1, <3>1 DEF PhantomInv, Booked, At, Event
    <3>3. ASSUME NEW t \in Trades \ Untagged PROVE Pending(t)'
      BY <2>1, <3>1 DEF PhantomInv, Pending, At, Event
    <3> QED BY <3>2, <3>3 DEF PhantomInv
  <2> QED BY <1>2, <2>2, <2>3 DEF Receive
<1>3. ASSUME NEW th \in Threads, CheckDuplicate(th) \/ Refuse(th) \/ Answer(th) PROVE PhantomInv'
  <2>1. /\ UNCHANGED <<book, blocked, failed>> /\ ~At(th, "blocked")
        /\ serve' = serve \/ serve' = [serve EXCEPT ![th] = NoServe]
    BY <1>3 DEF CheckDuplicate, Refuse, Answer, Reply, At, freqtradeVars, notedVars
  <2>2. CASE serve' = serve
    BY <2>1, <2>2 DEF PhantomInv, Booked, Pending, At, Event
  <2>3. CASE serve' = [serve EXCEPT ![th] = NoServe]
    <3>1. /\ At(th, "idle")' /\ \A u \in Threads : u # th => serve'[u] = serve[u]
      BY <2>3 DEF ServeShape, At, NoServe
    <3> QED BY <2>1, <3>1, OtherThreadsReconcile
  <2> QED BY <2>1, <2>2, <2>3
<1>4. ASSUME NEW th \in Threads, Pipeline(th) PROVE PhantomInv'
  <2>1. /\ UNCHANGED book /\ At(th, "check") /\ Event(th) \in Events
    BY <1>4 DEF Pipeline, freqtradeVars, ServeShape, At
  <2>2. CASE blocked' = blocked \cup {Event(th)} /\ UNCHANGED failed /\ Move(th, "blocked")
    <3>1. /\ At(th, "blocked")' /\ Event(th)' = Event(th)
          /\ \A u \in Threads : u # th => serve'[u] = serve[u]
      BY <2>2 DEF ServeShape, Move, At, Event
    <3>2. Booked' BY <2>1, <2>2, <3>1 DEF PhantomInv, Booked, At, Event
    <3>3. ASSUME NEW t \in Trades \ Untagged PROVE Pending(t)'
      <4>1. CASE Event(th) = Entry(t) BY <3>1, <4>1 DEF Pending, Entry
      <4>2. CASE Event(th) # Entry(t)
        BY <2>1, <2>2, <3>1, <4>2 DEF PhantomInv, Pending, Entry, At, Event
      <4> QED BY <4>1, <4>2
    <3> QED BY <3>2, <3>3 DEF PhantomInv
  <2>3. CASE UNCHANGED <<blocked, failed>> /\ Move(th, "reply")
    <3>1. /\ ~At(th, "blocked") /\ Event(th)' = Event(th) /\ ~At(th, "idle")
          /\ \A u \in Threads : u # th => serve'[u] = serve[u]
      BY <2>1, <2>3 DEF ServeShape, Move, At, Event
    <3> QED BY <2>1, <2>3, <3>1, OtherThreadsReconcile
  <2>4. CASE UNCHANGED <<blocked, failed>> /\ Reply(th)
    <3>1. /\ ~At(th, "blocked") /\ At(th, "idle")'
          /\ \A u \in Threads : u # th => serve'[u] = serve[u]
      BY <2>1, <2>4 DEF ServeShape, Reply, NoServe, At
    <3> QED BY <2>1, <2>4, <3>1, OtherThreadsReconcile
  <2>5. CASE /\ blocked' = blocked \cup {Event(th)}
             /\ failed' = failed \cup {Event(th)} /\ Reply(th)
    <3>1. /\ ~At(th, "blocked") /\ At(th, "idle")'
          /\ \A u \in Threads : u # th => serve'[u] = serve[u]
      BY <2>1, <2>5 DEF ServeShape, Reply, NoServe, At
    <3>2. Booked' BY <2>1, <2>5, <3>1 DEF PhantomInv, Booked, At, Event
    <3>3. ASSUME NEW t \in Trades \ Untagged PROVE Pending(t)'
      BY <2>1, <2>5, <3>1 DEF PhantomInv, Pending, At, Event
    <3> QED BY <3>2, <3>3 DEF PhantomInv
  <2> QED BY <1>4, <2>2, <2>3, <2>4, <2>5 DEF Pipeline, notedVars
<1>5. ASSUME NEW th \in Threads, Reconcile(th) PROVE PhantomInv'
  <2> DEFINE t == Event(th).trade
  <2>1. /\ At(th, "blocked") /\ blocked' = blocked /\ Event(th) \in Events /\ t \in Trades
        /\ serve' = [serve EXCEPT ![th].pc = "reply"]
    BY <1>5 DEF Reconcile, Move, ServeShape, At, Events
  <2>2. /\ Event(th)' = Event(th) /\ At(th, "reply")'
        /\ \A u \in Threads : u # th => serve'[u] = serve[u]
    BY <2>1 DEF ServeShape, At, Event
  <2>3. \/ book' = [book EXCEPT ![t] = IF @ = "open" THEN "closed" ELSE @] /\ failed' = failed
        \/ book' = book /\ failed' = failed \cup {Event(th)}
        \/ book' = book /\ failed' = failed /\ t \in Untagged
    BY <1>5 DEF Reconcile, ForceExits
  <2>4. Booked'
    <3>1. /\ book' \in [Trades -> {"none", "open", "closed"}]
          /\ \A u \in Trades : book[u] # "none" => book'[u] # "none"
      BY <2>1, <2>3 DEF PhantomInv, Booked
    <3>2. \A u \in Threads : ~At(u, "idle") => Event(u).trade \in Trades
      BY DEF ServeShape, Events
    <3>3. \A e \in blocked : e.trade \in Trades BY DEF PhantomInv, Booked, Events
    <3> QED BY <2>1, <2>2, <3>1, <3>2, <3>3 DEF PhantomInv, Booked, At, Event
  <2>5. ASSUME NEW u \in Trades \ Untagged, book'[u] = "open", Entry(u) \in blocked \ failed'
        PROVE  \E v \in Threads : At(v, "blocked")' /\ Event(v)' = Entry(u)
    <3>1. book[u] = "open" /\ Entry(u) \in blocked \ failed
      BY <2>1, <2>3, <2>5 DEF PhantomInv, Booked
    <3>2. PICK v \in Threads : At(v, "blocked") /\ Event(v) = Entry(u)
      BY <3>1 DEF PhantomInv, Pending
    <3>3. v # th
      <4> SUFFICES ASSUME v = th PROVE FALSE
        OBVIOUS
      <4>1. t = u BY <3>2 DEF Entry
      <4> QED BY <2>1, <2>3, <2>5, <3>2, <4>1 DEF PhantomInv, Booked
    <3> QED BY <2>2, <3>2, <3>3 DEF At, Event
  <2> QED BY <2>1, <2>4, <2>5 DEF PhantomInv, Pending, Entry
<1>6. CASE Restart
  <2>1. /\ UNCHANGED <<book, blocked>> /\ serve' = [th \in Threads |-> NoServe]
        /\ failed' = failed \cup {Event(th) : th \in {u \in Threads : At(u, "blocked")}}
    BY <1>6 DEF Restart, freqtradeVars
  <2>2. Booked' BY <2>1 DEF PhantomInv, Booked, At, NoServe
  <2>3. ASSUME NEW t \in Trades \ Untagged PROVE Pending(t)'
    BY <2>1 DEF PhantomInv, Pending, Entry
  <2> QED BY <2>2, <2>3 DEF PhantomInv
<1>7. CASE UNCHANGED vars
  BY <1>7 DEF vars, freqtradeVars, notedVars, PhantomInv, Booked, Pending, At, Event
<1>8. QED
  BY <1>1, <1>2, <1>3, <1>4, <1>5, <1>6, <1>7 DEF Next, ThreadStep

(* With FREQTRADE_RECONCILE_ON_BLOCK: a trade whose entry was blocked does *)
(* not stay in freqtrade's book (README.md:202-214), for any trades,       *)
(* threads and retries that overlap; except when forceexit fails, or a     *)
(* crash or a raising audit append comes before it.                        *)
THEOREM PhantomsPass == ReconcileOnBlock => (Spec => []NoLastingPhantom)
<1> SUFFICES ASSUME ReconcileOnBlock PROVE Spec => []NoLastingPhantom
  OBVIOUS
<1>1. BridgeInv => ServeShape BY DEF BridgeInv
<1>2. PhantomInv => NoLastingPhantom
  BY DEF PhantomInv, Pending, NoLastingPhantom, Serving, At
<1>3. PhantomInv /\ BridgeInv /\ [Next]_vars => PhantomInv'
  BY <1>1, PhantomStep
<1>4. QED
  BY <1>2, <1>3, PhantomInitially, BridgeInitInv, BridgeStep, BridgeUsesSeenFile,
     SeenInvariant, PTL DEF Spec
=============================================================================
