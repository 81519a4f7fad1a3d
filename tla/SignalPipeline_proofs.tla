----------------------- MODULE SignalPipeline_proofs -----------------------
(***************************************************************************)
(* The pipeline for any workers, requests, symbols, limits and faults: the *)
(* standing halt first, then orders and idempotency checks (no order       *)
(* without a passed check of its own), leverage, who is told of orders, the*)
(* limit on the day's loss and the cap on the account's exposure.          *)
(***************************************************************************)
EXTENDS SignalPipeline, Files_proofs, DataLemmas, FiniteSetTheorems, SequenceTheorems

\* Local states a halted request must not be in.
Barred == Ordering \cup {"reconcile"}

\* The local states are records with a program counter.
JobShape ==
  /\ job = [w \in Workers |-> job[w]]
  /\ \A w \in Workers : "pc" \in DOMAIN job[w]
  /\ began = [w \in Workers |-> began[w]]
  /\ \A w \in Workers : "halted" \in DOMAIN began[w]

\* A request that began under a standing halt: the halt still stands, since
\* any touch of the switch clears the note, and it has not been approved.
HaltInv ==
  \A w \in Workers : began[w].halted => StandingHalt /\ job[w].pc \notin Barred

PipelineInv == JobShape /\ ControlInv /\ HaltInv

LEMMA PipelineInitInv == PipelineInit => PipelineInv
<1> SUFFICES ASSUME PipelineInit PROVE PipelineInv
  OBVIOUS
<1>1. ControlInv
  BY ControlInitInv DEF PipelineInit
<1>2. JobShape /\ HaltInv
  BY DEF PipelineInit, NoJob, Fresh, JobShape, HaltInv
<1>3. QED
  BY <1>1, <1>2 DEF PipelineInv

(* Limits with a standing switch approve nothing (main.py:29-41).          *)
LEMMA HaltedRefuses ==
  ASSUME NEW p, NEW a, NEW allow
  PROVE  ~ Approved(p, a, ApplyControlState(Limits, TRUE), allow)
BY DEF Approved, ApplyControlState

(* While the halt stands, a request that is decided is refused: the file   *)
(* reads as halted, or reading it raises.                                  *)
LEMMA DecideRefuses ==
  ASSUME PipelineInv, NEW w \in Workers, Decide(w), StandingHalt
  PROVE  job'[w].pc \notin Barred
<1>1. ReadControlState \in {"halted", "raises"}
  BY InvSettles DEF PipelineInv, SettledFileAgrees, ReadControlState
<1>2. CASE ReadControlState = "raises"
  BY <1>2 DEF Decide, Raise, Finish, NoJob, PipelineInv, JobShape, Barred, Ordering
<1>3. CASE ReadControlState = "halted"
  <2>1. ~ Approved(Proposal(w), job[w].acct, EffectiveLimits, AllowedSymbols)
    BY <1>3, HaltedRefuses DEF EffectiveLimits
  <2>2. job' = [job EXCEPT ![w].prop = Proposal(w), ![w].pc = "audit", ![w].status = "blocked"]
    BY <1>3, <2>1 DEF Decide
  <2>3. job'[w].pc = "audit"
    BY <2>2 DEF PipelineInv, JobShape
  <2>4. QED
    BY <2>3 DEF Barred, Ordering
<1>4. QED
  BY <1>1, <1>2, <1>3

-----------------------------------------------------------------------------
(* The steps of the handlers. *)

\* What every step of the handler of w has in common: it leaves the switch
\* and the other handlers alone, and only Decide takes it into Barred.
Moved(w) ==
  /\ UNCHANGED controlVars
  /\ job' = [job EXCEPT ![w] = job'[w]]
  /\ "pc" \in DOMAIN job'[w]
  /\ \/ began' = began
     \/ began' = [began EXCEPT ![w] = Fresh]
     \/ began' = [began EXCEPT ![w].breached = FALSE]
  /\ job'[w].pc \in Barred => job[w].pc \in Barred \/ Decide(w)

LEMMA RaiseMoves ==
  ASSUME JobShape, NEW w \in Workers, Raise(w)
  PROVE  Moved(w)
BY DEF JobShape, Raise, Finish, NoJob, Moved, Barred, Ordering

LEMMA CheckMoves ==
  ASSUME JobShape, NEW w \in Workers, CheckDuplicate(w) \/ RefuseDuplicate(w) \/ Parse(w)
  PROVE  Moved(w)
<1>1. CASE CheckDuplicate(w)
  BY <1>1 DEF JobShape, CheckDuplicate, pipelineVars, Moved
<1>2. CASE RefuseDuplicate(w)
  BY <1>2, RaiseMoves DEF RefuseDuplicate
<1>3. CASE Parse(w)
  <2>1. CASE job[w].req.valid
    BY <1>3, <2>1 DEF JobShape, Parse, Move, LocalOnly, Moved, Barred, Ordering
  <2>2. CASE ~job[w].req.valid
    BY <1>3, <2>2, RaiseMoves DEF Parse
  <2>3. QED
    BY <2>1, <2>2
<1>4. QED
  BY <1>1, <1>2, <1>3

LEMMA SyncMoves ==
  ASSUME JobShape, NEW w \in Workers, SyncBalance(w) \/ SyncPositions(w) \/ SyncBills(w)
  PROVE  Moved(w)
<1>1. CASE CallRaises(w)
  BY <1>1, RaiseMoves DEF CallRaises
<1>2. CASE SyncBalance(w) /\ ~CallRaises(w)
  BY <1>2 DEF JobShape, SyncBalance, LocalOnly, Moved, Barred, Ordering
<1>3. CASE SyncPositions(w) /\ ~CallRaises(w)
  BY <1>3 DEF JobShape, SyncPositions, LocalOnly, Moved, Barred, Ordering
<1>4. CASE SyncBills(w) /\ ~CallRaises(w)
  BY <1>4 DEF JobShape, SyncBills, LocalOnly, Moved, Barred, Ordering
<1>5. QED
  BY <1>1, <1>2, <1>3, <1>4

LEMMA DecideMoves ==
  ASSUME JobShape, NEW w \in Workers, Decide(w)
  PROVE  Moved(w)
<1>1. CASE ReadControlState = "raises"
  BY <1>1, RaiseMoves DEF Decide
<1>2. CASE ReadControlState # "raises"
  BY <1>2 DEF JobShape, Decide, LocalOnly, Moved
<1>3. QED
  BY <1>1, <1>2

LEMMA OrderMoves ==
  ASSUME JobShape, NEW w \in Workers,
         SizeOrder(w) \/ SetLeverage(w) \/ PlaceOrder(w) \/ Reconcile(w)
  PROVE  Moved(w)
<1> USE DEF JobShape, At, Barred, Ordering
<1>1. CASE Raise(w)
  BY <1>1, RaiseMoves
<1>2. CASE SizeOrder(w) /\ ~Raise(w)
  BY <1>2 DEF SizeOrder, CallRaises, LocalOnly, Moved
<1>3. CASE SetLeverage(w) /\ ~Raise(w)
  BY <1>3 DEF SetLeverage, CallRaises, Move, LocalOnly, Finish, NoJob, Moved
<1>4. CASE PlaceOrder(w) /\ ~Raise(w)
  <2>1. ASSUME NEW next \in {"reconcile", "audit"}, Answered(w, next),
               UNCHANGED <<controlVars, began>>, At(w, "place")
        PROVE  Moved(w)
    BY <2>1 DEF Answered, Moved
  <2>2. CASE Finish(w) /\ UNCHANGED controlVars
    BY <2>2 DEF Finish, NoJob, Moved
  <2>3. QED
    BY <1>4, <2>1, <2>2 DEF PlaceOrder, CallRaises, LocalOnly
<1>5. CASE Reconcile(w) /\ ~Raise(w)
  BY <1>5 DEF Reconcile, Move, LocalOnly, Finish, NoJob, Moved
<1>6. QED
  BY <1>1, <1>2, <1>3, <1>4, <1>5

LEMMA AuditMoves ==
  ASSUME JobShape, NEW w \in Workers, Audit(w)
  PROVE  Moved(w)
BY DEF JobShape, Audit, Finish, NoJob, Moved, Barred, Ordering

LEMMA HandlerKeepsInv ==
  ASSUME PipelineInv, NEW w \in Workers, HandlerStep(w)
  PROVE  PipelineInv'
<1>1. Moved(w)
  BY CheckMoves, SyncMoves, DecideMoves, OrderMoves, AuditMoves DEF PipelineInv, HandlerStep
<1>2. ControlInv' /\ (StandingHalt' <=> StandingHalt)
  BY <1>1 DEF Moved, controlVars, PipelineInv, ControlInv, ControlTypeOK, Idle, StandingHalt
<1>3. JobShape'
  BY <1>1 DEF Moved, PipelineInv, JobShape, Fresh
<1>4. HaltInv'
  <2> SUFFICES ASSUME NEW v \in Workers, began'[v].halted
               PROVE  StandingHalt' /\ job'[v].pc \notin Barred
    BY DEF HaltInv
  <2>1. began[v].halted
    BY <1>1 DEF Moved, PipelineInv, JobShape, Fresh
  <2>2. StandingHalt /\ job[v].pc \notin Barred
    BY <2>1 DEF PipelineInv, HaltInv
  <2>3. CASE v = w
    BY <1>1, <1>2, <2>2, <2>3, DecideRefuses DEF Moved
  <2>4. CASE v # w
    BY <1>1, <1>2, <2>2, <2>4 DEF Moved, PipelineInv, JobShape
  <2>5. QED
    BY <2>3, <2>4
<1>5. QED
  BY <1>2, <1>3, <1>4 DEF PipelineInv

-----------------------------------------------------------------------------
(* The steps around them. *)

LEMMA ReceiveKeepsInv ==
  ASSUME PipelineInv, NEW w \in Workers, NEW r \in Requests, Receive(w, r)
  PROVE  PipelineInv'
<1>1. ControlInv' /\ (StandingHalt' <=> StandingHalt)
  BY DEF Receive, controlVars, PipelineInv, ControlInv, ControlTypeOK, Idle, StandingHalt
<1>2. JobShape' /\ job'[w].pc = "check" /\ began'[w].halted = StandingHalt
  BY DEF Receive, PipelineInv, JobShape, NoJob
<1>3. \A v \in Workers : v # w => job'[v] = job[v] /\ began'[v] = began[v]
  BY DEF Receive, PipelineInv, JobShape
<1>4. HaltInv'
  BY <1>1, <1>2, <1>3 DEF PipelineInv, HaltInv, Barred, Ordering
<1>5. QED
  BY <1>1, <1>2, <1>4 DEF PipelineInv

LEMMA SwitchKeepsInv ==
  ASSUME PipelineInv, NEW v \in Writers,
         (\E t \in Commands : SwitchBegins(v, t)) \/ SwitchWrites(v)
  PROVE  PipelineInv'
<1>1. ASSUME NEW t \in Commands, SwitchBegins(v, t) PROVE PipelineInv'
  <2>1. ControlInv'
    BY <1>1, OpenKeepsInv DEF SwitchBegins, PipelineInv
  <2>2. JobShape' /\ \A w \in Workers : began'[w].halted = FALSE
    BY <1>1 DEF SwitchBegins, PipelineInv, JobShape
  <2>3. QED
    BY <2>1, <2>2 DEF PipelineInv, HaltInv
<1>2. CASE SwitchWrites(v)
  <2>1. ControlInv'
    BY <1>2, CloseKeepsInv DEF SwitchWrites, PipelineInv
  <2>2. ~StandingHalt
    BY <1>2 DEF SwitchWrites, CloseWrite, StandingHalt, Idle
  <2>3. QED
    BY <1>2, <2>1, <2>2 DEF SwitchWrites, pipelineVars, PipelineInv, JobShape, HaltInv
<1>3. QED
  BY <1>1, <1>2

LEMMA CrashKeepsPipelineInv ==
  ASSUME PipelineInv, Crash
  PROVE  PipelineInv'
<1>1. ControlInv'
  BY CrashKeepsInv DEF Crash, PipelineInv
<1>2. JobShape' /\ HaltInv'
  BY DEF Crash, NoJob, Fresh, JobShape, HaltInv
<1>3. QED
  BY <1>1, <1>2 DEF PipelineInv

LEMMA PipelineStep ==
  ASSUME PipelineInv, [Next]_vars
  PROVE  PipelineInv'
<1>1. ASSUME NEW s \in Symbols, StopTriggers(s) PROVE PipelineInv'
  BY <1>1 DEF StopTriggers, controlVars, PipelineInv, JobShape, ControlInv, ControlTypeOK,
              Idle, HaltInv, StandingHalt
<1>2. CASE UNCHANGED vars
  BY <1>2 DEF vars, pipelineVars, controlVars, PipelineInv, JobShape, ControlInv, ControlTypeOK,
              Idle, HaltInv, StandingHalt
<1>3. QED
  BY <1>1, <1>2, ReceiveKeepsInv, HandlerKeepsInv, SwitchKeepsInv, CrashKeepsPipelineInv
     DEF Next, Step

(* For any number of threads, requests, symbols and faults: a request that  *)
(* arrives while a completed halt stands never gets to the exchange, what-  *)
(* ever the other requests, failed calls, and restarts do meanwhile.        *)
THEOREM HaltBars == Spec => []StandingHaltBars
<1>1. PipelineInv => StandingHaltBars
  BY DEF PipelineInv, HaltInv, StandingHaltBars, Barred
<1>2. QED
  BY <1>1, PipelineInitInv, PipelineStep, PTL DEF Spec

-----------------------------------------------------------------------------
(* Orders and idempotency checks. *)

\* Local states between the check and the order.
Early == {"check", "balance", "positions", "bills", "risk"} \cup Ordering

\* The request of w has passed the check and may still become an order.
Waits(w) == call[w].pc = "passed" /\ job[w].pc \in Early
Waiting(k) == {w \in Workers : call[w].key = k /\ Waits(w)}

\* A request and the check made for it.
Linked(w) ==
  /\ {"pc", "req"} \subseteq DOMAIN job[w]
  /\ job[w].req.id \in Keys \cup {NoKey}
  /\ job[w].pc = "idle" => call[w].pc = "idle"
  /\ job[w].pc # "idle" => call[w].key = job[w].req.id
  /\ job[w].pc \notin {"idle", "check"} => call[w].pc = "passed"
  /\ call[w].pc \in {"append", "passed"} => call[w].key \in Keys

Shape ==
  /\ job = [w \in Workers |-> job[w]]
  /\ call = [w \in Workers |-> call[w]]
  /\ \A w \in Workers : DOMAIN call[w] = {"pc", "key"} /\ Linked(w)
  /\ orders \in [Keys -> Nat] /\ grants \in [Keys -> Nat]

\* The strengthening: the requests on their way are counted with the orders.
Backed == \A k \in Keys : orders[k] + Cardinality(Waiting(k)) <= grants[k]

BackedInv == Shape /\ Backed

-----------------------------------------------------------------------------
(* What a step may do to the books. *)

Only(w) ==
  /\ job' = [job EXCEPT ![w] = job'[w]]
  /\ call' = [call EXCEPT ![w] = call'[w]]
  /\ DOMAIN call'[w] = {"pc", "key"}
  /\ Linked(w)'

\* Nothing is granted or ordered, and nobody begins to wait.
Quiet(w) ==
  /\ Only(w) /\ UNCHANGED <<orders, grants>>
  /\ Waits(w)' => Waits(w) /\ call'[w].key = call[w].key

\* The check passes.
Granted(w) ==
  /\ Only(w) /\ orders' = orders
  /\ ~Waits(w)
  /\ call'[w].key \in Keys
  /\ grants' = [grants EXCEPT ![call'[w].key] = @ + 1]

\* The order takes effect.
Sent(w) ==
  /\ Only(w) /\ grants' = grants
  /\ Waits(w) /\ ~Waits(w)'
  /\ orders' = [orders EXCEPT ![call[w].key] = @ + 1]

LEMMA WaitingFinite ==
  ASSUME NEW S \in SUBSET Workers
  PROVE  IsFiniteSet(S) /\ Cardinality(S) \in Nat
BY PipelineAssumption, FS_Subset, FS_CardinalityType DEF Workers

LEMMA OnlyKeepsShape ==
  ASSUME Shape, NEW w \in Workers, Only(w),
         orders' \in [Keys -> Nat], grants' \in [Keys -> Nat]
  PROVE  Shape'
BY DEF Shape, Only, Linked

LEMMA OthersWait ==
  ASSUME Shape, NEW w \in Workers, Only(w), NEW v \in Workers, v # w
  PROVE  (Waits(v)' <=> Waits(v)) /\ call'[v] = call[v]
BY DEF Shape, Only, Waits

LEMMA QuietKeepsInv ==
  ASSUME BackedInv, NEW w \in Workers, Quiet(w)
  PROVE  BackedInv'
<1>1. Shape'
  BY OnlyKeepsShape DEF BackedInv, Shape, Quiet
<1>2. ASSUME NEW k \in Keys
      PROVE  orders'[k] + Cardinality(Waiting(k)') <= grants'[k]
  <2>1. Waiting(k)' \subseteq Waiting(k)
    BY OthersWait DEF Quiet, Waiting, BackedInv
  <2>2. Cardinality(Waiting(k)') <= Cardinality(Waiting(k))
    BY <2>1, FS_Subset, WaitingFinite DEF Waiting
  <2>3. /\ Cardinality(Waiting(k)) \in Nat /\ Cardinality(Waiting(k)') \in Nat
        /\ orders[k] \in Nat /\ grants[k] \in Nat
    BY WaitingFinite DEF Waiting, BackedInv, Shape
  <2>4. QED
    BY <2>2, <2>3 DEF BackedInv, Backed, Quiet
<1>3. QED
  BY <1>1, <1>2 DEF BackedInv, Backed

LEMMA GrantedKeepsInv ==
  ASSUME BackedInv, NEW w \in Workers, Granted(w)
  PROVE  BackedInv'
<1>1. Shape'
  BY OnlyKeepsShape DEF BackedInv, Shape, Granted
<1>2. ASSUME NEW k \in Keys
      PROVE  orders'[k] + Cardinality(Waiting(k)') <= grants'[k]
  <2>1. /\ Cardinality(Waiting(k)) \in Nat /\ Cardinality(Waiting(k)') \in Nat
        /\ orders[k] \in Nat /\ grants[k] \in Nat
    BY WaitingFinite DEF Waiting, BackedInv, Shape
  <2>2. orders'[k] = orders[k] /\ orders[k] + Cardinality(Waiting(k)) <= grants[k]
    BY DEF Granted, BackedInv, Backed
  <2>3. CASE k = call'[w].key
    <3>1. Waiting(k)' \subseteq Waiting(k) \cup {w}
      BY OthersWait DEF Granted, Waiting, BackedInv
    <3>2. Cardinality(Waiting(k) \cup {w}) <= Cardinality(Waiting(k)) + 1
      <4>1. IsFiniteSet(Waiting(k))
        BY WaitingFinite DEF Waiting
      <4>2. Cardinality(Waiting(k) \cup {w}) \in {Cardinality(Waiting(k)), Cardinality(Waiting(k)) + 1}
        BY <4>1, FS_AddElement
      <4>3. QED
        BY <4>2, <2>1
    <3>3. Waiting(k) \cup {w} \in SUBSET Workers
      BY DEF Waiting
    <3>4. /\ Cardinality(Waiting(k)') <= Cardinality(Waiting(k) \cup {w})
          /\ Cardinality(Waiting(k) \cup {w}) \in Nat
      BY <3>1, <3>3, FS_Subset, WaitingFinite
    <3>5. grants'[k] = grants[k] + 1
      BY <2>3 DEF Granted, BackedInv, Shape
    <3>6. QED
      BY <2>1, <2>2, <3>2, <3>4, <3>5
  <2>4. CASE k # call'[w].key
    <3>1. Waiting(k)' \subseteq Waiting(k)
      BY <2>4, OthersWait DEF Granted, Waiting, BackedInv
    <3>2. Cardinality(Waiting(k)') <= Cardinality(Waiting(k))
      BY <3>1, FS_Subset, WaitingFinite DEF Waiting
    <3>3. grants'[k] = grants[k]
      BY <2>4 DEF Granted, BackedInv, Shape
    <3>4. QED
      BY <2>1, <2>2, <3>2, <3>3
  <2>5. QED
    BY <2>3, <2>4
<1>3. QED
  BY <1>1, <1>2 DEF BackedInv, Backed

LEMMA SentKeepsInv ==
  ASSUME BackedInv, NEW w \in Workers, Sent(w)
  PROVE  BackedInv'
<1>0. call[w].key \in Keys
  BY DEF Sent, Waits, BackedInv, Shape, Linked
<1>1. orders' \in [Keys -> Nat]
  BY <1>0 DEF Sent, BackedInv, Shape
<1>2. Shape'
  BY <1>1, OnlyKeepsShape DEF BackedInv, Shape, Sent
<1>3. ASSUME NEW k \in Keys
      PROVE  orders'[k] + Cardinality(Waiting(k)') <= grants'[k]
  <2>1. /\ Cardinality(Waiting(k)) \in Nat /\ Cardinality(Waiting(k)') \in Nat
        /\ orders[k] \in Nat /\ grants[k] \in Nat
    BY WaitingFinite DEF Waiting, BackedInv, Shape
  <2>2. grants'[k] = grants[k] /\ orders[k] + Cardinality(Waiting(k)) <= grants[k]
    BY DEF Sent, BackedInv, Backed
  <2>3. CASE k = call[w].key
    <3>1. w \in Waiting(k) /\ Waiting(k)' \subseteq Waiting(k) \ {w}
      BY <2>3, OthersWait DEF Sent, Waiting, BackedInv
    <3>2. Cardinality(Waiting(k) \ {w}) = Cardinality(Waiting(k)) - 1
      <4>1. IsFiniteSet(Waiting(k))
        BY WaitingFinite DEF Waiting
      <4>2. QED
        BY <4>1, <3>1, FS_RemoveElement
    <3>3. Waiting(k) \ {w} \in SUBSET Workers
      BY DEF Waiting
    <3>4. Cardinality(Waiting(k)') <= Cardinality(Waiting(k) \ {w})
      BY <3>1, <3>3, FS_Subset, WaitingFinite
    <3>5. orders'[k] = orders[k] + 1
      BY <2>3 DEF Sent, BackedInv, Shape
    <3>6. QED
      BY <2>1, <2>2, <3>2, <3>4, <3>5
  <2>4. CASE k # call[w].key
    <3>1. Waiting(k)' \subseteq Waiting(k)
      BY <2>4, OthersWait DEF Sent, Waiting, BackedInv
    <3>2. Cardinality(Waiting(k)') <= Cardinality(Waiting(k))
      BY <3>1, FS_Subset, WaitingFinite DEF Waiting
    <3>3. orders'[k] = orders[k]
      BY <2>4 DEF Sent, BackedInv, Shape
    <3>4. QED
      BY <2>1, <2>2, <3>2, <3>3
  <2>5. QED
    BY <2>3, <2>4
<1>4. QED
  BY <1>2, <1>3 DEF BackedInv, Backed

-----------------------------------------------------------------------------
(* What each action does to the books. *)

\* The local state of w moves on past the check, its request staying the same.
LEMMA StepOn ==
  ASSUME Shape, NEW w \in Workers, NEW new, job' = [job EXCEPT ![w] = new],
         {"pc", "req"} \subseteq DOMAIN new, new.req = job[w].req, new.pc \notin {"idle", "check"},
         call' = call, call[w].pc = "passed", job[w].pc # "idle"
  PROVE  Only(w)
BY DEF Shape, Only, Linked

LEMMA FinishEnds ==
  ASSUME Shape, NEW w \in Workers, Finish(w)
  PROVE  Only(w) /\ ~Waits(w)' /\ grants' = grants
BY DEF Shape, Only, Linked, Finish, EndCheck, NoCall, NoJob, NoRequest, Waits

LEMMA RaiseQuiet ==
  ASSUME Shape, NEW w \in Workers, Raise(w)
  PROVE  Quiet(w)
BY FinishEnds DEF Raise, Quiet

LEMMA ReceiveQuiet ==
  ASSUME Shape, NEW w \in Workers, NEW r \in Requests, Receive(w, r)
  PROVE  Quiet(w)
<1>1. /\ job'[w].pc = "check" /\ job'[w].req = r /\ {"pc", "req"} \subseteq DOMAIN job'[w]
      /\ job' = [job EXCEPT ![w] = job'[w]]
  BY DEF Shape, Receive, NoJob
<1>2. /\ call'[w] = [pc |-> "read", key |-> r.id]
      /\ call' = [call EXCEPT ![w] = call'[w]] /\ grants' = grants
  BY DEF Shape, Receive, BeginCheck, Workers
<1>3. QED
  BY <1>1, <1>2, PipelineAssumption, SMTT(20) DEF Receive, Quiet, Only, Linked, Waits

LEMMA CheckBooks ==
  ASSUME Shape, NEW w \in Workers, CheckDuplicate(w)
  PROVE  Quiet(w) \/ Granted(w)
<1>0. /\ job' = job /\ job[w].pc = "check" /\ orders' = orders /\ Linked(w)
      /\ job' = [job EXCEPT ![w] = job'[w]]
  BY DEF Shape, CheckDuplicate, At, pipelineVars
<1>1. CASE ReadSeen(w)
  <2>1. /\ call'[w].pc \in {"raised", "append"} /\ call'[w].key = call[w].key
        /\ DOMAIN call'[w] = {"pc", "key"}
        /\ call' = [call EXCEPT ![w] = call'[w]] /\ grants' = grants
        /\ call'[w].pc = "append" => call[w].key # NoKey
    BY <1>1 DEF Shape, ReadSeen, Workers
  <2>2. QED
    BY <1>0, <2>1 DEF Linked, Quiet, Only, Waits
<1>2. CASE AppendSeen(w)
  <2>1. /\ call'[w].pc = "passed" /\ call'[w].key = call[w].key
        /\ DOMAIN call'[w] = {"pc", "key"} /\ call[w].pc = "append"
        /\ call' = [call EXCEPT ![w] = call'[w]]
        /\ grants' = [grants EXCEPT ![call[w].key] = @ + 1]
    BY <1>2 DEF Shape, AppendSeen, Workers
  <2>2. QED
    BY <1>0, <2>1 DEF Linked, Granted, Only, Waits
<1>3. QED
  BY <1>1, <1>2 DEF CheckDuplicate

LEMMA ParseQuiet ==
  ASSUME Shape, NEW w \in Workers, Parse(w)
  PROVE  Quiet(w)
<1>1. CASE job[w].req.valid
  <2>1. job' = [job EXCEPT ![w].pc = "balance"] /\ UNCHANGED <<call, orders, grants>>
    BY <1>1 DEF Parse, Move, LocalOnly, seenVars
  <2>2. Only(w)
    BY <2>1, StepOn DEF Parse, At, Shape, Linked
  <2>3. QED
    BY <2>1, <2>2 DEF Parse, At, Quiet, Waits, Early
<1>2. CASE ~job[w].req.valid
  BY <1>2, RaiseQuiet DEF Parse
<1>3. QED
  BY <1>1, <1>2

LEMMA SyncQuiet ==
  ASSUME Shape, NEW w \in Workers, SyncBalance(w) \/ SyncPositions(w) \/ SyncBills(w)
  PROVE  Quiet(w)
<1>1. CASE CallRaises(w)
  BY <1>1, RaiseQuiet DEF CallRaises
<1>2. CASE ~CallRaises(w)
  <2>1. /\ job[w].pc \in {"balance", "positions", "bills"}
        /\ UNCHANGED <<call, orders, grants>>
    BY <1>2 DEF SyncBalance, SyncPositions, SyncBills, At, LocalOnly, seenVars
  <2>2. /\ job' = [job EXCEPT ![w] = job'[w]]
        /\ {"pc", "req"} \subseteq DOMAIN job'[w] /\ job'[w].req = job[w].req
        /\ job'[w].pc \notin {"idle", "check"}
    BY <1>2 DEF Shape, Linked, SyncBalance, SyncPositions, SyncBills
  <2>3. call[w].pc = "passed"
    BY <2>1 DEF Shape, Linked
  <2>4. Only(w)
    BY <2>1, <2>2, <2>3, StepOn
  <2>5. QED
    BY <2>1, <2>3, <2>4 DEF Quiet, Waits, Early
<1>3. QED
  BY <1>1, <1>2

LEMMA DecideQuiet ==
  ASSUME Shape, NEW w \in Workers, Decide(w)
  PROVE  Quiet(w)
<1>1. CASE ReadControlState = "raises"
  BY <1>1, RaiseQuiet DEF Decide
<1>2. CASE ReadControlState # "raises"
  <2>1. job[w].pc = "risk" /\ UNCHANGED <<call, orders, grants>>
    BY <1>2 DEF Decide, At, LocalOnly, seenVars
  <2>2. /\ job' = [job EXCEPT ![w] = job'[w]]
        /\ {"pc", "req"} \subseteq DOMAIN job'[w] /\ job'[w].req = job[w].req
        /\ job'[w].pc \notin {"idle", "check"}
    <3> DEFINE ok == Approved(Proposal(w), job[w].acct, EffectiveLimits, AllowedSymbols)
    <3>1. CASE ok
      <4>1. job' = [job EXCEPT ![w].prop = Proposal(w), ![w].pc = "contract", ![w].status = "none"]
        BY <1>2, <3>1 DEF Decide
      <4>2. QED
        BY <4>1 DEF Shape, Linked
    <3>2. CASE ~ok
      <4>1. job' = [job EXCEPT ![w].prop = Proposal(w), ![w].pc = "audit", ![w].status = "blocked"]
        BY <1>2, <3>2 DEF Decide
      <4>2. QED
        BY <4>1 DEF Shape, Linked
    <3>3. QED
      BY <3>1, <3>2
  <2>3. call[w].pc = "passed"
    BY <2>1 DEF Shape, Linked
  <2>4. Only(w)
    BY <2>1, <2>2, <2>3, StepOn
  <2>5. QED
    BY <2>1, <2>3, <2>4 DEF Quiet, Waits, Early
<1>3. QED
  BY <1>1, <1>2

LEMMA SizeQuiet ==
  ASSUME Shape, NEW w \in Workers, SizeOrder(w)
  PROVE  Quiet(w)
<1>1. CASE Raise(w)
  BY <1>1, RaiseQuiet
<1>2. CASE ~Raise(w)
  <2>1. job[w].pc = "contract" /\ UNCHANGED <<call, orders, grants>>
    BY <1>2 DEF SizeOrder, CallRaises, At, LocalOnly, seenVars
  <2>2. /\ job' = [job EXCEPT ![w] = job'[w]]
        /\ {"pc", "req"} \subseteq DOMAIN job'[w] /\ job'[w].req = job[w].req
        /\ job'[w].pc \notin {"idle", "check"}
    <3> DEFINE size == OrderSize(job[w].prop.notional, job[w].req.entry,
                                 UnitValue(job[w].prop.symbol))
               status == IF ~ExecutionEnabled THEN "disabled"
                         ELSE IF PaperMode THEN "paper" ELSE "none"
               next == IF ExecutionEnabled /\ ~PaperMode THEN "leverage" ELSE "audit"
    <3>1. job' = [job EXCEPT ![w].size = size, ![w].status = status, ![w].pc = next]
      BY <1>2 DEF SizeOrder, CallRaises
    <3>2. next \in {"leverage", "audit"}
      OBVIOUS
    <3> HIDE DEF size, status, next
    <3>3. QED
      BY <3>1, <3>2 DEF Shape, Linked
  <2>3. call[w].pc = "passed"
    BY <2>1 DEF Shape, Linked
  <2>4. Only(w)
    BY <2>1, <2>2, <2>3, StepOn
  <2>5. QED
    BY <2>1, <2>3, <2>4 DEF Quiet, Waits, Early, Ordering
<1>3. QED
  BY <1>1, <1>2

LEMMA LeverageQuiet ==
  ASSUME Shape, NEW w \in Workers, SetLeverage(w)
  PROVE  Quiet(w)
<1>1. CASE Raise(w)
  BY <1>1, RaiseQuiet
<1>2. CASE Finish(w) /\ orders' = orders
  BY <1>2, FinishEnds DEF Quiet
<1>3. CASE Move(w, "place") /\ UNCHANGED <<call, orders, grants>>
  <2>1. job[w].pc = "leverage" /\ call[w].pc = "passed"
    BY DEF SetLeverage, At, Shape, Linked
  <2>2. Only(w)
    BY <1>3, <2>1, StepOn DEF Move, Shape, Linked
  <2>3. QED
    BY <1>3, <2>1, <2>2 DEF Quiet, Waits, Early, Ordering
<1>4. QED
  BY <1>1, <1>2, <1>3 DEF SetLeverage, CallRaises, LocalOnly, seenVars

LEMMA PlaceBooks ==
  ASSUME Shape, NEW w \in Workers, PlaceOrder(w)
  PROVE  Quiet(w) \/ Sent(w)
<1>0. /\ job[w].pc = "place" /\ call[w].pc = "passed" /\ Waits(w)
      /\ call[w].key = job[w].req.id
  BY DEF PlaceOrder, At, Shape, Linked, Waits, Early, Ordering
<1>1. CASE Raise(w)
  BY <1>1, RaiseQuiet
<1>2. ASSUME NEW next \in {"reconcile", "audit"}, Answered(w, next), UNCHANGED <<call, grants>>
      PROVE  Only(w) /\ ~Waits(w)'
  <2>1. PICK status : job' = [job EXCEPT ![w].pc = next, ![w].status = status]
    BY <1>2, Zenon DEF Answered
  <2>2. /\ job' = [job EXCEPT ![w] = job'[w]]
        /\ {"pc", "req"} \subseteq DOMAIN job'[w] /\ job'[w].req = job[w].req
        /\ job'[w].pc = next
    BY <2>1 DEF Shape, Linked
  <2>3. QED
    BY <1>0, <1>2, <2>2, StepOn DEF Waits, Early, Ordering
<1>3. CASE TakesEffect(w)
  <2>1. orders' = [orders EXCEPT ![call[w].key] = @ + 1]
    BY <1>0, <1>3 DEF TakesEffect
  <2>2. CASE Finish(w)
    BY <1>0, <2>1, <2>2, FinishEnds DEF Sent
  <2>3. CASE ~Finish(w) /\ ~Raise(w) /\ orders' # orders
    BY <1>0, <1>2, <2>1, <2>3 DEF PlaceOrder, CallRaises, LocalOnly, seenVars, Sent
  <2>4. CASE ~Finish(w) /\ ~Raise(w) /\ orders' = orders
    BY <1>2, <2>4 DEF PlaceOrder, CallRaises, LocalOnly, seenVars, Quiet, TakesEffect, Waits
  <2>5. QED
    BY <1>1, <2>2, <2>3, <2>4
<1>4. CASE ~TakesEffect(w) /\ ~Raise(w)
  BY <1>2, <1>4 DEF PlaceOrder, CallRaises, LocalOnly, seenVars, Quiet
<1>5. QED
  BY <1>1, <1>3, <1>4

LEMMA ReconcileQuiet ==
  ASSUME Shape, NEW w \in Workers, Reconcile(w)
  PROVE  Quiet(w)
<1>1. CASE Finish(w) /\ orders' = orders
  BY <1>1, FinishEnds DEF Quiet
<1>2. CASE Move(w, "audit") /\ LocalOnly
  <2>1. job[w].pc = "reconcile" /\ call[w].pc = "passed"
    BY DEF Reconcile, At, Shape, Linked
  <2>2. Only(w)
    BY <1>2, <2>1, StepOn DEF Move, LocalOnly, seenVars, Shape, Linked
  <2>3. QED
    BY <1>2, <2>1, <2>2 DEF Move, LocalOnly, seenVars, Shape, Linked, Quiet, Waits, Early, Ordering
<1>3. QED
  BY <1>1, <1>2 DEF Reconcile

LEMMA AuditQuiet ==
  ASSUME Shape, NEW w \in Workers, Audit(w)
  PROVE  Quiet(w)
BY FinishEnds DEF Audit, Quiet

LEMMA HandlerBooks ==
  ASSUME Shape, NEW w \in Workers, HandlerStep(w)
  PROVE  Quiet(w) \/ Granted(w) \/ Sent(w)
BY CheckBooks, RaiseQuiet, ParseQuiet, SyncQuiet, DecideQuiet, SizeQuiet, LeverageQuiet,
   PlaceBooks, ReconcileQuiet, AuditQuiet DEF HandlerStep, RefuseDuplicate

-----------------------------------------------------------------------------
LEMMA BooksInit == PipelineInit => BackedInv
<1> SUFFICES ASSUME PipelineInit PROVE BackedInv
  OBVIOUS
<1>1. Shape
  BY DEF PipelineInit, SeenInit, Shape, Linked, NoJob, NoRequest, NoCall, Workers
<1>2. ASSUME NEW k \in Keys PROVE orders[k] + Cardinality(Waiting(k)) <= grants[k]
  <2>1. Waiting(k) = {}
    BY DEF PipelineInit, SeenInit, NoCall, Waiting, Waits, Workers
  <2>2. QED
    BY <2>1, FS_EmptySet DEF PipelineInit, SeenInit
<1>3. QED
  BY <1>1, <1>2 DEF BackedInv, Backed

LEMMA CrashBooks ==
  ASSUME BackedInv, Crash
  PROVE  BackedInv'
<1>1. Shape'
  BY DEF Crash, SeenCrash, BackedInv, Shape, Linked, NoJob, NoRequest, NoCall, Workers
<1>2. ASSUME NEW k \in Keys PROVE orders'[k] + Cardinality(Waiting(k)') <= grants'[k]
  <2>1. Waiting(k)' = {}
    BY DEF Crash, SeenCrash, NoCall, Waiting, Waits, Workers
  <2>2. orders'[k] = orders[k] /\ grants'[k] = grants[k]
    BY DEF Crash, SeenCrash
  <2>3. /\ Cardinality(Waiting(k)) \in Nat /\ orders[k] \in Nat /\ grants[k] \in Nat
        /\ orders[k] + Cardinality(Waiting(k)) <= grants[k]
    BY WaitingFinite DEF Waiting, BackedInv, Shape, Backed
  <2>4. QED
    BY <2>1, <2>2, <2>3, FS_EmptySet
<1>3. QED
  BY <1>1, <1>2 DEF BackedInv, Backed

LEMMA AroundBooks ==
  ASSUME BackedInv, UNCHANGED <<job, call, orders, grants>>
  PROVE  BackedInv'
BY DEF BackedInv, Shape, Linked, Backed, Waiting, Waits

LEMMA BooksStep ==
  ASSUME BackedInv, [Next]_vars
  PROVE  BackedInv'
<1>1. ASSUME NEW w \in Workers, NEW r \in Requests, Receive(w, r) PROVE BackedInv'
  BY <1>1, ReceiveQuiet, QuietKeepsInv DEF BackedInv
<1>2. ASSUME NEW w \in Workers, HandlerStep(w) PROVE BackedInv'
  BY <1>2, HandlerBooks, QuietKeepsInv, GrantedKeepsInv, SentKeepsInv DEF BackedInv
<1>3. ASSUME NEW v \in Writers, (\E t \in Commands : SwitchBegins(v, t)) \/ SwitchWrites(v)
      PROVE  BackedInv'
  BY <1>3, AroundBooks DEF SwitchBegins, SwitchWrites, seenVars, pipelineVars
<1>4. ASSUME NEW s \in Symbols, StopTriggers(s) PROVE BackedInv'
  BY <1>4, AroundBooks DEF StopTriggers, seenVars
<1>5. CASE UNCHANGED vars
  BY <1>5, AroundBooks DEF vars, pipelineVars, seenVars
<1>6. QED
  BY <1>1, <1>2, <1>3, <1>4, <1>5, CrashBooks DEF Next, Step

LEMMA BackedSuffices == BackedInv => OrdersBacked
<1> SUFFICES ASSUME BackedInv, NEW k \in Keys
             PROVE  orders[k] + Cardinality(Committed(k)) <= grants[k]
  BY DEF OrdersBacked
<1>1. Committed(k) \subseteq Waiting(k)
  BY DEF BackedInv, Shape, Linked, Committed, Waiting, Waits, Early, Ordering
<1>2. Cardinality(Committed(k)) <= Cardinality(Waiting(k))
  BY <1>1, FS_Subset, WaitingFinite DEF Waiting
<1>3. /\ Cardinality(Waiting(k)) \in Nat /\ Cardinality(Committed(k)) \in Nat
      /\ orders[k] \in Nat /\ grants[k] \in Nat
      /\ orders[k] + Cardinality(Waiting(k)) <= grants[k]
  BY WaitingFinite DEF Waiting, Committed, BackedInv, Shape, Backed
<1>4. QED
  BY <1>2, <1>3

(* For any number of threads, requests and faults: no order at the exchange*)
(* without a passed idempotency check of its own, and none is still to come*)
(* without one (signal_security.py, main.py:438-470).                      *)
THEOREM EveryOrderBacked == Spec => []OrdersBacked
BY BooksInit, BooksStep, BackedSuffices, PTL DEF Spec

-----------------------------------------------------------------------------
(* The checks that the pipeline makes are the ones SeenFile speaks of. *)

LEMMA HandlerSeen ==
  ASSUME NEW w \in Workers, HandlerStep(w)
  PROVE  [SeenNext]_seenVars
<1>1. CASE EndCheck(w)
  BY <1>1 DEF SeenNext, Workers
<1>2. CASE CheckDuplicate(w)
  BY <1>2 DEF CheckDuplicate, SeenNext, Workers
<1>3. CASE ~EndCheck(w) /\ ~CheckDuplicate(w)
  <2> USE <1>3 DEF Raise, Finish, LocalOnly, CallRaises
  <2>1. UNCHANGED seenVars
    <3>1. ~RefuseDuplicate(w) /\ ~Audit(w)
      BY DEF RefuseDuplicate, Audit
    <3>2. CASE Parse(w)
      BY <3>2 DEF Parse
    <3>3. CASE SyncBalance(w) \/ SyncPositions(w) \/ SyncBills(w)
      BY <3>3 DEF SyncBalance, SyncPositions, SyncBills
    <3>4. CASE Decide(w)
      BY <3>4 DEF Decide
    <3>5. CASE SizeOrder(w) \/ SetLeverage(w)
      BY <3>5 DEF SizeOrder, SetLeverage
    <3>6. CASE PlaceOrder(w) \/ Reconcile(w)
      BY <3>6 DEF PlaceOrder, Reconcile
    <3>7. QED
      BY <3>1, <3>2, <3>3, <3>4, <3>5, <3>6 DEF HandlerStep
  <2>2. QED
    BY <2>1
<1>4. QED
  BY <1>1, <1>2, <1>3

LEMMA StepSeen == [Next]_vars => [SeenNext]_seenVars
<1> SUFFICES ASSUME [Next]_vars PROVE [SeenNext]_seenVars
  OBVIOUS
<1>1. ASSUME NEW w \in Workers, NEW r \in Requests, Receive(w, r) PROVE SeenNext
  BY <1>1, PipelineAssumption DEF Receive, SeenNext, Workers
<1>2. CASE Crash
  BY <1>2 DEF Crash, SeenNext
<1>3. CASE UNCHANGED seenVars
  BY <1>3
<1>4. ASSUME NEW v \in Writers, (\E t \in Commands : SwitchBegins(v, t)) \/ SwitchWrites(v)
      PROVE  UNCHANGED seenVars
  BY <1>4 DEF SwitchBegins, SwitchWrites
<1>5. QED
  BY <1>1, <1>2, <1>3, <1>4, HandlerSeen DEF Next, Step, StopTriggers, vars

(* The pipeline implements the idempotency file's specification, whatever  *)
(* else it does: what is proved of the file holds in the whole service.    *)
THEOREM PipelineUsesSeenFile == Spec => SeenSpec
<1>1. PipelineInit => SeenInit
  BY DEF PipelineInit
<1>2. QED
  BY <1>1, StepSeen, PTL DEF Spec, SeenSpec

(* One signal is never replayed into two positions (.env.example:86): over *)
(* all deliveries, failed calls and restarts, unless two deliveries of it  *)
(* overlapped.                                                             *)
THEOREM OneOrderPerId == Spec => []OneOrderPerKey
<1>1. BackedInv /\ OneGrantPerKey => OneOrderPerKey
  <2> SUFFICES ASSUME BackedInv, OneGrantPerKey, NEW k \in Exact \ shared, k \in Keys
               PROVE  orders[k] <= 1
    BY DEF OneOrderPerKey, Exact
  <2>1. grants[k] <= 1 /\ grants[k] \in Nat /\ orders[k] \in Nat
        /\ Cardinality(Waiting(k)) \in Nat
    BY WaitingFinite DEF OneGrantPerKey, BackedInv, Shape, Waiting
  <2>2. QED
    BY <2>1 DEF BackedInv, Backed
<1>2. QED
  BY <1>1, BooksInit, BooksStep, PipelineUsesSeenFile, GrantsOnce, PTL DEF Spec

-----------------------------------------------------------------------------
(* Leverage and telling of orders: a second account of the handlers' steps.*)

\* The request of w is one of Requests, and past Parse it parsed.
Heard(w) ==
  /\ job[w].pc # "idle" => job[w].req \in Requests
  /\ job[w].pc \notin {"idle", "check"} => job[w].req.valid

LocalShape ==
  /\ job = [w \in Workers |-> job[w]]
  /\ \A w \in Workers : {"pc", "req", "prop", "status"} \subseteq DOMAIN job[w] /\ Heard(w)
  /\ {"loose", "untold"} \subseteq DOMAIN noted

Bounded(l) == l <= Limits.maxLeverage

\* An approved request asks for a leverage in bounds.
AsksInBounds(w) == job[w].pc \in Ordering => Bounded(job[w].prop.leverage)

\* The order of w for s is next: its leverage has been set.
Aims(w, s) == job[w].pc = "place" /\ job[w].prop.symbol = s

\* The strengthening: the leverage is in bounds from when it is set for an
\* order, not only from when there is a position.
LeverInv ==
  /\ LocalShape
  /\ lever = [s \in Symbols |-> lever[s]] /\ pos = [s \in Symbols |-> pos[s]]
  /\ \A w \in Workers : AsksInBounds(w)
  /\ \A s \in Symbols \ noted.loose :
       pos[s] # 0 \/ (\E w \in Workers : Aims(w, s)) => Bounded(lever[s])

\* What the steps of the handler of w have in common.
Lone(w) ==
  /\ job' = [job EXCEPT ![w] = job'[w]]
  /\ {"pc", "req", "prop", "status"} \subseteq DOMAIN job'[w] /\ Heard(w)'
  /\ {"loose", "untold"} \subseteq DOMAIN noted'

Alone(w) == Lone(w) /\ AsksInBounds(w)'

\* No leverage, position or order of w is new.
Steady(w) ==
  /\ Alone(w) /\ UNCHANGED <<pos, lever>>
  /\ noted'.loose = noted.loose /\ job'[w].pc # "place"

\* The answer to set_leverage came, or got lost.
Levered(w) ==
  /\ Alone(w) /\ pos' = pos
  /\ job'[w].pc = "place" => job'[w].prop = job[w].prop
  /\ Bounded(job[w].prop.leverage)
  /\ lever' = [lever EXCEPT ![job[w].prop.symbol] = job[w].prop.leverage]
  /\ noted'.loose = noted.loose \ {job[w].prop.symbol}

\* An error response to it.
Loosened(w) ==
  /\ Alone(w) /\ UNCHANGED <<pos, lever>>
  /\ job'[w].pc = "place" => job'[w].prop = job[w].prop
  /\ noted'.loose = noted.loose \cup {job[w].prop.symbol}

\* The order takes effect.
Traded(w) ==
  /\ Alone(w) /\ lever' = lever
  /\ job[w].pc = "place" /\ job'[w].pc # "place"
  /\ \E n : pos' = [pos EXCEPT ![job[w].prop.symbol] = n]
  /\ noted'.loose = noted.loose

LEMMA AloneKeepsShape ==
  ASSUME LeverInv, NEW w \in Workers, Alone(w)
  PROVE  LocalShape' /\ \A v \in Workers : AsksInBounds(v)'
BY DEF LeverInv, LocalShape, Alone, Lone, AsksInBounds, Heard

LEMMA OthersAim ==
  ASSUME LeverInv, NEW w \in Workers, Alone(w), NEW v \in Workers, v # w, NEW s
  PROVE  Aims(v, s)' <=> Aims(v, s)
BY DEF LeverInv, LocalShape, Alone, Lone, Aims

LEMMA SteadyKeepsInv ==
  ASSUME LeverInv, NEW w \in Workers, Steady(w)
  PROVE  LeverInv'
<1>1. LocalShape' /\ \A v \in Workers : AsksInBounds(v)'
  BY AloneKeepsShape DEF Steady
<1>2. ASSUME NEW s \in Symbols, NEW v \in Workers, Aims(v, s)' PROVE Aims(v, s)
  BY <1>2, OthersAim DEF Steady, Aims
<1>3. QED
  BY <1>1, <1>2 DEF Steady, LeverInv

LEMMA LeveredKeepsInv ==
  ASSUME LeverInv, NEW w \in Workers, Levered(w)
  PROVE  LeverInv'
<1>1. LocalShape' /\ \A v \in Workers : AsksInBounds(v)'
  BY AloneKeepsShape DEF Levered
<1> SUFFICES ASSUME NEW s \in Symbols \ noted'.loose,
                    pos'[s] # 0 \/ (\E v \in Workers : Aims(v, s)')
             PROVE  Bounded(lever'[s])
  BY <1>1 DEF Levered, LeverInv
<1>2. CASE s = job[w].prop.symbol
  BY <1>2 DEF Levered, LeverInv, LocalShape
<1>3. CASE s # job[w].prop.symbol
  <2>1. lever'[s] = lever[s] /\ s \notin noted.loose
    BY <1>3 DEF Levered, LeverInv, LocalShape
  <2>2. pos[s] # 0 \/ \E v \in Workers : Aims(v, s)
    BY <1>3, OthersAim DEF Levered, Aims
  <2>3. QED
    BY <2>1, <2>2 DEF LeverInv
<1>4. QED
  BY <1>2, <1>3

LEMMA LoosenedKeepsInv ==
  ASSUME LeverInv, NEW w \in Workers, Loosened(w)
  PROVE  LeverInv'
<1>1. LocalShape' /\ \A v \in Workers : AsksInBounds(v)'
  BY AloneKeepsShape DEF Loosened
<1>2. ASSUME NEW s \in Symbols \ noted'.loose, NEW v \in Workers, Aims(v, s)'
      PROVE  Aims(v, s)
  BY <1>2, OthersAim DEF Loosened, Aims
<1>3. QED
  BY <1>1, <1>2 DEF Loosened, LeverInv

LEMMA TradedKeepsInv ==
  ASSUME LeverInv, NEW w \in Workers, Traded(w)
  PROVE  LeverInv'
<1>1. LocalShape' /\ \A v \in Workers : AsksInBounds(v)'
  BY AloneKeepsShape DEF Traded
<1>2. ASSUME NEW s \in Symbols, NEW v \in Workers, Aims(v, s)' PROVE Aims(v, s)
  BY <1>2, OthersAim DEF Traded, Aims
<1>3. ASSUME NEW s \in Symbols, pos'[s] # 0 PROVE pos[s] # 0 \/ Aims(w, s)
  BY <1>3 DEF Traded, Aims, LeverInv, LocalShape
<1>4. QED
  BY <1>1, <1>2, <1>3 DEF Traded, LeverInv

-----------------------------------------------------------------------------
(* What each action does to leverage and positions. *)

\* Nothing but the local state of w changes, and it stays short of an order
\* or keeps its proposal.
LEMMA StepSteady ==
  ASSUME LeverInv, NEW w \in Workers, Lone(w), UNCHANGED <<pos, lever>>,
         noted'.loose = noted.loose, job'[w].pc # "place",
         job'[w].pc \in Ordering => job[w].pc \in Ordering /\ job'[w].prop = job[w].prop
  PROVE  Steady(w)
BY DEF LeverInv, Steady, Alone, AsksInBounds

LEMMA FinishLone ==
  ASSUME LocalShape, NEW w \in Workers, Finish(w), {"loose", "untold"} \subseteq DOMAIN noted'
  PROVE  Lone(w) /\ job'[w].pc = "idle"
BY DEF LocalShape, Finish, NoJob, Lone, Heard

LEMMA FinishSteady ==
  ASSUME LeverInv, NEW w \in Workers, Finish(w), UNCHANGED <<pos, lever>>,
         {"loose", "untold"} \subseteq DOMAIN noted', noted'.loose = noted.loose
  PROVE  Steady(w)
<1>1. Lone(w) /\ job'[w].pc = "idle"
  BY FinishLone DEF LeverInv
<1>2. QED
  BY <1>1, StepSteady DEF Ordering

LEMMA RaiseSteady ==
  ASSUME LeverInv, NEW w \in Workers, Raise(w)
  PROVE  Steady(w)
BY FinishSteady DEF Raise, exchangeVars, LeverInv, LocalShape

LEMMA ReceiveSteady ==
  ASSUME LeverInv, NEW w \in Workers, NEW r \in Requests, Receive(w, r)
  PROVE  Steady(w)
<1>1. Lone(w) /\ job'[w].pc = "check" /\ noted'.loose = noted.loose
  BY DEF Receive, NoJob, LeverInv, LocalShape, Lone, Heard
<1>2. QED
  BY <1>1, StepSteady DEF Receive, exchangeVars, Ordering

LEMMA EarlySteady ==
  ASSUME LeverInv, NEW w \in Workers,
         \/ CheckDuplicate(w) \/ RefuseDuplicate(w) \/ Parse(w)
         \/ SyncBalance(w) \/ SyncPositions(w) \/ SyncBills(w)
  PROVE  Steady(w)
<1>1. CASE Raise(w)
  BY <1>1, RaiseSteady
<1>2. CASE ~Raise(w)
  <2>1. UNCHANGED <<pos, lever>> /\ noted'.loose = noted.loose
        /\ {"loose", "untold"} \subseteq DOMAIN noted'
    BY <1>2 DEF CheckDuplicate, RefuseDuplicate, Parse, SyncBalance, SyncPositions, SyncBills,
                CallRaises, LocalOnly, exchangeVars, pipelineVars, LeverInv, LocalShape
  <2>2. Lone(w) /\ job'[w].pc \in {"check", "balance", "positions", "bills", "risk"}
    <3> USE DEF LeverInv, LocalShape, Lone, At, Heard
    <3>1. CASE CheckDuplicate(w)
      BY <2>1, <3>1 DEF CheckDuplicate, pipelineVars
    <3>2. CASE Parse(w)
      BY <1>2, <2>1, <3>2 DEF Parse, Move
    <3>3. CASE SyncBalance(w)
      BY <1>2, <2>1, <3>3 DEF SyncBalance, CallRaises
    <3>4. CASE SyncPositions(w)
      BY <1>2, <2>1, <3>4 DEF SyncPositions, CallRaises
    <3>5. CASE SyncBills(w)
      BY <1>2, <2>1, <3>5 DEF SyncBills, CallRaises
    <3>6. QED
      BY <1>2, <3>1, <3>2, <3>3, <3>4, <3>5 DEF RefuseDuplicate
  <2>3. QED
    BY <2>1, <2>2, StepSteady DEF Ordering
<1>3. QED
  BY <1>1, <1>2

LEMMA RoundedIsInt ==
  ASSUME NEW x \in Int
  PROVE  Rounded(x) \in Int
<1> DEFINE q == x \div Grain
<1>1. q \in Int /\ Grain \in Int
  BY GrainAssumption
<1>2. RoundHalfEven(x, Grain) \in {q, q + 1}
  BY DEF RoundHalfEven
<1> HIDE DEF q
<1>3. QED
  BY <1>1, <1>2 DEF Rounded

(* The leverage of an approved proposal is at most the limit: rounding may  *)
(* take it past, and the gate then refuses it (proposal_service.py:41,      *)
(* risk.py); the pause switch leaves the limit alone (main.py:29-41).       *)
LEMMA ApprovedInBounds ==
  ASSUME NEW w \in Workers, Heard(w), job[w].pc = "risk",
         Approved(Proposal(w), job[w].acct, EffectiveLimits, AllowedSymbols)
  PROVE  Bounded(Proposal(w).leverage)
<1> DEFINE asked == AtMost(AtLeast(job[w].req.leverage, One), Limits.maxLeverage)
<1>1. EffectiveLimits.maxLeverage = Limits.maxLeverage
  BY DEF EffectiveLimits, ApplyControlState
<1>2. Proposal(w).leverage = Rounded(asked)
  BY <1>1 DEF Proposal, BuildTradeProposal
<1>3. asked \in Int /\ Limits.maxLeverage \in Int
  BY SignalAssumption, PipelineAssumption, GrainAssumption DEF Heard, AtMost, AtLeast
<1> HIDE DEF asked
<1>4. Proposal(w).leverage \in Int
  BY <1>2, <1>3, RoundedIsInt
<1>5. ~(Proposal(w).leverage > Limits.maxLeverage)
  BY <1>1 DEF Approved, OutOfRange
<1>6. QED
  BY <1>3, <1>4, <1>5 DEF Bounded

LEMMA DecideSteady ==
  ASSUME LeverInv, NEW w \in Workers, Decide(w)
  PROVE  Steady(w)
<1>1. CASE ReadControlState = "raises"
  BY <1>1, RaiseSteady DEF Decide
<1>2. CASE ReadControlState # "raises"
  <2>1. UNCHANGED <<pos, lever, noted>>
    BY <1>2 DEF Decide, LocalOnly, exchangeVars
  <2> DEFINE ok == Approved(Proposal(w), job[w].acct, EffectiveLimits, AllowedSymbols)
             p == Proposal(w)
             next == IF ok THEN "contract" ELSE "audit"
             status == IF ok THEN "none" ELSE "blocked"
  <2>2. job' = [job EXCEPT ![w].prop = p, ![w].pc = next, ![w].status = status]
        /\ job[w].pc = "risk"
    BY <1>2 DEF Decide, At
  <2>3. next \in {"contract", "audit"} /\ (next = "contract" => Bounded(p.leverage))
    BY <2>2, ApprovedInBounds DEF LeverInv, LocalShape
  <2> HIDE DEF ok, p, next, status
  <2>4. Lone(w) /\ job'[w].pc = next /\ job'[w].prop = p
    BY <2>1, <2>2, <2>3 DEF LeverInv, LocalShape, Lone, Heard
  <2>5. QED
    BY <2>1, <2>3, <2>4 DEF Steady, Alone, AsksInBounds, Ordering
<1>3. QED
  BY <1>1, <1>2

LEMMA SizeSteady ==
  ASSUME LeverInv, NEW w \in Workers, SizeOrder(w)
  PROVE  Steady(w)
<1>1. CASE Raise(w)
  BY <1>1, RaiseSteady
<1>2. CASE ~Raise(w)
  <2> DEFINE size == OrderSize(job[w].prop.notional, job[w].req.entry,
                               UnitValue(job[w].prop.symbol))
             status == IF ~ExecutionEnabled THEN "disabled"
                       ELSE IF PaperMode THEN "paper" ELSE "none"
             next == IF ExecutionEnabled /\ ~PaperMode THEN "leverage" ELSE "audit"
  <2>1. job' = [job EXCEPT ![w].size = size, ![w].status = status, ![w].pc = next]
    BY <1>2 DEF SizeOrder, CallRaises
  <2>2. next \in {"leverage", "audit"}
    OBVIOUS
  <2>3. job[w].pc = "contract" /\ UNCHANGED <<pos, lever, noted>>
    BY <1>2 DEF SizeOrder, CallRaises, At, LocalOnly, exchangeVars
  <2> HIDE DEF size, status, next
  <2>4. Lone(w) /\ job'[w].pc = next /\ job'[w].prop = job[w].prop
    BY <2>1, <2>2, <2>3 DEF LeverInv, LocalShape, Lone, Heard
  <2>5. QED
    BY <2>2, <2>3, <2>4, StepSteady DEF Ordering
<1>3. QED
  BY <1>1, <1>2

LEMMA SetLeverageLevers ==
  ASSUME LeverInv, NEW w \in Workers, SetLeverage(w)
  PROVE  Steady(w) \/ Levered(w) \/ Loosened(w)
<1>0. Bounded(job[w].prop.leverage)
  BY DEF SetLeverage, At, LeverInv, AsksInBounds, Ordering
<1>1. CASE Raise(w)
  BY <1>1, RaiseSteady
<1>2. ASSUME Move(w, "place"), {"loose", "untold"} \subseteq DOMAIN noted'
      PROVE  Alone(w) /\ job'[w].prop = job[w].prop
  BY <1>0, <1>2 DEF SetLeverage, At, Move, LeverInv, LocalShape, Alone, Lone, AsksInBounds, Heard
<1>3. ASSUME Finish(w), {"loose", "untold"} \subseteq DOMAIN noted'
      PROVE  Alone(w) /\ job'[w].pc = "idle"
  BY <1>3, FinishLone DEF LeverInv, Alone, AsksInBounds, Ordering
<1>4. ASSUME noted' = [noted EXCEPT !.loose = @ \ {job[w].prop.symbol}]
      PROVE  /\ {"loose", "untold"} \subseteq DOMAIN noted'
             /\ noted'.loose = noted.loose \ {job[w].prop.symbol}
  BY <1>4 DEF LeverInv, LocalShape
<1>5. ASSUME noted' = [noted EXCEPT !.loose = @ \cup {job[w].prop.symbol}]
      PROVE  /\ {"loose", "untold"} \subseteq DOMAIN noted'
             /\ noted'.loose = noted.loose \cup {job[w].prop.symbol}
  BY <1>5 DEF LeverInv, LocalShape
<1>6. QED
  BY <1>0, <1>1, <1>2, <1>3, <1>4, <1>5
     DEF SetLeverage, CallRaises, exchangeVars, Levered, Loosened

LEMMA PlaceTrades ==
  ASSUME LeverInv, NEW w \in Workers, PlaceOrder(w)
  PROVE  Steady(w) \/ Traded(w)
<1>1. CASE Raise(w)
  BY <1>1, RaiseSteady
<1>2. CASE ~Raise(w)
  <2>1. lever' = lever /\ job[w].pc = "place"
    BY <1>2 DEF PlaceOrder, CallRaises, LocalOnly, exchangeVars, At
  <2>2. {"loose", "untold"} \subseteq DOMAIN noted' /\ noted'.loose = noted.loose
    BY <1>2 DEF PlaceOrder, CallRaises, LocalOnly, Untold, LeverInv, LocalShape
  <2>3. ASSUME NEW next \in {"reconcile", "audit"}, Answered(w, next)
        PROVE  Lone(w) /\ job'[w].pc = next
    <3>1. PICK status \in SentStatuses :
                 job' = [job EXCEPT ![w].pc = next, ![w].status = status]
      BY <2>3 DEF Answered
    <3>2. QED
      BY <2>1, <2>2, <3>1 DEF LeverInv, LocalShape, Lone, Heard
  <2>4. Lone(w) /\ job'[w].pc \in {"reconcile", "audit", "idle"}
    BY <1>2, <2>2, <2>3, FinishLone DEF PlaceOrder, CallRaises, LeverInv
  <2>5. CASE TakesEffect(w)
    BY <2>1, <2>2, <2>4, <2>5 DEF TakesEffect, Traded, Alone, AsksInBounds, Ordering
  <2>6. CASE ~TakesEffect(w)
    <3>1. pos' = pos
      BY <1>2, <2>6 DEF PlaceOrder, CallRaises, LocalOnly, exchangeVars
    <3>2. QED
      BY <2>1, <2>2, <2>4, <3>1, StepSteady DEF Ordering
  <2>7. QED
    BY <2>5, <2>6
<1>3. QED
  BY <1>1, <1>2

LEMMA LateSteady ==
  ASSUME LeverInv, NEW w \in Workers, Reconcile(w) \/ Audit(w)
  PROVE  Steady(w)
<1>1. /\ UNCHANGED <<pos, lever>>
      /\ {"loose", "untold"} \subseteq DOMAIN noted' /\ noted'.loose = noted.loose
  BY DEF Reconcile, Audit, LocalOnly, Untold, exchangeVars, LeverInv, LocalShape
<1>2. CASE Finish(w)
  BY <1>1, <1>2, FinishSteady
<1>3. CASE Move(w, "audit")
  <2>1. Lone(w) /\ job'[w].pc = "audit"
    BY <1>1, <1>3 DEF Reconcile, Audit, At, Move, LeverInv, LocalShape, Lone, Heard
  <2>2. QED
    BY <1>1, <2>1, StepSteady DEF Ordering
<1>4. QED
  BY <1>2, <1>3 DEF Reconcile, Audit

LEMMA LeverInit == PipelineInit => LeverInv
BY DEF PipelineInit, LeverInv, LocalShape, AsksInBounds, Aims, NoJob, NoNotes, Ordering, Heard

LEMMA LeverCrash ==
  ASSUME LeverInv, Crash
  PROVE  LeverInv'
<1>1. /\ \A w \in Workers : job'[w] = NoJob
      /\ UNCHANGED <<pos, lever>> /\ noted'.loose = noted.loose
  BY DEF Crash, Untold, exchangeVars, LeverInv, LocalShape
<1>2. LocalShape'
  BY <1>1 DEF Crash, Untold, NoJob, LeverInv, LocalShape, Heard
<1>3. \A w \in Workers : job'[w].pc = "idle"
  BY <1>1 DEF NoJob
<1>4. QED
  BY <1>1, <1>2, <1>3 DEF LeverInv, AsksInBounds, Aims, Ordering

LEMMA LeverStep ==
  ASSUME LeverInv, [Next]_vars
  PROVE  LeverInv'
<1>1. ASSUME NEW w \in Workers, NEW r \in Requests, Receive(w, r) PROVE LeverInv'
  BY <1>1, ReceiveSteady, SteadyKeepsInv
<1>2. ASSUME NEW w \in Workers, HandlerStep(w) PROVE LeverInv'
  BY <1>2, EarlySteady, DecideSteady, SizeSteady, SetLeverageLevers, PlaceTrades, LateSteady,
     SteadyKeepsInv, LeveredKeepsInv, LoosenedKeepsInv, TradedKeepsInv DEF HandlerStep
<1>3. ASSUME UNCHANGED <<job, pos, lever, noted>> PROVE LeverInv'
  BY <1>3 DEF LeverInv, LocalShape, AsksInBounds, Aims, Heard
<1>4. ASSUME NEW v \in Writers, (\E t \in Commands : SwitchBegins(v, t)) \/ SwitchWrites(v)
      PROVE  LeverInv'
  BY <1>3, <1>4 DEF SwitchBegins, SwitchWrites, exchangeVars, pipelineVars
<1>5. ASSUME NEW s \in Symbols, StopTriggers(s) PROVE LeverInv'
  <2>1. /\ UNCHANGED <<job, lever, noted>>
        /\ pos' = [pos EXCEPT ![s] = 0]
    BY <1>5 DEF StopTriggers
  <2>2. QED
    BY <2>1 DEF LeverInv, LocalShape, AsksInBounds, Aims, Heard
<1>6. CASE UNCHANGED vars
  BY <1>3, <1>6 DEF vars, pipelineVars, exchangeVars
<1>7. QED
  BY <1>1, <1>2, <1>4, <1>5, <1>6, LeverCrash DEF Next, Step

(* For any number of threads, requests, symbols, limits and faults: no      *)
(* position is held at a leverage above RISK_MAX_LEVERAGE, also when        *)
(* requests set the leverage of one symbol in turns; except after an error  *)
(* response to set_leverage, which nothing looks at (okx_order_service).    *)
THEOREM LeverageStaysCapped == Spec => []LeverageCapped
<1>1. LeverInv => LeverageCapped
  BY DEF LeverInv, LeverageCapped, Bounded
<1>2. QED
  BY <1>1, LeverInit, LeverStep, PTL DEF Spec

-----------------------------------------------------------------------------
(* Who is told of an order. *)

\* The answer of the exchange to the order of w is known here, and not yet told.
Tells(w) == job[w].pc \in {"reconcile", "audit"} /\ job[w].status \in SentStatuses

\* The strengthening: a request on the way to the audit counts only when it
\* has the answer of the exchange itself.
Told(k) ==
  \/ \E status \in SentStatuses : <<k, status>> \in audited
  \/ k \in noted.untold
  \/ \E w \in Workers : job[w].req.id = k /\ Tells(w)

ToldInv ==
  /\ LocalShape
  /\ orders = [k \in Keys |-> orders[k]]
  /\ \A k \in Keys : orders[k] > 0 => Told(k)

\* What every step of the handler of w does for those told of.
Accounts(w) ==
  /\ Lone(w) /\ native' = native
  /\ audited \subseteq audited' /\ noted.untold \subseteq noted'.untold
  /\ \A k : Tells(w) /\ job[w].req.id = k => Told(k)'
  /\ orders' = orders \/ \E k : orders' = [orders EXCEPT ![k] = @ + 1] /\ Told(k)'

LEMMA LoneKeepsShape ==
  ASSUME LocalShape, NEW w \in Workers, Lone(w)
  PROVE  LocalShape'
BY DEF LocalShape, Lone, Heard

LEMMA AccountsKeepsInv ==
  ASSUME ToldInv, NEW w \in Workers, Accounts(w)
  PROVE  ToldInv'
<1>1. LocalShape' /\ orders' = [k \in Keys |-> orders'[k]]
  BY LoneKeepsShape DEF Accounts, ToldInv
<1>2. ASSUME NEW k \in Keys, Told(k) PROVE Told(k)'
  <2>1. CASE \E v \in Workers : job[v].req.id = k /\ Tells(v)
    <3>1. PICK v \in Workers : job[v].req.id = k /\ Tells(v)
      BY <2>1
    <3>2. CASE v = w
      BY <3>1, <3>2 DEF Accounts
    <3>3. CASE v # w
      <4>1. job'[v] = job[v]
        BY <3>3 DEF Accounts, Lone, ToldInv, LocalShape
      <4>2. QED
        BY <3>1, <4>1 DEF Accounts, Told, Tells, SentStatuses
    <3>4. QED
      BY <3>2, <3>3
  <2>2. CASE ~ \E v \in Workers : job[v].req.id = k /\ Tells(v)
    BY <1>2, <2>2 DEF Accounts, Told, SentStatuses
  <2>3. QED
    BY <2>1, <2>2
<1>3. ASSUME NEW k \in Keys, orders'[k] > 0 PROVE Told(k)'
  <2>1. CASE orders'[k] = orders[k]
    BY <1>2, <1>3, <2>1 DEF ToldInv
  <2>2. CASE orders'[k] # orders[k]
    <3>1. PICK j : orders' = [orders EXCEPT ![j] = @ + 1] /\ Told(j)'
      BY <2>2 DEF Accounts
    <3>2. j = k
      BY <2>2, <3>1 DEF ToldInv
    <3>3. QED
      BY <3>1, <3>2
  <2>3. QED
    BY <2>1, <2>2
<1>4. QED
  BY <1>1, <1>3 DEF ToldInv

\* Before the exchange has answered, only the local state of w changes.
LEMMA StepAccounts ==
  ASSUME NEW w \in Workers, Lone(w), UNCHANGED <<native, audited, orders>>,
         noted.untold \subseteq noted'.untold, job[w].pc \notin {"reconcile", "audit"}
  PROVE  Accounts(w)
BY DEF Accounts, Tells

LEMMA RaiseAccounts ==
  ASSUME LocalShape, NEW w \in Workers, Raise(w), native' = native,
         job[w].pc \notin {"reconcile", "audit"}
  PROVE  Accounts(w)
<1>1. Lone(w)
  BY FinishLone DEF Raise, LocalShape
<1>2. QED
  BY <1>1, StepAccounts DEF Raise

\* The steps up to the order are those of which it is proved above that they
\* are steady or set a leverage.
LEMMA EarlyAccounts ==
  ASSUME LeverInv, NEW w \in Workers, native' = native,
         \/ CheckDuplicate(w) \/ RefuseDuplicate(w) \/ Parse(w)
         \/ SyncBalance(w) \/ SyncPositions(w) \/ SyncBills(w)
         \/ Decide(w) \/ SizeOrder(w) \/ SetLeverage(w)
  PROVE  Accounts(w)
<1>1. Lone(w)
  BY EarlySteady, DecideSteady, SizeSteady, SetLeverageLevers
     DEF Steady, Levered, Loosened, Alone
<1>2. job[w].pc \notin {"reconcile", "audit"}
  BY DEF CheckDuplicate, RefuseDuplicate, Parse, SyncBalance, SyncPositions, SyncBills, Decide,
         SizeOrder, SetLeverage, At
<1>3. CASE Raise(w)
  BY <1>2, <1>3, RaiseAccounts DEF LeverInv
<1>4. CASE ~Raise(w) /\ ~SetLeverage(w)
  <2>1. UNCHANGED <<audited, orders>> /\ noted'.untold = noted.untold
    BY <1>4 DEF CheckDuplicate, RefuseDuplicate, Parse, SyncBalance, SyncPositions, SyncBills,
                Decide, SizeOrder, CallRaises, LocalOnly, pipelineVars, LeverInv, LocalShape
  <2>2. QED
    BY <1>1, <1>2, <2>1, StepAccounts
<1>5. CASE ~Raise(w) /\ SetLeverage(w)
  <2>1. UNCHANGED <<audited, orders>> /\ noted'.untold = noted.untold
    BY <1>5 DEF SetLeverage, CallRaises, LeverInv, LocalShape
  <2>2. QED
    BY <1>1, <1>2, <2>1, StepAccounts
<1>6. QED
  BY <1>3, <1>4, <1>5

LEMMA PlaceAccounts ==
  ASSUME LeverInv, NEW w \in Workers, native' = native, PlaceOrder(w)
  PROVE  Accounts(w)
<1>1. Lone(w) /\ job[w].pc = "place"
  BY PlaceTrades DEF Steady, Traded, Alone, PlaceOrder, At
<1>2. CASE Raise(w)
  BY <1>1, <1>2, RaiseAccounts DEF LeverInv
<1>3. CASE TakesEffect(w) /\ ~Raise(w) /\ orders' # orders
  <2>1. /\ audited' = audited /\ noted.untold \subseteq noted'.untold
        /\ orders' = [orders EXCEPT ![job[w].req.id] = @ + 1]
    BY <1>3 DEF PlaceOrder, CallRaises, LocalOnly, TakesEffect, Untold, LeverInv, LocalShape
  <2>2. ASSUME NEW k, k = job[w].req.id PROVE Told(k)'
    <3>1. ASSUME NEW next \in {"reconcile", "audit"}, Answered(w, next)
          PROVE  Told(k)'
      <4>1. PICK status \in SentStatuses :
              job' = [job EXCEPT ![w].pc = next, ![w].status = status]
        BY <3>1, Zenon DEF Answered
      <4>2. /\ job'[w].pc = next /\ job'[w].status = status
            /\ job'[w].req = job[w].req
        BY <4>1 DEF LeverInv, LocalShape
      <4>3. QED
        BY <2>2, <4>2 DEF Told, Tells, SentStatuses
    <3>2. ASSUME noted' = Untold({job[w].req.id}) PROVE Told(k)'
      BY <2>2, <3>2 DEF Untold, Told, LeverInv, LocalShape
    <3>3. QED
      BY <1>3, <3>1, <3>2 DEF PlaceOrder, CallRaises, LocalOnly
  <2>3. QED
    BY <1>1, <2>1, <2>2 DEF Accounts, Tells
<1>4. CASE ~Raise(w) /\ orders' = orders
  <2>1. audited' = audited /\ noted.untold \subseteq noted'.untold
    BY <1>4 DEF PlaceOrder, CallRaises, LocalOnly, Untold, LeverInv, LocalShape
  <2>2. QED
    BY <1>1, <1>4, <2>1, StepAccounts
<1>5. CASE ~Raise(w) /\ ~TakesEffect(w) /\ orders' # orders
  BY <1>5 DEF PlaceOrder, CallRaises, LocalOnly
<1>6. QED
  BY <1>2, <1>3, <1>4, <1>5

LEMMA LateAccounts ==
  ASSUME LeverInv, NEW w \in Workers, native' = native, Reconcile(w) \/ Audit(w)
  PROVE  Accounts(w)
<1>1. Lone(w) /\ orders' = orders
  BY LateSteady DEF Steady, Alone, Reconcile, Audit, LocalOnly
<1>2. CASE Audit(w)
  <2>1. /\ audited \subseteq audited' /\ noted' = noted
        /\ <<job[w].req.id, job[w].status>> \in audited'
    BY <1>2 DEF Audit
  <2>2. QED
    BY <1>1, <2>1 DEF Accounts, Tells, Told, SentStatuses
<1>3. CASE Reconcile(w) /\ Move(w, "audit") /\ LocalOnly
  <2>1. /\ UNCHANGED <<audited, noted>>
        /\ job'[w].pc = "audit" /\ job'[w].status = job[w].status /\ job'[w].req = job[w].req
    BY <1>3 DEF LocalOnly, Move, LeverInv, LocalShape
  <2>2. QED
    BY <1>1, <2>1 DEF Accounts, Tells, Told, SentStatuses
<1>4. CASE Reconcile(w) /\ noted' = Untold({job[w].req.id}) /\ audited' = audited
  <2>1. noted'.untold = noted.untold \cup {job[w].req.id}
    BY <1>4 DEF Untold, LeverInv, LocalShape
  <2>2. QED
    BY <1>1, <1>4, <2>1 DEF Accounts, Told
<1>5. QED
  BY <1>2, <1>3, <1>4 DEF Reconcile

LEMMA ReceiveAccounts ==
  ASSUME LeverInv, NEW w \in Workers, NEW r \in Requests, native' = native, Receive(w, r)
  PROVE  Accounts(w)
<1>1. Lone(w) /\ noted'.untold = noted.untold
  BY ReceiveSteady DEF Steady, Alone, Receive, LeverInv, LocalShape
<1>2. QED
  BY <1>1, StepAccounts DEF Receive, At

LEMMA ToldInit == PipelineInit => ToldInv
<1> SUFFICES ASSUME PipelineInit PROVE ToldInv
  OBVIOUS
<1>1. LocalShape
  BY LeverInit DEF LeverInv
<1>2. QED
  BY <1>1 DEF PipelineInit, ToldInv

LEMMA ToldCrash ==
  ASSUME ToldInv, Crash, native' = native
  PROVE  ToldInv'
<1>1. LocalShape'
  BY DEF Crash, Untold, NoJob, ToldInv, LocalShape, Heard
<1>2. UNCHANGED <<audited, orders>>
  BY DEF Crash
<1>3. noted'.untold = noted.untold \cup
         {job[w].req.id : w \in {v \in Workers : job[v].status \in SentStatuses}}
  BY DEF Crash, Untold, ToldInv, LocalShape
<1>4. ASSUME NEW k \in Keys, Told(k) PROVE Told(k)'
  BY <1>2, <1>3, <1>4 DEF Told, Tells, SentStatuses
<1>5. QED
  BY <1>1, <1>2, <1>4 DEF ToldInv

LEMMA ToldStep ==
  ASSUME ToldInv, LeverInv, [Next]_vars
  PROVE  ToldInv'
<1>1. ASSUME NEW w \in Workers, NEW r \in Requests, Receive(w, r), native' = native
      PROVE  ToldInv'
  BY <1>1, ReceiveAccounts, AccountsKeepsInv
<1>2. ASSUME NEW w \in Workers, HandlerStep(w), native' = native PROVE ToldInv'
  BY <1>2, EarlyAccounts, PlaceAccounts, LateAccounts, AccountsKeepsInv DEF HandlerStep
<1>3. ASSUME UNCHANGED <<native, job, audited, orders, noted>> PROVE ToldInv'
  BY <1>3 DEF ToldInv, LocalShape, Heard, Told, Tells, SentStatuses
<1>4. ASSUME NEW v \in Writers, (\E t \in Commands : SwitchBegins(v, t)) \/ SwitchWrites(v),
             native' = native
      PROVE  ToldInv'
  BY <1>3, <1>4 DEF SwitchBegins, SwitchWrites, pipelineVars
<1>5. ASSUME NEW s \in Symbols, StopTriggers(s), native' = native PROVE ToldInv'
  BY <1>3, <1>5 DEF StopTriggers
<1>6. CASE UNCHANGED vars
  BY <1>3, <1>6 DEF vars, pipelineVars
<1>7. QED
  BY <1>1, <1>2, <1>4, <1>5, <1>6, ToldCrash DEF Next, Step

(* For any number of threads, requests and faults: an order that took      *)
(* effect is in the audit log as sent, or its request is on the way there, *)
(* also while a refused request of the same id is served; except that a    *)
(* lost answer, a failed status query and a crash leave an order nobody is *)
(* told of (main.py:438-470).                                              *)
THEOREM OrdersAreTold == Spec => []OrdersAccounted
<1>1. ToldInv => OrdersAccounted
  BY DEF ToldInv, Told, Tells, OrdersAccounted
<1>2. QED
  BY <1>1, LeverInit, LeverStep, ToldInit, ToldStep, PTL DEF Spec

-----------------------------------------------------------------------------
(* The day's realised loss. *)

(* A loss weighs more the larger it is and the smaller the equity.         *)
LEMMA LossGrows ==
  ASSUME NEW p \in Int, NEW q \in Int, NEW d \in Int, NEW e \in Int,
         p <= 0, q <= p, 0 < e, e <= d
  PROVE  Percentage(q, e) <= Percentage(p, d)
<1>1. ((-p) * 100) \div d <= ((-q) * 100) \div e
  <2>1. (-p) * 100 \in Nat /\ (-q) * 100 \in Nat /\ (-p) * 100 <= (-q) * 100
    OBVIOUS
  <2>2. d \in Nat \ {0} /\ e \in Nat \ {0}
    OBVIOUS
  <2>3. QED
    BY <2>1, <2>2, DivisionMonotone
<1>2. ((-p) * 100) \div d \in Nat /\ ((-q) * 100) \div e \in Nat
  <2>1. (-p) * 100 \in Nat /\ (-q) * 100 \in Nat /\ d \in Nat \ {0} /\ e \in Nat \ {0}
    OBVIOUS
  <2>2. QED
    BY <2>1, DivisionBounds
<1>3. p = 0 => (p * 100) \div d = 0
  OBVIOUS
<1>4. q = 0 => (q * 100) \div e = 0
  OBVIOUS
<1>5. QED
  BY <1>1, <1>2, <1>3, <1>4 DEF Percentage

LEMMA PercentageMonotone ==
  ASSUME NEW p \in Int, NEW q \in Int, NEW d \in Int, q <= p
  PROVE  Percentage(q, d) <= Percentage(p, d)
<1>1. CASE d <= 0
  BY <1>1 DEF Percentage
<1>2. CASE d > 0 /\ p < 0
  BY <1>2, LossGrows
<1>3. CASE d > 0 /\ p >= 0
  <2>1. p * 100 \in Nat /\ d \in Nat \ {0} /\ (p * 100) \div d \in Nat
    <3>1. p * 100 \in Nat /\ d \in Nat \ {0}
      BY <1>3
    <3>2. QED
      BY <3>1, DivisionBounds
  <2>2. CASE q >= 0
    <3>1. q * 100 \in Nat /\ q * 100 <= p * 100
      BY <2>2
    <3>2. (q * 100) \div d <= (p * 100) \div d
      BY <2>1, <3>1, DivisionMonotone
    <3>3. QED
      BY <1>3, <2>2, <3>2 DEF Percentage
  <2>3. CASE q < 0
    <3>1. (-q) * 100 \in Nat /\ d \in Nat \ {0}
      BY <1>3, <2>3
    <3>2. ((-q) * 100) \div d \in Nat
      BY <3>1, DivisionBounds
    <3>3. QED
      BY <1>3, <2>1, <2>3, <3>2 DEF Percentage
  <2>4. QED
    BY <2>2, <2>3
<1>4. QED
  BY <1>1, <1>2, <1>3

-----------------------------------------------------------------------------
(* The bills of a day: nothing but stops, the newest first.                *)

Stops == Seq({StopLoss})
Page(b) == SubSeq(b, 1, AtMost(BillPage, Len(b)))

LEMMA StopsAreInts ==
  ASSUME NEW b \in Stops
  PROVE  b \in Seq(Int) /\ \A i \in 1..Len(b) : b[i] = StopLoss
BY PipelineAssumption DEF Stops

\* A stop more, of a loss: the total falls.
LEMMA TotalFalls ==
  ASSUME NEW b \in Stops
  PROVE  /\ <<StopLoss>> \o b \in Stops /\ Len(<<StopLoss>> \o b) = Len(b) + 1
         /\ Total(b) \in Int /\ Total(<<StopLoss>> \o b) = StopLoss + Total(b)
<1>1. b \in Seq(Int) /\ StopLoss \in Int
  BY StopsAreInts, PipelineAssumption
<1>2. <<StopLoss>> \o b \in Stops /\ Len(<<StopLoss>> \o b) = Len(b) + 1
  BY DEF Stops
<1>3. QED
  BY <1>1, <1>2, SumOfSequence, SumPrepended DEF Total

LEMMA TotalNegative ==
  ASSUME NEW b \in Stops
  PROVE  Total(b) <= 0
<1> DEFINE z == [i \in 1..Len(b) |-> 0]
<1>0. IsFiniteSet(1..Len(b))
  <2>1. Len(b) \in Int
    BY DEF Stops
  <2>2. QED
    BY <2>1, FS_Interval
<1>1. Total(b) = SumFunctionOnSet(b, 1..Len(b))
  BY StopsAreInts, SumOfSequence DEF Total
<1>2. \A i \in 1..Len(b) : b[i] \in Int /\ z[i] \in Int /\ b[i] <= z[i]
  BY StopsAreInts, PipelineAssumption
<1>3. SumFunctionOnSet(z, 1..Len(b)) = 0
  BY <1>0, SumOfZeros
<1>4. SumFunctionOnSet(b, 1..Len(b)) <= SumFunctionOnSet(z, 1..Len(b))
  <2> HIDE DEF z
  <2> QED
    BY <1>0, <1>2, SumMonotone
<1>5. QED
  BY <1>1, <1>3, <1>4

LEMMA PageShort ==
  ASSUME NEW b \in Stops
  PROVE  /\ Page(b) \in Stops /\ Len(Page(b)) = AtMost(BillPage, Len(b))
         /\ Len(b) <= BillPage => Page(b) = b
<1> DEFINE n == AtMost(BillPage, Len(b))
<1>1. n \in 0..Len(b) /\ Len(b) \in Nat
  BY PipelineAssumption DEF AtMost, Stops
<1>2. Page(b) \in Stops /\ Len(Page(b)) = n /\ \A i \in 1..n : Page(b)[i] = b[i]
  <2> HIDE DEF n
  <2> QED
    BY <1>1 DEF Page, Stops, n
<1>3. Len(b) <= BillPage => n = Len(b)
  BY <1>1, PipelineAssumption DEF AtMost
<1>4. Len(b) <= BillPage => Page(b) = b
  <2> HIDE DEF n
  <2> SUFFICES ASSUME Len(b) <= BillPage PROVE Page(b) = b
    OBVIOUS
  <2>1. Len(Page(b)) = Len(b) /\ \A i \in 1..Len(Page(b)) : Page(b)[i] = b[i]
    BY <1>2, <1>3
  <2>2. QED
    BY <1>2, <2>1, SeqEqual DEF Stops
<1>5. QED
  BY <1>2, <1>4

\* One page of bills, too, falls with a stop more: beyond the page, what is
\* new equals what drops out.
LEMMA PageFalls ==
  ASSUME NEW b \in Stops
  PROVE  LET more == <<StopLoss>> \o b
         IN  /\ Total(Page(b)) \in Int /\ Total(Page(more)) \in Int
             /\ Total(Page(more)) <= Total(Page(b)) /\ Total(Page(b)) <= 0
<1> DEFINE more == <<StopLoss>> \o b
<1>1. more \in Stops /\ Len(more) = Len(b) + 1 /\ Total(more) = StopLoss + Total(b)
  BY TotalFalls
<1>2. Len(b) \in Nat /\ BillPage \in Nat /\ StopLoss \in Int /\ StopLoss <= 0
  BY PipelineAssumption DEF Stops
<1> HIDE DEF more
<1>3. /\ Page(b) \in Stops /\ Page(more) \in Stops
      /\ Total(Page(b)) \in Int /\ Total(Page(more)) \in Int /\ Total(Page(b)) <= 0
  BY <1>1, PageShort, TotalFalls, TotalNegative
<1>4. CASE Len(b) < BillPage
  <2>1. Page(b) = b /\ Page(more) = more
    BY <1>1, <1>2, <1>4, PageShort
  <2>2. Total(b) \in Int /\ Total(Page(more)) = StopLoss + Total(b)
    BY <1>1, <2>1, TotalFalls
  <2>3. Total(Page(more)) <= Total(Page(b))
    BY <1>2, <2>1, <2>2
  <2>4. QED
    BY <1>3, <2>3 DEF more
<1>5. CASE Len(b) >= BillPage
  <2>1. Len(Page(b)) = BillPage /\ Len(Page(more)) = BillPage
    BY <1>1, <1>2, <1>5, PageShort DEF AtMost
  <2>2. \A i \in 1..BillPage : Page(b)[i] = StopLoss /\ Page(more)[i] = StopLoss
    BY <1>3, <2>1, StopsAreInts
  <2>3. Page(b) = Page(more)
    BY <1>3, <2>1, <2>2, SeqEqual DEF Stops
  <2>4. QED
    BY <1>3, <2>3 DEF more
<1>6. QED
  BY <1>2, <1>4, <1>5

-----------------------------------------------------------------------------
(* The limit on the day's loss. *)

\* An account in which no request is approved any more: out of money, or past
\* the day's limit on one page of bills.
Hopeless(e) == e <= 0 \/ DailyPnl(e) <= -Limits.dailyLoss

Local(w) ==
  /\ {"pc", "req", "acct", "prop", "size", "status"} \subseteq DOMAIN job[w]
  /\ {"equity", "exposure", "bySymbol", "pnl"} \subseteq DOMAIN job[w].acct
  /\ job[w].pc \in {"positions", "bills", "risk"} => job[w].acct.equity \in Int

\* What a request that came after the limit was reached has seen, or will see.
Noticed(w) ==
  began[w].breached =>
    /\ job[w].pc \in {"check", "balance"} => Hopeless(Equity)
    /\ job[w].pc \in {"positions", "bills"} => Hopeless(job[w].acct.equity)
    /\ job[w].pc = "risk" => job[w].acct.equity <= 0 \/ job[w].acct.pnl <= -Limits.dailyLoss
    /\ job[w].pc \notin Barred

DayInv ==
  /\ native \in BOOLEAN /\ bills \in Stops
  /\ job = [w \in Workers |-> job[w]] /\ began = [w \in Workers |-> began[w]]
  /\ \A w \in Workers : {"halted", "breached"} \subseteq DOMAIN began[w]
  /\ \A w \in Workers : Local(w) /\ Noticed(w)

\* What the steps of the handler of w have in common.
Watched(w) ==
  /\ job' = [job EXCEPT ![w] = job'[w]]
  /\ \/ began' = began
     \/ began' = [began EXCEPT ![w] = Fresh]
     \/ began' = [began EXCEPT ![w].breached = FALSE]
  /\ bills' = bills
  /\ Local(w)' /\ Noticed(w)'

LEMMA EquityIsInt ==
  ASSUME bills \in Stops
  PROVE  Equity \in Int
BY TotalFalls, PipelineAssumption DEF Equity

\* The day's result falls with every stop, and so does the equity.
LEMMA DayPnlFalls ==
  ASSUME NEW b \in Stops, native \in BOOLEAN, NEW d \in Int, NEW e \in Int, 0 < e, e <= d
  PROVE  DayPnl(Page(<<StopLoss>> \o b), e) <= DayPnl(Page(b), d)
<1> DEFINE q == Total(Page(<<StopLoss>> \o b))
           p == Total(Page(b))
<1>1. p \in Int /\ q \in Int /\ q <= p /\ p <= 0
  BY PageFalls
<1> HIDE DEF p, q
<1>2. Percentage(q, e) <= Percentage(p, d)
  BY <1>1, LossGrows
<1>3. Percentage(e - Baseline, Baseline) <= Percentage(d - Baseline, Baseline)
  <2>1. Baseline \in Int /\ e - Baseline \in Int /\ d - Baseline \in Int
        /\ e - Baseline <= d - Baseline
    BY PipelineAssumption
  <2>2. QED
    BY <2>1, PercentageMonotone
<1>4. e # 0 /\ d # 0 /\ ~(e <= 0) /\ ~(d <= 0)
  OBVIOUS
<1>5. QED
  BY <1>2, <1>3, <1>4 DEF DayPnl, p, q

LEMMA PercentageIsInt ==
  ASSUME NEW p \in Int, NEW d \in Int
  PROVE  Percentage(p, d) \in Int
<1>1. CASE d <= 0
  BY <1>1 DEF Percentage
<1>2. CASE d > 0
  <2>1. d \in Nat \ {0} /\ (p >= 0 => p * 100 \in Nat) /\ (p < 0 => (-p) * 100 \in Nat)
    BY <1>2
  <2>2. (p >= 0 => (p * 100) \div d \in Nat) /\ (p < 0 => ((-p) * 100) \div d \in Nat)
    BY <2>1, DivisionBounds
  <2>3. QED
    BY <1>2, <2>2 DEF Percentage
<1>3. QED
  BY <1>1, <1>2

LEMMA DayPnlIsInt ==
  ASSUME NEW b \in Stops, bills \in Stops, native \in BOOLEAN, NEW e \in Int
  PROVE  DayPnl(Page(b), e) \in Int
<1> DEFINE reference == IF e = 0 THEN Equity ELSE e
<1>1. Total(Page(b)) \in Int /\ reference \in Int /\ Baseline \in Int
  BY PageFalls, EquityIsInt, PipelineAssumption
<1> HIDE DEF reference
<1>2. /\ Percentage(Total(Page(b)), e) \in Int
      /\ Percentage(reference - Baseline, Baseline) \in Int
  <2>1. reference - Baseline \in Int
    BY <1>1
  <2>2. QED
    BY <1>1, <2>1, PercentageIsInt
<1>3. DayPnl(Page(b), e) = IF native THEN Percentage(Total(Page(b)), e)
                           ELSE IF reference <= 0 THEN 0
                           ELSE Percentage(reference - Baseline, Baseline)
  BY DEF DayPnl, reference
<1>4. QED
  BY <1>2, <1>3

LEMMA StaysHopeless ==
  ASSUME native \in BOOLEAN, bills \in Stops,
         NEW d \in Int, NEW e \in Int, e <= d, Hopeless(d)
  PROVE  e <= 0 \/ DayPnl(Page(<<StopLoss>> \o bills), e) <= -Limits.dailyLoss
<1>1. CASE e <= 0
  BY <1>1
<1>2. CASE e > 0
  <2>1. DayPnl(Page(bills), d) <= -Limits.dailyLoss
    BY <1>2 DEF Hopeless, DailyPnl, Page
  <2>2. DayPnl(Page(<<StopLoss>> \o bills), e) <= DayPnl(Page(bills), d)
    BY <1>2, DayPnlFalls
  <2>3. /\ DayPnl(Page(<<StopLoss>> \o bills), e) \in Int /\ DayPnl(Page(bills), d) \in Int
        /\ -Limits.dailyLoss \in Int
    <3>1. <<StopLoss>> \o bills \in Stops
      BY TotalFalls
    <3>2. DayPnl(Page(<<StopLoss>> \o bills), e) \in Int
      BY <3>1, DayPnlIsInt
    <3>3. DayPnl(Page(bills), d) \in Int
      BY DayPnlIsInt
    <3>4. QED
      BY <3>2, <3>3, PipelineAssumption
  <2>4. DayPnl(Page(<<StopLoss>> \o bills), e) <= -Limits.dailyLoss
    BY <2>1, <2>2, <2>3
  <2>5. QED
    BY <2>4
<1>3. QED
  BY <1>1, <1>2

LEMMA SameHopeless ==
  ASSUME UNCHANGED <<native, bills>>, NEW e
  PROVE  (Hopeless(e)' <=> Hopeless(e)) /\ Equity' = Equity
BY DEF Hopeless, DailyPnl, DayPnl, Equity

LEMMA WatchedKeepsInv ==
  ASSUME DayInv, NEW w \in Workers, Watched(w), native' = native
  PROVE  DayInv'
<1>1. /\ native' \in BOOLEAN /\ bills' \in Stops
      /\ job' = [v \in Workers |-> job'[v]] /\ began' = [v \in Workers |-> began'[v]]
      /\ \A v \in Workers : {"halted", "breached"} \subseteq DOMAIN began'[v]
  BY DEF DayInv, Watched, Fresh
<1>2. ASSUME NEW v \in Workers, v # w
      PROVE  Local(v)' /\ Noticed(v)'
  <2>1. job'[v] = job[v] /\ began'[v] = began[v]
    BY <1>2 DEF DayInv, Watched
  <2>2. Hopeless(Equity)' <=> Hopeless(Equity)
    BY SameHopeless DEF Watched
  <2>3. Hopeless(job[v].acct.equity)' <=> Hopeless(job[v].acct.equity)
    <3>1. job'[v].acct.equity = job[v].acct.equity /\ UNCHANGED <<native, bills>>
      BY <2>1 DEF Watched
    <3>2. QED
      BY <3>1 DEF Hopeless, DailyPnl, DayPnl, Equity
  <2>4. QED
    BY <2>1, <2>2, <2>3 DEF DayInv, Local, Noticed
<1>3. QED
  BY <1>1, <1>2 DEF DayInv, Watched

-----------------------------------------------------------------------------
(* The steps of a handler. *)

LEMMA FinishWatched ==
  ASSUME DayInv, NEW w \in Workers, Finish(w), bills' = bills
  PROVE  Watched(w)
BY DEF DayInv, Finish, NoJob, NoAccount, NoProposal, Fresh, Watched, Local, Noticed, Barred, Ordering

LEMMA RaiseWatched ==
  ASSUME DayInv, NEW w \in Workers, Raise(w)
  PROVE  Watched(w)
BY FinishWatched DEF Raise, exchangeVars

\* The local state of w moves on in states the day's loss says nothing of.
LEMMA LateWatched ==
  ASSUME DayInv, NEW w \in Workers, UNCHANGED <<began, bills>>,
         job' = [job EXCEPT ![w] = job'[w]], Local(w)',
         job'[w].pc \in Barred \cup {"audit"}, job'[w].pc \in Barred => job[w].pc \in Barred
  PROVE  Watched(w)
BY DEF DayInv, Watched, Noticed, Barred, Ordering

LEMMA CheckWatched ==
  ASSUME DayInv, native' = native, NEW w \in Workers,
         CheckDuplicate(w) \/ RefuseDuplicate(w) \/ Parse(w)
  PROVE  Watched(w)
<1>1. CASE Raise(w)
  BY <1>1, RaiseWatched
<1>2. CASE CheckDuplicate(w)
  <2>1. UNCHANGED <<job, began, bills>> /\ job' = [job EXCEPT ![w] = job'[w]]
    BY <1>2 DEF CheckDuplicate, pipelineVars, DayInv
  <2>2. QED
    BY <2>1 DEF DayInv, Watched, Local, Noticed, Hopeless, DailyPnl, DayPnl, Equity
<1>3. CASE Parse(w) /\ ~Raise(w)
  <2>1. /\ job' = [job EXCEPT ![w].pc = "balance"] /\ job[w].pc = "check"
        /\ UNCHANGED <<began, bills>>
    BY <1>3 DEF Parse, Move, At, LocalOnly, exchangeVars
  <2>2. /\ job' = [job EXCEPT ![w] = job'[w]] /\ job'[w].pc = "balance" /\ Local(w)'
    BY <2>1 DEF DayInv, Local
  <2>3. began[w].breached => Hopeless(Equity)
    BY <2>1 DEF DayInv, Noticed
  <2>4. Noticed(w)'
    BY <2>1, <2>2, <2>3 DEF Noticed, Hopeless, DailyPnl, DayPnl, Equity, Barred, Ordering
  <2>5. QED
    BY <2>1, <2>2, <2>4 DEF Watched
<1>4. QED
  BY <1>1, <1>2, <1>3 DEF RefuseDuplicate

\* What is read as the balance: the equity, or nothing.
LEMMA BalanceRead ==
  ASSUME NEW w \in Workers, SyncBalance(w), ~Raise(w)
  PROVE  /\ job[w].pc = "balance"
         /\ UNCHANGED <<began, bills, pos, noted>>
         /\ \E equity \in {Equity, 0} : \E used : \E free :
              job' = [job EXCEPT ![w].pc = "positions", ![w].acct.equity = equity,
                                 ![w].acct.used = used, ![w].acct.available = free]
<1>1. job[w].pc = "balance" /\ UNCHANGED <<began, bills, pos, noted>>
  BY DEF SyncBalance, CallRaises, At, LocalOnly, exchangeVars
<1>2. \E equity \in {Equity, 0} : \E used : \E free :
              job' = [job EXCEPT ![w].pc = "positions", ![w].acct.equity = equity,
                                 ![w].acct.used = used, ![w].acct.available = free]
  BY DEF SyncBalance, CallRaises
<1>3. QED
  BY <1>1, <1>2

LEMMA BalanceWatched ==
  ASSUME DayInv, native' = native, NEW w \in Workers, SyncBalance(w)
  PROVE  Watched(w)
<1>1. CASE Raise(w)
  BY <1>1, RaiseWatched
<1>2. CASE ~Raise(w)
  <2>1. job[w].pc = "balance" /\ UNCHANGED <<began, bills>>
    BY <1>2, BalanceRead
  <2>a. PICK equity \in {Equity, 0} : \E used : \E free :
          job' = [job EXCEPT ![w].pc = "positions", ![w].acct.equity = equity,
                             ![w].acct.used = used, ![w].acct.available = free]
    BY <1>2, BalanceRead
  <2>b. PICK used : \E free :
          job' = [job EXCEPT ![w].pc = "positions", ![w].acct.equity = equity,
                             ![w].acct.used = used, ![w].acct.available = free]
    BY <2>a
  <2>c. PICK free :
          job' = [job EXCEPT ![w].pc = "positions", ![w].acct.equity = equity,
                             ![w].acct.used = used, ![w].acct.available = free]
    BY <2>b
  <2>2. /\ job' = [job EXCEPT ![w] = job'[w]] /\ job'[w].pc = "positions"
        /\ job'[w].acct.equity = equity
        /\ {"pc", "req", "acct", "prop", "size", "status"} \subseteq DOMAIN job'[w]
        /\ {"equity", "exposure", "bySymbol", "pnl"} \subseteq DOMAIN job'[w].acct
    BY <2>c DEF DayInv, Local
  <2>3. began[w].breached => Hopeless(equity)
    BY <2>1 DEF DayInv, Noticed, Hopeless
  <2>4. Noticed(w)'
    BY <2>1, <2>2, <2>3 DEF Noticed, Hopeless, DailyPnl, DayPnl, Equity, Barred, Ordering
  <2>5. QED
    BY <2>1, <2>2, <2>4, EquityIsInt DEF Watched, Local, DayInv
<1>3. QED
  BY <1>1, <1>2

LEMMA PositionsWatched ==
  ASSUME DayInv, native' = native, NEW w \in Workers, SyncPositions(w)
  PROVE  Watched(w)
<1>1. CASE Raise(w)
  BY <1>1, RaiseWatched
<1>2. CASE ~Raise(w)
  <2>1. job[w].pc = "positions" /\ UNCHANGED <<began, bills>>
    BY <1>2 DEF SyncPositions, CallRaises, At, LocalOnly, exchangeVars
  <2>2. /\ job' = [job EXCEPT ![w] = job'[w]] /\ job'[w].pc = "bills"
        /\ job'[w].acct.equity = job[w].acct.equity /\ job[w].acct.equity \in Int
        /\ {"pc", "req", "acct", "prop", "size", "status"} \subseteq DOMAIN job'[w]
        /\ {"equity", "exposure", "bySymbol", "pnl"} \subseteq DOMAIN job'[w].acct
    <3> DEFINE all == IF native THEN [s \in Held |-> LiquidationBase - Exposure] ELSE <<>>
    <3>1. \/ job' = [job EXCEPT ![w].pc = "bills", ![w].acct.exposure = ExposureRead,
                     ![w].acct.bySymbol = BySymbol, ![w].acct.distance = all]
          \/ job' = [job EXCEPT ![w].pc = "bills", ![w].acct.exposure = 0,
                     ![w].acct.bySymbol = Unknown, ![w].acct.distance = <<>>]
      BY <1>2 DEF SyncPositions, CallRaises
    <3> HIDE DEF all
    <3>2. job[w].acct.equity \in Int
      BY <2>1 DEF DayInv, Local
    <3>3. CASE job' = [job EXCEPT ![w].pc = "bills", ![w].acct.exposure = ExposureRead,
                                  ![w].acct.bySymbol = BySymbol, ![w].acct.distance = all]
      BY <3>2, <3>3 DEF DayInv, Local
    <3>4. CASE job' = [job EXCEPT ![w].pc = "bills", ![w].acct.exposure = 0,
                                  ![w].acct.bySymbol = Unknown, ![w].acct.distance = <<>>]
      BY <3>2, <3>4 DEF DayInv, Local
    <3>5. QED
      BY <3>1, <3>3, <3>4
  <2>3. began[w].breached => Hopeless(job[w].acct.equity)
    BY <2>1 DEF DayInv, Noticed
  <2>4. Noticed(w)'
    BY <2>1, <2>2, <2>3 DEF Noticed, Hopeless, DailyPnl, DayPnl, Equity, Barred, Ordering
  <2>5. QED
    BY <2>1, <2>2, <2>4 DEF Watched, Local
<1>3. QED
  BY <1>1, <1>2

LEMMA BillsWatched ==
  ASSUME DayInv, native' = native, NEW w \in Workers, SyncBills(w)
  PROVE  Watched(w)
<1>1. CASE Raise(w)
  BY <1>1, RaiseWatched
<1>2. CASE ~Raise(w)
  <2>1. job[w].pc = "bills" /\ bills' = bills
    BY <1>2 DEF SyncBills, CallRaises, At, LocalOnly, exchangeVars
  <2>2. PICK pnl :
          /\ job' = [job EXCEPT ![w].pc = "risk", ![w].acct.pnl = pnl]
          /\ \/ began' = began /\ pnl = DailyPnl(job[w].acct.equity)
             \/ began' = [began EXCEPT ![w].breached = FALSE]
    BY <1>2 DEF SyncBills, CallRaises, LocalOnly
  <2>3. began'[w].breached => job[w].acct.equity <= 0 \/ pnl <= -Limits.dailyLoss
    BY <2>1, <2>2 DEF DayInv, Noticed, Hopeless
  <2>4. /\ job' = [job EXCEPT ![w] = job'[w]] /\ job'[w].pc = "risk"
        /\ job'[w].acct.equity = job[w].acct.equity /\ job[w].acct.equity \in Int
        /\ job'[w].acct.pnl = pnl
        /\ {"pc", "req", "acct", "prop", "size", "status"} \subseteq DOMAIN job'[w]
        /\ {"equity", "exposure", "bySymbol", "pnl"} \subseteq DOMAIN job'[w].acct
    BY <2>1, <2>2 DEF DayInv, Local
  <2>5. Noticed(w)'
    BY <2>3, <2>4 DEF Noticed, Barred, Ordering
  <2>6. QED
    BY <2>1, <2>2, <2>4, <2>5 DEF Watched, Local
<1>3. QED
  BY <1>1, <1>2

(* A snapshot past the day's limit, or without money, is not approved, with*)
(* the pause switch set or not.                                            *)
LEMMA LossRefuses ==
  ASSUME NEW a, NEW p, NEW allow, a.equity \in Int,
         a.equity <= 0 \/ a.pnl <= -Limits.dailyLoss
  PROVE  ~Approved(p, a, EffectiveLimits, allow)
<1>1. /\ EffectiveLimits.dailyLoss = Limits.dailyLoss
      /\ EffectiveLimits.minEquity = Limits.minEquity
  BY DEF EffectiveLimits, ApplyControlState
<1>2. AccountUnfit(a, EffectiveLimits)
  BY <1>1, PipelineAssumption DEF AccountUnfit
<1>3. QED
  BY <1>2 DEF Approved

LEMMA DecideWatched ==
  ASSUME DayInv, native' = native, NEW w \in Workers, Decide(w)
  PROVE  Watched(w)
<1>1. CASE Raise(w)
  BY <1>1, RaiseWatched
<1>2. CASE ~Raise(w)
  <2> DEFINE ok == Approved(Proposal(w), job[w].acct, EffectiveLimits, AllowedSymbols)
             next == IF ok THEN "contract" ELSE "audit"
             status == IF ok THEN "none" ELSE "blocked"
  <2>1. /\ job' = [job EXCEPT ![w].prop = Proposal(w), ![w].pc = next, ![w].status = status]
        /\ job[w].pc = "risk" /\ UNCHANGED <<began, bills>>
    BY <1>2 DEF Decide, At, LocalOnly, exchangeVars
  <2>2. began[w].breached => next = "audit"
    BY <2>1, LossRefuses DEF DayInv, Noticed, Local
  <2>3. next \in {"contract", "audit"}
    OBVIOUS
  <2> HIDE DEF next, status
  <2>4. /\ job' = [job EXCEPT ![w] = job'[w]] /\ job'[w].pc = next
        /\ {"pc", "req", "acct", "prop", "size", "status"} \subseteq DOMAIN job'[w]
        /\ job'[w].acct = job[w].acct
    BY <2>1 DEF DayInv, Local
  <2>5. Local(w)' /\ Noticed(w)'
    BY <2>1, <2>2, <2>3, <2>4 DEF DayInv, Local, Noticed, Barred, Ordering
  <2>6. QED
    BY <2>1, <2>4, <2>5 DEF Watched
<1>3. QED
  BY <1>1, <1>2

LEMMA LateStepsWatched ==
  ASSUME DayInv, native' = native, NEW w \in Workers,
         SizeOrder(w) \/ SetLeverage(w) \/ PlaceOrder(w) \/ Reconcile(w) \/ Audit(w)
  PROVE  Watched(w)
<1>0. bills' = bills
  BY DEF SizeOrder, SetLeverage, PlaceOrder, Reconcile, Audit, CallRaises, Raise, LocalOnly,
         exchangeVars
<1>1. CASE Finish(w)
  BY <1>0, <1>1, FinishWatched
<1>2. ASSUME NEW next \in Barred \cup {"audit"}, job' = [job EXCEPT ![w].pc = next],
             UNCHANGED began, job[w].pc \in Barred
      PROVE  Watched(w)
  <2>1. job' = [job EXCEPT ![w] = job'[w]] /\ job'[w].pc = next /\ Local(w)'
    BY <1>2 DEF DayInv, Local, Barred, Ordering
  <2>2. QED
    BY <1>0, <1>2, <2>1, LateWatched
<1>3. CASE SizeOrder(w) /\ ~Finish(w)
  <2> DEFINE size == OrderSize(job[w].prop.notional, job[w].req.entry,
                               UnitValue(job[w].prop.symbol))
             status == IF ~ExecutionEnabled THEN "disabled"
                       ELSE IF PaperMode THEN "paper" ELSE "none"
             next == IF ExecutionEnabled /\ ~PaperMode THEN "leverage" ELSE "audit"
  <2>1. /\ job' = [job EXCEPT ![w].size = size, ![w].status = status, ![w].pc = next]
        /\ job[w].pc = "contract" /\ UNCHANGED began
    BY <1>3 DEF SizeOrder, CallRaises, Raise, At, LocalOnly
  <2>2. next \in {"leverage", "audit"}
    OBVIOUS
  <2> HIDE DEF size, status, next
  <2>3. job' = [job EXCEPT ![w] = job'[w]] /\ job'[w].pc = next /\ Local(w)'
    BY <2>1, <2>2 DEF DayInv, Local
  <2>4. QED
    BY <1>0, <2>1, <2>2, <2>3, LateWatched DEF Barred, Ordering
<1>4. CASE SetLeverage(w) /\ ~Finish(w)
  <2>1. Move(w, "place") /\ UNCHANGED began /\ job[w].pc = "leverage"
    BY <1>4 DEF SetLeverage, CallRaises, Raise, At, LocalOnly
  <2>2. QED
    BY <1>2, <2>1 DEF Move, Barred, Ordering
<1>5. CASE PlaceOrder(w) /\ ~Finish(w)
  <2>1. UNCHANGED began /\ job[w].pc = "place"
    BY <1>5 DEF PlaceOrder, CallRaises, Raise, At, LocalOnly
  <2>2. \E next \in {"reconcile", "audit"} : Answered(w, next)
    BY <1>5 DEF PlaceOrder, CallRaises, Raise
  <2>3. PICK next \in {"reconcile", "audit"}, status \in SentStatuses :
               job' = [job EXCEPT ![w].pc = next, ![w].status = status]
    BY <2>2 DEF Answered
  <2>4. job' = [job EXCEPT ![w] = job'[w]] /\ job'[w].pc = next /\ Local(w)'
    BY <2>3 DEF DayInv, Local
  <2>5. QED
    BY <1>0, <2>1, <2>4, LateWatched DEF Barred, Ordering
<1>6. CASE Reconcile(w) /\ ~Finish(w)
  <2>1. Move(w, "audit") /\ UNCHANGED began /\ job[w].pc = "reconcile"
    BY <1>6 DEF Reconcile, At, LocalOnly
  <2>2. QED
    BY <1>2, <2>1 DEF Move, Barred
<1>7. QED
  BY <1>1, <1>3, <1>4, <1>5, <1>6 DEF Audit

LEMMA DayInit == PipelineInit => DayInv
<1> SUFFICES ASSUME PipelineInit PROVE DayInv
  OBVIOUS
<1>1. native \in BOOLEAN /\ bills \in Stops
  BY PipelineAssumption DEF PipelineInit, Stops
<1>2. \A w \in Workers : job[w] = NoJob /\ began[w] = Fresh
  BY DEF PipelineInit
<1>3. \A w \in Workers : Local(w) /\ Noticed(w)
  BY <1>2 DEF Local, Noticed, NoJob, NoAccount, Fresh
<1>4. QED
  BY <1>1, <1>3 DEF PipelineInit, DayInv, Fresh

LEMMA DayReceive ==
  ASSUME DayInv, native' = native, NEW w \in Workers, NEW r \in Requests, Receive(w, r)
  PROVE  DayInv'
<1>1. /\ bills' = bills /\ job' = [job EXCEPT ![w] = job'[w]] /\ job'[w].pc = "check" /\ Local(w)'
      /\ began' = [began EXCEPT ![w] = began'[w]]
      /\ {"halted", "breached"} \subseteq DOMAIN began'[w]
      /\ began'[w].breached <=> DayBreached /\ Len(bills) <= BillPage
  BY DEF Receive, exchangeVars, DayInv, NoJob, NoAccount, Local
<1>2. began'[w].breached => Hopeless(Equity)
  <2> SUFFICES ASSUME began'[w].breached PROVE Hopeless(Equity)
    OBVIOUS
  <2>1. DayPnl(bills, Equity) <= -Limits.dailyLoss /\ Page(bills) = bills
    BY <1>1, PageShort DEF DayBreached, DayInv
  <2>2. QED
    BY <2>1 DEF Hopeless, DailyPnl, Page
<1>3. Noticed(w)'
  BY <1>1, <1>2 DEF Noticed, Hopeless, DailyPnl, DayPnl, Equity, Barred, Ordering
<1>4. ASSUME NEW v \in Workers, v # w
      PROVE  {"halted", "breached"} \subseteq DOMAIN began'[v] /\ Local(v)' /\ Noticed(v)'
  <2>1. job'[v] = job[v] /\ began'[v] = began[v]
    BY <1>1, <1>4 DEF DayInv
  <2>2. Noticed(v)'
    BY <1>1, <2>1 DEF DayInv, Noticed, Hopeless, DailyPnl, DayPnl, Equity
  <2>3. QED
    BY <2>1, <2>2 DEF DayInv, Local
<1>5. QED
  BY <1>1, <1>3, <1>4 DEF DayInv

LEMMA DayStop ==
  ASSUME DayInv, native' = native, NEW s \in Symbols, StopTriggers(s)
  PROVE  DayInv'
<1>1. bills' = <<StopLoss>> \o bills /\ UNCHANGED <<job, began>>
  BY DEF StopTriggers
<1>2. bills' \in Stops /\ Equity \in Int /\ Equity' \in Int /\ Equity' <= Equity
  <2>1. bills \in Stops /\ <<StopLoss>> \o bills \in Stops
    BY TotalFalls DEF DayInv
  <2>2. Total(bills) \in Int /\ Total(<<StopLoss>> \o bills) = StopLoss + Total(bills)
    BY <2>1, TotalFalls
  <2>3. Equity' = InitialEquity + Total(<<StopLoss>> \o bills)
    BY <1>1 DEF Equity
  <2>4. QED
    BY <1>1, <2>1, <2>2, <2>3, PipelineAssumption, SMTT(20) DEF Equity
<1>3. ASSUME NEW d \in Int, NEW e \in Int, e <= d, Hopeless(d)
      PROVE  e <= 0 \/ DayPnl(Page(<<StopLoss>> \o bills), e) <= -Limits.dailyLoss
  BY <1>3, StaysHopeless DEF DayInv
<1>5. ASSUME NEW w \in Workers, began[w].breached
      PROVE  Noticed(w)'
  <2>1. job[w].pc \in {"check", "balance"} => Hopeless(Equity)'
    <3> DEFINE f == Equity'
    <3> SUFFICES ASSUME job[w].pc \in {"check", "balance"} PROVE Hopeless(Equity)'
      OBVIOUS
    <3>1. Hopeless(Equity)
      BY <1>5 DEF DayInv, Noticed
    <3>2. f \in Int /\ f <= Equity
      BY <1>2
    <3> HIDE DEF f
    <3>3. f <= 0 \/ DayPnl(Page(<<StopLoss>> \o bills), f) <= -Limits.dailyLoss
      BY <1>2, <1>3, <3>1, <3>2
    <3>4. QED
      BY <1>1, <3>3 DEF f, Hopeless, DailyPnl, DayPnl, Equity, Page
  <2>2. job[w].pc \in {"positions", "bills"} => Hopeless(job[w].acct.equity)'
    <3> DEFINE e == job[w].acct.equity
    <3> SUFFICES ASSUME job[w].pc \in {"positions", "bills"} PROVE Hopeless(job[w].acct.equity)'
      OBVIOUS
    <3>1. Hopeless(e) /\ e \in Int
      BY <1>5 DEF DayInv, Noticed, Local
    <3>2. e' = e
      BY <1>1
    <3> HIDE DEF e
    <3>3. e <= 0 \/ DayPnl(Page(<<StopLoss>> \o bills), e) <= -Limits.dailyLoss
      BY <1>3, <3>1
    <3>4. Hopeless(e)'
      BY <1>1, <3>2, <3>3 DEF Hopeless, DailyPnl, DayPnl, Equity, Page
    <3>5. QED
      BY <3>4 DEF e
  <2>3. QED
    BY <1>1, <1>5, <2>1, <2>2 DEF DayInv, Noticed
<1>6. QED
  <2>1. \A w \in Workers : Noticed(w)'
    BY <1>1, <1>5 DEF Noticed
  <2>2. \A w \in Workers : Local(w)'
    BY <1>1 DEF DayInv, Local
  <2>3. QED
    BY <1>1, <1>2, <2>1, <2>2 DEF DayInv

LEMMA DayStep ==
  ASSUME DayInv, [Next]_vars
  PROVE  DayInv'
<1>0. native' = native
  BY DEF Next, vars
<1>1. ASSUME NEW w \in Workers, HandlerStep(w) PROVE DayInv'
  BY <1>0, <1>1, CheckWatched, BalanceWatched, PositionsWatched, BillsWatched, DecideWatched,
     LateStepsWatched, WatchedKeepsInv DEF HandlerStep
<1>2. ASSUME NEW w \in Workers, NEW r \in Requests, Receive(w, r) PROVE DayInv'
  BY <1>0, <1>2, DayReceive
<1>3. ASSUME NEW v \in Writers, NEW t \in Commands, SwitchBegins(v, t) PROVE DayInv'
  <2>1. /\ UNCHANGED <<job, bills>>
        /\ began' = [w \in Workers |-> [began[w] EXCEPT !.halted = FALSE]]
    BY <1>3 DEF SwitchBegins, exchangeVars
  <2>2. \A w \in Workers : /\ {"halted", "breached"} \subseteq DOMAIN began'[w]
                           /\ began'[w].breached = began[w].breached
    BY <2>1 DEF DayInv
  <2>3. \A w \in Workers : Noticed(w)'
    BY <1>0, <2>1, <2>2 DEF DayInv, Noticed, Hopeless, DailyPnl, DayPnl, Equity
  <2>4. QED
    BY <1>0, <2>1, <2>2, <2>3 DEF DayInv, Local
<1>4. ASSUME UNCHANGED <<job, began, bills>> PROVE DayInv'
  <2>1. \A w \in Workers : Noticed(w)'
    BY <1>0, <1>4 DEF DayInv, Noticed, Hopeless, DailyPnl, DayPnl, Equity
  <2>2. QED
    BY <1>0, <1>4, <2>1 DEF DayInv, Local
<1>5. ASSUME NEW s \in Symbols, StopTriggers(s) PROVE DayInv'
  BY <1>0, <1>5, DayStop
<1>6. CASE Crash
  <2>1. bills' = bills /\ \A w \in Workers : job'[w] = NoJob /\ began'[w] = Fresh
    BY <1>6 DEF Crash, exchangeVars
  <2>2. \A w \in Workers : Local(w)' /\ Noticed(w)'
    BY <2>1 DEF Local, Noticed, NoJob, NoAccount, Fresh
  <2>3. QED
    BY <1>0, <1>6, <2>1, <2>2 DEF Crash, DayInv, Fresh
<1>7. CASE (\E v \in Writers : SwitchWrites(v)) \/ UNCHANGED vars
  BY <1>4, <1>7 DEF SwitchWrites, vars, pipelineVars
<1>8. QED
  BY <1>1, <1>2, <1>3, <1>5, <1>6, <1>7 DEF Next, Step

(* For any threads, requests, symbols, limits and faults: a request that    *)
(* arrives after the day's realised loss has reached the limit, while the   *)
(* day's results fit one page of bills and the request for them gets rows   *)
(* for an answer, never gets to the exchange; stops that trigger between its*)
(* queries only make the account look worse.                                *)
THEOREM DailyLossHolds == Spec => []DailyLossBars
<1>1. DayInv => DailyLossBars
  BY DEF DayInv, Noticed, DailyLossBars, Barred
<1>2. QED
  BY <1>1, DayInit, DayStep, PTL DEF Spec

-----------------------------------------------------------------------------
(* The cap on the account. *)

Cap == Limits.maxNotional + OneUnit

\* What the handler of w may still add to the exposure: what its snapshot left
\* free, or the notional it was granted, and the rounding of the order.
Claim(w) ==
  IF job[w].pc \in {"bills", "risk"}
  THEN IF job[w].acct.exposure < Limits.maxNotional
       THEN Limits.maxNotional - job[w].acct.exposure + OneUnit ELSE 0
  ELSE IF job[w].pc \in Ordering THEN job[w].prop.notional + OneUnit ELSE 0

ClaimsOf(S) == SumFunctionOnSet([w \in Workers |-> Claim(w)], S)

Threads == IF noted.overlap THEN Cardinality(Workers) ELSE 1

\* What the cap may be taken up for: once for each thread that may hold a
\* snapshot, once for each snapshot that was an error.
Allowance == Threads + noted.misread

\* What is known of the request, the snapshot, the proposal and the size.
Known(w) ==
  /\ job[w].pc # "idle" => job[w].req \in Requests
  /\ job[w].pc \notin {"idle", "check"} => job[w].req.valid
  /\ job[w].pc \in {"bills", "risk"} =>
       /\ job[w].acct.exposure \in Nat
       /\ job[w].acct.bySymbol # Unknown =>
            \A s \in DOMAIN job[w].acct.bySymbol : job[w].acct.bySymbol[s] \in Int
  /\ job[w].pc \in Ordering =>
       /\ job[w].prop.symbol = SymbolOf(job[w].req)
       /\ job[w].prop.notional \in 1..Limits.maxNotional
  /\ job[w].pc \in {"leverage", "place"} =>
       /\ job[w].size \in Nat
       /\ job[w].size * (UnitValue(job[w].prop.symbol) * MarkPrice[job[w].prop.symbol])
            <= job[w].prop.notional + OneUnit

CapInv ==
  /\ pos \in [Symbols -> Int]
  /\ {"overlap", "misread"} \subseteq DOMAIN noted
  /\ noted.overlap \in BOOLEAN /\ noted.misread \in Nat
  /\ \A w \in Workers : Known(w)
  /\ ~noted.overlap =>
       \A v, w \in Workers : job[v].pc # "idle" /\ job[w].pc # "idle" => v = w
  /\ ExposureCounted + ClaimsOf(Workers) <= Allowance * Cap

\* Most steps leave alone what the bound on the exposure depends on.
SameBounds ==
  /\ {"overlap", "misread"} \subseteq DOMAIN noted'
  /\ noted'.overlap = noted.overlap /\ noted'.misread = noted.misread

-----------------------------------------------------------------------------
(* Values of units and of positions. *)

LEMMA UnitFits ==
  ASSUME native \in BOOLEAN
  PROVE  /\ OneUnit \in Nat
         /\ \A s \in Symbols : /\ UnitValue(s) \in Nat \ {0} /\ MarkPrice[s] \in Nat \ {0}
                               /\ UnitValue(s) * MarkPrice[s] \in Nat
                               /\ UnitValue(s) * MarkPrice[s] <= OneUnit
<1> DEFINE v == [s \in Symbols |-> UnitValue(s) * MarkPrice[s]]
           S == {UnitValue(s) * MarkPrice[s] : s \in Symbols}
<1>1. \A s \in Symbols : /\ UnitValue(s) \in Nat \ {0} /\ MarkPrice[s] \in Nat \ {0}
                         /\ UnitValue(s) * MarkPrice[s] \in Nat
  <2>1. ASSUME NEW s \in Symbols
        PROVE  UnitValue(s) \in Nat \ {0} /\ MarkPrice[s] \in Nat \ {0}
    BY PipelineAssumption DEF UnitValue
  <2>2. \A a, b \in Nat : a * b \in Nat
    OBVIOUS
  <2>3. QED
    BY <2>1, <2>2
<1>2. S # {} /\ S \subseteq Int /\ IsFiniteSet(S)
  <2>1. S # {} /\ S \subseteq Int
    BY <1>1, PipelineAssumption
  <2>2. v \in Surjection(Symbols, S)
    BY DEF Surjection
  <2>3. IsFiniteSet(S)
    <3> HIDE DEF v, S
    <3> QED
      BY <2>2, PipelineAssumption, FS_Surjection
  <2>4. QED
    BY <2>1, <2>3
<1>3. \E n \in S : \A m \in S : m <= n
  <2> HIDE DEF S
  <2> QED
    BY <1>2, LargestExists
<1>4. \E n \in S : \A s \in Symbols : UnitValue(s) * MarkPrice[s] <= n
  BY <1>3
<1>5. OneUnit \in S /\ \A s \in Symbols : UnitValue(s) * MarkPrice[s] <= OneUnit
  BY <1>4 DEF OneUnit
<1>6. OneUnit \in Nat
  BY <1>1, <1>5
<1>7. QED
  BY <1>1, <1>5, <1>6

LEMMA ClaimBounded ==
  ASSUME native \in BOOLEAN, NEW w \in Workers, Known(w)
  PROVE  Claim(w) \in Nat /\ Claim(w) <= Cap /\ Cap \in Nat
<1>1. OneUnit \in Nat /\ Limits.maxNotional \in Nat
  BY UnitFits, PipelineAssumption
<1>2. Cap = Limits.maxNotional + OneUnit
  BY DEF Cap
<1>3. CASE job[w].pc \in {"bills", "risk"}
  BY <1>1, <1>2, <1>3 DEF Known, Claim
<1>4. CASE job[w].pc \in Ordering
  <2>1. job[w].pc \notin {"bills", "risk"}
    BY <1>4 DEF Ordering
  <2>2. job[w].prop.notional \in Nat /\ job[w].prop.notional <= Limits.maxNotional
    BY <1>1, <1>4 DEF Known
  <2>3. QED
    BY <1>1, <1>2, <1>4, <2>1, <2>2 DEF Claim
<1>5. QED
  BY <1>1, <1>2, <1>3, <1>4 DEF Claim

\* The notionals of a book of positions.
Book(p) == [s \in Symbols |-> Magnitude(p[s]) * UnitValue(s) * MarkPrice[s]]

LEMMA ExposureOfBook ==
  /\ ExposureCounted = SumFunctionOnSet(Book(pos), Counted)
  /\ ExposureRead = ExposureCounted
BY DEF ExposureCounted, ExposureRead, Book, NotionalOf

LEMMA CountedFinite == Counted \subseteq Symbols /\ IsFiniteSet(Counted)
<1>1. Counted \subseteq Symbols
  BY PipelineAssumption DEF Counted
<1>2. QED
  BY <1>1, PipelineAssumption, FS_Subset

LEMMA ProductAssociates ==
  ASSUME NEW a \in Nat, NEW b \in Nat, NEW c \in Nat
  PROVE  a * b * c = a * (b * c) /\ a * (b * c) \in Nat
OBVIOUS

LEMMA MagnitudeIsNat == \A n \in Int : Magnitude(n) \in Nat
BY DEF Magnitude, Distance

LEMMA BookIsNat ==
  ASSUME native \in BOOLEAN, NEW p \in [Symbols -> Int], NEW s \in Symbols
  PROVE  /\ Book(p)[s] \in Nat
         /\ Book(p)[s] = Magnitude(p[s]) * (UnitValue(s) * MarkPrice[s])
<1>1. Magnitude(p[s]) \in Nat /\ UnitValue(s) \in Nat /\ MarkPrice[s] \in Nat
  BY MagnitudeIsNat, UnitFits
<1>2. QED
  BY <1>1, ProductAssociates DEF Book

LEMMA ExposureIsNat ==
  ASSUME native \in BOOLEAN, pos \in [Symbols -> Int]
  PROVE  ExposureCounted \in Nat
<1> DEFINE z == [s \in Symbols |-> 0]
<1>1. \A s \in Counted : Book(pos)[s] \in Int /\ z[s] \in Int /\ z[s] <= Book(pos)[s]
  BY BookIsNat, CountedFinite
<1>2. SumFunctionOnSet(Book(pos), Counted) \in Int
  BY <1>1, CountedFinite, SumIsInt
<1>3. SumFunctionOnSet(z, Counted) = 0
  BY CountedFinite, SumOfZeros
<1>4. SumFunctionOnSet(z, Counted) <= SumFunctionOnSet(Book(pos), Counted)
  <2> HIDE DEF z
  <2> QED
    BY <1>1, CountedFinite, SumMonotone
<1>5. QED
  BY <1>2, <1>3, <1>4, ExposureOfBook

\* What changing one position does to the exposure.
LEMMA ExposureGrows ==
  ASSUME native \in BOOLEAN, NEW p \in [Symbols -> Int], NEW s \in Symbols, NEW n \in Int,
         NEW k \in Nat, Magnitude(n) <= Magnitude(p[s]) + k
  PROVE  /\ [p EXCEPT ![s] = n] \in [Symbols -> Int]
         /\ SumFunctionOnSet(Book([p EXCEPT ![s] = n]), Counted)
              <= SumFunctionOnSet(Book(p), Counted) + k * (UnitValue(s) * MarkPrice[s])
<1> DEFINE q == [p EXCEPT ![s] = n]
           v == UnitValue(s) * MarkPrice[s]
<1>0. q \in [Symbols -> Int] /\ q[s] = n /\ \A t \in Symbols \ {s} : q[t] = p[t]
  OBVIOUS
<1>1. v \in Nat
  BY UnitFits
<1> HIDE DEF q
<1>2. \A t \in Symbols : Book(p)[t] \in Int /\ Book(q)[t] \in Int
  BY <1>0, BookIsNat
<1>3. \A t \in Symbols \ {s} : Book(q)[t] = Book(p)[t]
  BY <1>0 DEF Book
<1>4. Book(q)[s] <= Book(p)[s] + k * v
  <2>1. Book(q)[s] = Magnitude(n) * v /\ Book(p)[s] = Magnitude(p[s]) * v
    BY <1>0, BookIsNat
  <2>2. Magnitude(n) \in Nat /\ Magnitude(p[s]) \in Nat
    BY MagnitudeIsNat
  <2> HIDE DEF v
  <2>3. \A a, b \in Nat : a <= b + k => a * v <= b * v + k * v
    BY <1>1
  <2>4. QED
    BY <2>1, <2>2, <2>3
<1>5. k * v \in Nat
  BY <1>1
<1> HIDE DEF v
<1>6. SumFunctionOnSet(Book(p), Counted) \in Int /\ SumFunctionOnSet(Book(q), Counted) \in Int
  BY <1>2, CountedFinite, SumIsInt
<1>7. CASE s \in Counted
  <2>1. SumFunctionOnSet(Book(q), Counted)
          = SumFunctionOnSet(Book(p), Counted) - Book(p)[s] + Book(q)[s]
    <3>1. /\ \A t \in Counted : Book(p)[t] \in Int /\ Book(q)[t] \in Int
          /\ \A t \in Counted \ {s} : Book(p)[t] = Book(q)[t]
      BY <1>2, <1>3, CountedFinite
    <3>2. QED
      BY <1>7, <3>1, CountedFinite, SumChanged
  <2>2. Book(p)[s] \in Int /\ Book(q)[s] \in Int
    BY <1>2
  <2>3. QED
    BY <1>0, <1>4, <1>5, <1>6, <2>1, <2>2 DEF q, v
<1>8. CASE s \notin Counted
  <2>1. \A t \in Counted : Book(p)[t] \in Int /\ Book(p)[t] = Book(q)[t]
    BY <1>2, <1>3, <1>8, CountedFinite
  <2>2. SumFunctionOnSet(Book(p), Counted) = SumFunctionOnSet(Book(q), Counted)
    BY <2>1, CountedFinite, SumSame
  <2>3. QED
    BY <1>0, <1>5, <1>6, <2>2 DEF q, v
<1>9. QED
  BY <1>7, <1>8

-----------------------------------------------------------------------------
(* The claims of the requests being served. *)

LEMMA WorkersFinite == IsFiniteSet(Workers) /\ \A S \in SUBSET Workers : IsFiniteSet(S)
BY PipelineAssumption, FS_Subset DEF Workers

LEMMA ClaimsAreInts ==
  ASSUME native \in BOOLEAN, CapInv, NEW S \in SUBSET Workers
  PROVE  ClaimsOf(S) \in Int
<1>1. \A w \in S : [v \in Workers |-> Claim(v)][w] \in Int
  BY ClaimBounded DEF CapInv
<1>2. QED
  BY <1>1, WorkersFinite, SumIsInt DEF ClaimsOf

LEMMA CardinalityOfOthers ==
  ASSUME NEW w \in Workers
  PROVE  /\ Cardinality(Workers) \in Nat \ {0}
         /\ Cardinality(Workers \ {w}) = Cardinality(Workers) - 1
<1>1. Cardinality(Workers \ {w}) = Cardinality(Workers) - 1 /\ Cardinality(Workers) \in Nat
  BY WorkersFinite, FS_RemoveElement, FS_CardinalityType
<1>2. Cardinality(Workers \ {w}) \in Nat
  BY WorkersFinite, FS_CardinalityType
<1>3. QED
  BY <1>1, <1>2

\* While w is being served, the others claim at most what the other threads may.
LEMMA OthersClaim ==
  ASSUME native \in BOOLEAN, CapInv, NEW w \in Workers, job[w].pc # "idle"
  PROVE  Threads \in Nat \ {0} /\ ClaimsOf(Workers \ {w}) <= (Threads - 1) * Cap
<1> DEFINE f == [v \in Workers |-> Claim(v)]
           R == Workers \ {w}
<1>1. \A v \in R : f[v] \in Int /\ f[v] <= Cap /\ Cap \in Nat
  BY ClaimBounded DEF CapInv
<1>2. Cap \in Nat
  BY ClaimBounded DEF CapInv
<1>3. CASE noted.overlap
  <2>1. SumFunctionOnSet(f, R) <= Cardinality(R) * Cap
    <3> DEFINE c == Cap
    <3>1. c \in Int /\ IsFiniteSet(R)
      BY <1>2, WorkersFinite
    <3>2. \A v \in R : f[v] \in Int /\ f[v] <= c
      BY <1>1
    <3> HIDE DEF f, c, R
    <3>3. SumFunctionOnSet(f, R) <= Cardinality(R) * c
      BY <3>1, <3>2, SumBounded
    <3>4. QED
      BY <3>3 DEF c
  <2>2. QED
    BY <1>3, <2>1, CardinalityOfOthers DEF Threads, ClaimsOf
<1>4. CASE ~noted.overlap
  <2>1. \A v \in R : f[v] = 0
    BY <1>4 DEF CapInv, Claim, Ordering
  <2>2. SumFunctionOnSet(f, R) = 0
    <3> HIDE DEF f
    <3> QED
      BY <2>1, WorkersFinite, SumOfZeros
  <2>3. QED
    BY <1>2, <1>4, <2>2 DEF Threads, ClaimsOf
<1>5. QED
  BY <1>3, <1>4

LEMMA SameUnits ==
  ASSUME native' = native
  PROVE  /\ OneUnit' = OneUnit /\ Cap' = Cap /\ Counted' = Counted
         /\ \A s : UnitValue(s)' = UnitValue(s)
         /\ \A p : Book(p)' = Book(p)
BY DEF OneUnit, Cap, Counted, UnitValue, Book

\* What a step of one handler does to the exposure and to its claim: it trades
\* the one for the other, or takes a snapshot and claims what that left free, or takes
\* an error for a snapshot.
Booked(w) ==
  /\ job' = [job EXCEPT ![w] = job'[w]] /\ pos' \in [Symbols -> Int]
  /\ {"overlap", "misread"} \subseteq DOMAIN noted' /\ noted'.overlap = noted.overlap
  /\ job[w].pc # "idle" /\ Known(w)'
  /\ \/ /\ noted'.misread = noted.misread
        /\ ExposureCounted' + Claim(w)' <= ExposureCounted + Claim(w)
     \/ /\ noted'.misread = noted.misread
        /\ Claim(w) = 0 /\ ExposureCounted' = ExposureCounted
        /\ ExposureCounted + Claim(w)' = Cap
     \/ /\ noted'.misread = noted.misread + 1
        /\ Claim(w) = 0 /\ ExposureCounted' = ExposureCounted

LEMMA BookedKeepsInv ==
  ASSUME DayInv, CapInv, native' = native, NEW w \in Workers, Booked(w)
  PROVE  CapInv'
<1> DEFINE f == [v \in Workers |-> Claim(v)]
           g == [v \in Workers |-> Claim(v)']
           old == SumFunctionOnSet(f, Workers)
           new == SumFunctionOnSet(g, Workers)
           rest == SumFunctionOnSet(f, Workers \ {w})
<1>0. native \in BOOLEAN /\ native' \in BOOLEAN
  BY DEF DayInv
<1>1. ASSUME NEW v \in Workers, v # w
      PROVE  job'[v] = job[v] /\ Claim(v)' = Claim(v) /\ Known(v)'
  <2>1. job'[v] = job[v]
    BY <1>1 DEF DayInv, Booked
  <2>2. Claim(v)' = Claim(v)
    BY <2>1, SameUnits DEF Claim
  <2>3. Known(v)'
    BY <2>1, ZenonT(30) DEF CapInv, Known, UnitValue, OneUnit
  <2>4. QED
    BY <2>1, <2>2, <2>3
<1>2. \A v \in Workers : Known(v)'
  BY <1>1 DEF Booked
<1>3. \A v \in Workers : f[v] \in Int /\ f[v] >= 0
  BY <1>0, ClaimBounded DEF CapInv
<1>4. \A v \in Workers : g[v] \in Int /\ g[v] >= 0
  <2>1. ASSUME NEW v \in Workers PROVE Claim(v)' \in Nat
    <3>1. CASE v # w
      BY <1>0, <1>1, <3>1, ClaimBounded DEF CapInv
    <3>2. CASE v = w
      <4>1. (native \in BOOLEAN /\ Known(w) => Claim(w) \in Nat)'
        BY ClaimBounded, PTL
      <4>2. QED
        BY <1>0, <3>2, <4>1 DEF Booked
    <3>3. QED
      BY <3>1, <3>2
  <2>2. QED
    BY <2>1
<1>5. new = old - Claim(w) + Claim(w)' /\ old \in Int
  <2>1. f[w] = Claim(w) /\ g[w] = Claim(w)' /\ \A v \in Workers \ {w} : f[v] = g[v]
    BY <1>1
  <2> HIDE DEF f, g
  <2>2. new = old - f[w] + g[w]
    BY <1>3, <1>4, <2>1, WorkersFinite, SumChanged
  <2>3. old \in Int
    BY <1>3, WorkersFinite, SumIsInt
  <2>4. QED
    BY <2>1, <2>2, <2>3
<1>6. old = Claim(w) + rest /\ rest \in Int
  <2>1. f[w] = Claim(w)
    OBVIOUS
  <2> HIDE DEF f
  <2>2. old = f[w] + rest
    BY <1>3, WorkersFinite, SumWithout
  <2>3. rest \in Int
    BY <1>3, WorkersFinite, SumIsInt
  <2>4. QED
    BY <2>1, <2>2, <2>3
<1>7. Claim(w) \in Int /\ Claim(w)' \in Int
  BY <1>3, <1>4
<1>8. ExposureCounted \in Int /\ ExposureCounted' \in Int
  <2>1. ExposureCounted \in Nat
    BY <1>0, ExposureIsNat DEF CapInv
  <2>2. (native \in BOOLEAN /\ pos \in [Symbols -> Int] => ExposureCounted \in Nat)'
    BY ExposureIsNat, PTL
  <2>3. QED
    BY <1>0, <2>1, <2>2 DEF Booked
<1>9. Threads \in Nat \ {0} /\ rest <= (Threads - 1) * Cap /\ Cap \in Nat
  BY <1>0, OthersClaim, ClaimBounded DEF CapInv, Booked, ClaimsOf
<1>10. ExposureCounted + old <= Allowance * Cap
  BY DEF CapInv, ClaimsOf
<1>11. Threads' = Threads /\ noted.misread \in Nat /\ Allowance = Threads + noted.misread
       /\ Allowance' = Threads + noted'.misread
  BY DEF Threads, Booked, CapInv, Allowance
<1>12. noted'.misread \in Nat /\ ExposureCounted' + new <= Allowance' * Cap
  <2> DEFINE m == noted.misread
             t == Threads
             c == Cap
  <2>0. /\ m \in Nat /\ t \in Nat \ {0} /\ c \in Nat
        /\ rest <= (t - 1) * c /\ ExposureCounted + old <= (t + m) * c
        /\ (t - 1) * c \in Int /\ (t + m) * c \in Int /\ m * c \in Nat
    <3>1. m \in Nat /\ t \in Nat \ {0} /\ c \in Nat
      BY <1>9, <1>11
    <3> HIDE DEF m, t, c
    <3>2. (t - 1) * c \in Int /\ (t + m) * c \in Int /\ m * c \in Nat
      BY <3>1
    <3> HIDE DEF old, rest
    <3>3. rest <= (t - 1) * c /\ ExposureCounted + old <= (t + m) * c
      BY <1>9, <1>10, <1>11 DEF m, t, c
    <3>4. QED
      BY <3>1, <3>2, <3>3
  <2>0a. Allowance' = t + noted'.misread
    BY <1>11
  <2> HIDE DEF old, new, rest, t, c
  <2>1. CASE noted'.misread = m /\ ExposureCounted' + Claim(w)' <= ExposureCounted + Claim(w)
    <3>1. ExposureCounted' + new <= (t + m) * c
      BY <1>5, <1>7, <1>8, <2>0, <2>1
    <3>2. QED
      BY <2>0, <2>0a, <2>1, <3>1 DEF c
  <2>2. CASE /\ noted'.misread = m /\ Claim(w) = 0 /\ ExposureCounted' = ExposureCounted
             /\ ExposureCounted + Claim(w)' = Cap
    <3>1. (t + m) * c = (t - 1) * c + c + m * c
      BY <2>0
    <3>2. ExposureCounted' + new <= (t + m) * c
      BY <1>5, <1>6, <1>7, <1>8, <2>0, <2>2, <3>1 DEF c
    <3>3. QED
      BY <2>0, <2>0a, <2>2, <3>2 DEF c
  <2>3. CASE /\ noted'.misread = m + 1 /\ Claim(w) = 0 /\ ExposureCounted' = ExposureCounted
    <3>1. (t + (m + 1)) * c = (t + m) * c + c /\ (t + (m + 1)) * c \in Int
      BY <2>0
    <3>2. Claim(w)' <= c
      <4>1. (native \in BOOLEAN /\ Known(w) => Claim(w) <= Cap)'
        BY ClaimBounded, PTL
      <4>2. QED
        BY <1>0, <4>1, SameUnits DEF Booked, c
    <3>3. ExposureCounted' + new <= (t + (m + 1)) * c
      BY <1>5, <1>7, <1>8, <2>0, <2>3, <3>1, <3>2
    <3>4. QED
      BY <2>0, <2>0a, <2>3, <3>3 DEF c
  <2>4. QED
    BY <2>1, <2>2, <2>3 DEF Booked, m
<1>12a. Cap' = Cap /\ ClaimsOf(Workers)' = new
  BY SameUnits DEF ClaimsOf
<1>13. ~noted'.overlap =>
         \A u, v \in Workers : job'[u].pc # "idle" /\ job'[v].pc # "idle" => u = v
  BY <1>1 DEF Booked, CapInv
<1>14. QED
  <2>1. ExposureCounted' + ClaimsOf(Workers)' <= Allowance' * Cap'
    BY <1>12, <1>12a
  <2>2. QED
    BY <1>2, <1>12, <1>13, <2>1 DEF CapInv, Booked

-----------------------------------------------------------------------------
(* What each action does to the exposure and the claims. *)

LEMMA SameExposure ==
  ASSUME UNCHANGED <<native, pos>>
  PROVE  ExposureCounted' = ExposureCounted
BY DEF ExposureCounted, NotionalOf, UnitValue, Counted

\* No position changes, and w claims no more than before.
LEMMA StepBooked ==
  ASSUME DayInv, CapInv, native' = native, NEW w \in Workers, UNCHANGED pos,
         SameBounds,
         job' = [job EXCEPT ![w] = job'[w]], job[w].pc # "idle",
         Known(w)', Claim(w)' <= Claim(w)
  PROVE  Booked(w)
<1>1. ExposureCounted' = ExposureCounted
  BY SameExposure
<1>2. Claim(w) \in Int /\ ExposureCounted \in Int
  BY ClaimBounded, ExposureIsNat DEF DayInv, CapInv
<1>3. Claim(w)' \in Int
  <2>1. (native \in BOOLEAN /\ Known(w) => Claim(w) \in Nat)'
    BY ClaimBounded, PTL
  <2>2. QED
    BY <2>1 DEF DayInv
<1>4. ExposureCounted' + Claim(w)' <= ExposureCounted + Claim(w)
  BY <1>1, <1>2, <1>3
<1>5. QED
  BY <1>4 DEF Booked, CapInv, SameBounds

LEMMA FinishBooked ==
  ASSUME DayInv, CapInv, native' = native, NEW w \in Workers, Finish(w), UNCHANGED pos,
         SameBounds, job[w].pc # "idle"
  PROVE  Booked(w)
<1>1. job' = [job EXCEPT ![w] = job'[w]] /\ job'[w].pc = "idle"
  BY DEF Finish, NoJob, DayInv
<1>2. Known(w)' /\ Claim(w)' = 0
  BY <1>1 DEF Known, Claim, Ordering
<1>3. Claim(w) >= 0
  BY ClaimBounded DEF DayInv, CapInv
<1>4. QED
  BY <1>1, <1>2, <1>3, StepBooked

LEMMA RaiseBooked ==
  ASSUME DayInv, CapInv, native' = native, NEW w \in Workers, Raise(w), job[w].pc # "idle"
  PROVE  Booked(w)
BY FinishBooked DEF Raise, exchangeVars, CapInv, SameBounds

LEMMA CheckBooked ==
  ASSUME DayInv, CapInv, native' = native, NEW w \in Workers,
         CheckDuplicate(w) \/ RefuseDuplicate(w) \/ Parse(w)
  PROVE  Booked(w)
<1>0. job[w].pc = "check"
  BY DEF CheckDuplicate, RefuseDuplicate, Parse, At
<1>1. CASE Raise(w)
  BY <1>0, <1>1, RaiseBooked
<1>2. CASE CheckDuplicate(w)
  <2>1. UNCHANGED <<job, pos, noted>> /\ job' = [job EXCEPT ![w] = job'[w]]
    BY <1>2 DEF CheckDuplicate, pipelineVars, DayInv
  <2>2. Known(w)' /\ Claim(w)' = Claim(w) /\ Claim(w) \in Nat
    BY <2>1, <1>0, ClaimBounded, SameUnits DEF CapInv, DayInv, Known, Claim, Ordering
  <2>3. QED
    BY <1>0, <2>1, <2>2, StepBooked DEF CapInv, SameBounds
<1>3. CASE Parse(w) /\ ~Raise(w)
  <2>1. /\ job' = [job EXCEPT ![w].pc = "balance"] /\ job[w].req.valid
        /\ UNCHANGED <<pos, noted>>
    BY <1>3 DEF Parse, Move, LocalOnly, exchangeVars
  <2>2. /\ job' = [job EXCEPT ![w] = job'[w]] /\ job'[w].pc = "balance"
        /\ job'[w].req = job[w].req
    BY <2>1 DEF DayInv, Local
  <2>3. Known(w)' /\ Claim(w)' = 0 /\ Claim(w) = 0
    BY <1>0, <2>1, <2>2 DEF CapInv, Known, Claim, Ordering
  <2>4. QED
    <3>1. /\ UNCHANGED pos /\ SameBounds
          /\ job[w].pc # "idle" /\ Claim(w)' <= Claim(w)
      BY <1>0, <2>1, <2>3 DEF CapInv, SameBounds
    <3>2. QED
      BY <2>1, <2>2, <2>3, <3>1, StepBooked
<1>4. QED
  BY <1>1, <1>2, <1>3 DEF RefuseDuplicate

LEMMA BalanceBooked ==
  ASSUME DayInv, CapInv, native' = native, NEW w \in Workers, SyncBalance(w)
  PROVE  Booked(w)
<1>0. job[w].pc = "balance"
  BY DEF SyncBalance, At
<1>1. CASE Raise(w)
  BY <1>0, <1>1, RaiseBooked
<1>2. CASE ~Raise(w)
  <2>1. UNCHANGED <<pos, noted>>
    BY <1>2, BalanceRead
  <2>a. PICK equity \in {Equity, 0} : \E used : \E free :
          job' = [job EXCEPT ![w].pc = "positions", ![w].acct.equity = equity,
                             ![w].acct.used = used, ![w].acct.available = free]
    BY <1>2, BalanceRead
  <2>b. PICK used : \E free :
          job' = [job EXCEPT ![w].pc = "positions", ![w].acct.equity = equity,
                             ![w].acct.used = used, ![w].acct.available = free]
    BY <2>a
  <2>c. PICK free :
          job' = [job EXCEPT ![w].pc = "positions", ![w].acct.equity = equity,
                             ![w].acct.used = used, ![w].acct.available = free]
    BY <2>b
  <2>2. /\ job' = [job EXCEPT ![w] = job'[w]] /\ job'[w].pc = "positions"
        /\ job'[w].req = job[w].req
    BY <2>c DEF DayInv, Local
  <2>3. Known(w)' /\ Claim(w)' = 0 /\ Claim(w) = 0
    BY <1>0, <2>1, <2>2 DEF CapInv, Known, Claim, Ordering
  <2>4. QED
    <3>1. /\ UNCHANGED pos /\ SameBounds
          /\ job[w].pc # "idle" /\ Claim(w)' <= Claim(w)
      BY <1>0, <2>1, <2>3 DEF CapInv, SameBounds
    <3>2. QED
      BY <2>1, <2>2, <2>3, <3>1, StepBooked
<1>3. QED
  BY <1>1, <1>2

\* A snapshot of the positions.
LEMMA SnapshotBooked ==
  ASSUME DayInv, CapInv, native' = native, NEW w \in Workers, job[w].pc = "positions",
         UNCHANGED pos, SameBounds, NEW exposure \in Nat, NEW bySymbol, NEW far,
         job' = [job EXCEPT ![w].pc = "bills", ![w].acct.exposure = exposure,
                            ![w].acct.bySymbol = bySymbol, ![w].acct.distance = far],
         bySymbol # Unknown => \A s \in DOMAIN bySymbol : bySymbol[s] \in Int,
         exposure = ExposureCounted
  PROVE  Booked(w)
<1>2. /\ job' = [job EXCEPT ![w] = job'[w]] /\ job'[w].pc = "bills"
      /\ job'[w].req = job[w].req /\ job'[w].acct.exposure = exposure
      /\ job'[w].acct.bySymbol = bySymbol
  BY DEF DayInv, Local
<1>3. ExposureCounted \in Nat /\ ExposureCounted' = ExposureCounted
  BY ExposureIsNat, SameExposure DEF DayInv, CapInv
<1>5. Known(w)'
  BY <1>2 DEF CapInv, Known, Ordering
<1>6. Claim(w) = 0
  BY DEF Claim, Ordering
<1>7. Claim(w)' = IF exposure < Limits.maxNotional
                  THEN Limits.maxNotional - exposure + OneUnit ELSE 0
  BY <1>2, SameUnits DEF Claim
<1>8. OneUnit \in Nat /\ Limits.maxNotional \in Nat
  BY UnitFits, PipelineAssumption DEF DayInv
<1>9. \/ ExposureCounted' + Claim(w)' <= ExposureCounted + Claim(w)
      \/ /\ Claim(w) = 0 /\ ExposureCounted' = ExposureCounted
         /\ ExposureCounted + Claim(w)' = Cap
  BY <1>3, <1>6, <1>7, <1>8 DEF Cap
<1>10. QED
  BY <1>2, <1>5, <1>9 DEF Booked, CapInv, SameBounds

\* An error in place of a snapshot, while there is something to miss.
LEMMA MisreadBooked ==
  ASSUME DayInv, CapInv, native' = native, NEW w \in Workers, job[w].pc = "positions",
         UNCHANGED pos, noted' = [noted EXCEPT !.misread = @ + 1],
         job' = [job EXCEPT ![w].pc = "bills", ![w].acct.exposure = 0,
                            ![w].acct.bySymbol = Unknown, ![w].acct.distance = <<>>]
  PROVE  Booked(w)
<1>1. /\ job' = [job EXCEPT ![w] = job'[w]] /\ job'[w].pc = "bills"
      /\ job'[w].req = job[w].req /\ job'[w].acct.exposure = 0
      /\ job'[w].acct.bySymbol = Unknown
  BY DEF DayInv, Local
<1>2. ExposureCounted' = ExposureCounted /\ Claim(w) = 0
  BY SameExposure DEF Claim, Ordering
<1>3. Known(w)'
  BY <1>1 DEF CapInv, Known, Ordering
<1>4. QED
  BY <1>1, <1>2, <1>3 DEF Booked, CapInv

LEMMA PositionsBooked ==
  ASSUME DayInv, CapInv, native' = native, NEW w \in Workers, SyncPositions(w)
  PROVE  Booked(w)
<1>0. job[w].pc = "positions"
  BY DEF SyncPositions, At
<1>1. CASE Raise(w)
  BY <1>0, <1>1, RaiseBooked
<1>2. CASE ~Raise(w)
  <2> DEFINE far == IF native THEN [s \in Held |-> LiquidationBase - Exposure] ELSE <<>>
  <2>1. /\ pos' = pos
        /\ \/ /\ job' = [job EXCEPT ![w].pc = "bills", ![w].acct.exposure = ExposureRead,
                              ![w].acct.bySymbol = BySymbol, ![w].acct.distance = far]
              /\ noted' = noted
           \/ /\ job' = [job EXCEPT ![w].pc = "bills", ![w].acct.exposure = 0,
                              ![w].acct.bySymbol = Unknown, ![w].acct.distance = <<>>]
              /\ noted' = [noted EXCEPT !.misread = @ + (IF ExposureRead > 0 THEN 1 ELSE 0)]
    BY <1>2 DEF SyncPositions, CallRaises, LocalOnly, exchangeVars
  <2> HIDE DEF far
  <2>2. ExposureRead = ExposureCounted /\ ExposureCounted \in Nat
    BY ExposureOfBook, ExposureIsNat DEF DayInv, CapInv
  <2>3. CASE /\ job' = [job EXCEPT ![w].pc = "bills", ![w].acct.exposure = ExposureRead,
                              ![w].acct.bySymbol = BySymbol, ![w].acct.distance = far]
             /\ noted' = noted
    <3>1. BySymbol # Unknown => \A s \in DOMAIN BySymbol : BySymbol[s] \in Int
      <4>1. \A s \in Held : NotionalOf(s) = Book(pos)[s] /\ Book(pos)[s] \in Int
        BY BookIsNat DEF Held, NotionalOf, Book, DayInv, CapInv
      <4>2. QED
        BY <4>1 DEF BySymbol
    <3>2. SameBounds
      BY <2>3 DEF CapInv, SameBounds
    <3>3. QED
      BY <1>0, <2>1, <2>2, <2>3, <3>1, <3>2, SnapshotBooked
  <2>4. CASE /\ job' = [job EXCEPT ![w].pc = "bills", ![w].acct.exposure = 0,
                              ![w].acct.bySymbol = Unknown, ![w].acct.distance = <<>>]
             /\ noted' = [noted EXCEPT !.misread = @ + (IF ExposureRead > 0 THEN 1 ELSE 0)]
    <3>1. CASE ExposureRead > 0
      BY <1>0, <2>1, <2>4, <3>1, MisreadBooked
    <3>2. CASE ExposureRead = 0
      <4>1. SameBounds
        BY <2>4, <3>2 DEF CapInv, SameBounds
      <4>2. QED
        BY <1>0, <2>1, <2>2, <2>4, <3>2, <4>1, SnapshotBooked
    <3>3. QED
      BY <2>2, <3>1, <3>2
  <2>5. QED
    BY <2>1, <2>3, <2>4
<1>3. QED
  BY <1>1, <1>2

LEMMA BillsBooked ==
  ASSUME DayInv, CapInv, native' = native, NEW w \in Workers, SyncBills(w)
  PROVE  Booked(w)
<1>0. job[w].pc = "bills"
  BY DEF SyncBills, At
<1>1. CASE Raise(w)
  BY <1>0, <1>1, RaiseBooked
<1>2. CASE ~Raise(w)
  <2>1. UNCHANGED <<pos, noted>>
    BY <1>2 DEF SyncBills, CallRaises, LocalOnly, exchangeVars
  <2>1a. PICK pnl : job' = [job EXCEPT ![w].pc = "risk", ![w].acct.pnl = pnl]
    BY <1>2 DEF SyncBills, CallRaises
  <2>2. /\ job' = [job EXCEPT ![w] = job'[w]] /\ job'[w].pc = "risk"
        /\ job'[w].req = job[w].req
        /\ job'[w].acct.exposure = job[w].acct.exposure
        /\ job'[w].acct.bySymbol = job[w].acct.bySymbol
    BY <2>1a DEF DayInv, Local
  <2>3. Known(w)'
    BY <1>0, <2>2 DEF CapInv, Known, Ordering
  <2>4. Claim(w)' = Claim(w)
    BY <1>0, <2>2, SameUnits DEF Claim
  <2>5. Claim(w) \in Nat
    BY ClaimBounded DEF CapInv, DayInv
  <2>6. QED
    <3>1. /\ UNCHANGED pos /\ SameBounds
          /\ job[w].pc # "idle" /\ Claim(w)' <= Claim(w)
      BY <1>0, <2>1, <2>4, <2>5 DEF CapInv, SameBounds
    <3>2. QED
      BY <2>2, <2>3, <3>1, StepBooked
<1>3. QED
  BY <1>1, <1>2

\* Sizing computes whole amounts from whole amounts.
LEMMA SizingIsInt ==
  ASSUME NEW sig, NEW a, sig.entry \in Int, sig.stop \in Int, a.equity \in Int
  PROVE  DesiredNotional(sig, a, RiskFraction) \in Int
<1> DEFINE budget == AtLeast(a.equity * AtLeast(RiskFraction, 0), 0)
           entry  == AtLeast(sig.entry, 0)
           stop   == Distance(sig.entry, sig.stop)
<1>1. budget \in Int /\ entry \in Int /\ stop \in Int
  <2>1. AtLeast(RiskFraction, 0) \in Int
    BY PipelineAssumption DEF AtLeast
  <2>2. a.equity * AtLeast(RiskFraction, 0) \in Int
    BY <2>1
  <2>3. QED
    BY <2>2 DEF AtLeast, Distance
<1> HIDE DEF budget, entry, stop
<1>2. budget \div 100 \in Int
  BY <1>1
<1>3. budget * entry \in Int /\ (stop > 0 => 100 * stop \in Nat \ {0})
  BY <1>1
<1>4. stop > 0 => (budget * entry) \div (100 * stop) \in Int
  BY <1>3
<1>5. QED
  BY <1>2, <1>4 DEF DesiredNotional, budget, entry, stop

\* A proposal the gate approves fits what the snapshot left free.
LEMMA ApprovedFits ==
  ASSUME DayInv, CapInv, NEW w \in Workers, job[w].pc = "risk",
         Approved(Proposal(w), job[w].acct, EffectiveLimits, AllowedSymbols)
  PROVE  /\ Proposal(w).symbol = SymbolOf(job[w].req)
         /\ Proposal(w).notional \in 1..Limits.maxNotional
         /\ Proposal(w).notional <= Limits.maxNotional - job[w].acct.exposure
<1> DEFINE p == Proposal(w)
           a == job[w].acct
           d == DesiredNotional(job[w].req, a, RiskFraction)
           room == RemainingCapacity(a, EffectiveLimits, SymbolOf(job[w].req))
<1>1. a.exposure \in Nat /\ a.equity \in Int /\ job[w].req \in Requests /\ job[w].req.valid
  BY DEF DayInv, Local, CapInv, Known
<1>2. /\ EffectiveLimits.maxNotional = Limits.maxNotional
      /\ EffectiveLimits.maxPerSymbol \in Int
  BY PipelineAssumption DEF EffectiveLimits, ApplyControlState
<1>3. d \in Int
  <2>1. job[w].req.entry \in Int /\ job[w].req.stop \in Int
    BY <1>1, SignalAssumption
  <2>2. QED
    BY <1>1, <2>1, SizingIsInt
<1>4. a.bySymbol # Unknown => Existing(a, SymbolOf(job[w].req)) \in Int
  BY DEF CapInv, Known, Existing
<1>5. p.symbol = SymbolOf(job[w].req) /\ p.notional = Rounded(AtMost(d, room))
  BY DEF Proposal, BuildTradeProposal
<1> HIDE DEF p, d
<1>6. room \in Int
  BY <1>1, <1>2, <1>4, PipelineAssumption DEF RemainingCapacity, AtLeast, AtMost
<1>7. p.notional \in Int
  <2>1. AtMost(d, room) \in Int
    BY <1>3, <1>6 DEF AtMost
  <2>2. QED
    BY <1>5, <2>1, RoundedIsInt
<1>8. p.notional > 0 /\ a.exposure + p.notional <= Limits.maxNotional
  BY <1>1, <1>2, <1>7, PipelineAssumption DEF Approved, OutOfRange, NotionalExceeded, p
<1>9. QED
  BY <1>1, <1>5, <1>7, <1>8, PipelineAssumption DEF p

LEMMA DecideBooked ==
  ASSUME DayInv, CapInv, native' = native, NEW w \in Workers, Decide(w)
  PROVE  Booked(w)
<1>0. job[w].pc = "risk"
  BY DEF Decide, At
<1>1. CASE Raise(w)
  BY <1>0, <1>1, RaiseBooked
<1>2. CASE ~Raise(w)
  <2> DEFINE ok == Approved(Proposal(w), job[w].acct, EffectiveLimits, AllowedSymbols)
             p == Proposal(w)
             next == IF ok THEN "contract" ELSE "audit"
             status == IF ok THEN "none" ELSE "blocked"
  <2>1. /\ job' = [job EXCEPT ![w].prop = p, ![w].pc = next, ![w].status = status]
        /\ UNCHANGED <<pos, noted>>
    BY <1>2 DEF Decide, LocalOnly, exchangeVars
  <2>2. next = "contract" =>
          /\ p.symbol = SymbolOf(job[w].req)
          /\ p.notional \in 1..Limits.maxNotional
          /\ p.notional <= Limits.maxNotional - job[w].acct.exposure
    BY <1>0, ApprovedFits
  <2>3. next \in {"contract", "audit"}
    OBVIOUS
  <2> HIDE DEF ok, p, next, status
  <2>4. /\ job' = [job EXCEPT ![w] = job'[w]] /\ job'[w].pc = next
        /\ job'[w].req = job[w].req /\ job'[w].prop = p
    BY <2>1 DEF DayInv, Local
  <2>5. /\ job[w].req \in Requests /\ job[w].req.valid /\ job[w].acct.exposure \in Nat
    BY <1>0 DEF CapInv, Known
  <2>6. Known(w)'
    BY <2>2, <2>3, <2>4, <2>5 DEF Known, SymbolOf, Ordering
  <2>7. Claim(w)' <= Claim(w)
    <3>1. OneUnit \in Nat /\ OneUnit' = OneUnit /\ Limits.maxNotional \in Nat
      BY UnitFits, SameUnits, PipelineAssumption DEF DayInv
    <3>2. Claim(w) = IF job[w].acct.exposure < Limits.maxNotional
                     THEN Limits.maxNotional - job[w].acct.exposure + OneUnit ELSE 0
      BY <1>0 DEF Claim
    <3>3. CASE next = "contract"
      <4>1. Claim(w)' = p.notional + OneUnit
        BY <2>4, <3>1, <3>3 DEF Claim, Ordering
      <4>2. QED
        BY <2>2, <2>5, <3>1, <3>2, <3>3, <4>1
    <3>4. CASE next = "audit"
      <4>1. Claim(w)' = 0
        BY <2>4, <3>4 DEF Claim, Ordering
      <4>2. QED
        BY <2>5, <3>1, <3>2, <4>1
    <3>5. QED
      BY <2>3, <3>3, <3>4
  <2>8. /\ UNCHANGED pos /\ SameBounds
        /\ job[w].pc # "idle"
    BY <1>0, <2>1 DEF CapInv, SameBounds
  <2>9. QED
    BY <2>4, <2>6, <2>7, <2>8, StepBooked
<1>3. QED
  BY <1>1, <1>2

\* Rounding to even overshoots by at most one unit, and so does taking at least
\* one.
LEMMA SizeOvershoots ==
  ASSUME NEW n \in Nat \ {0}, NEW price \in Nat \ {0}, NEW value \in Nat \ {0},
         native \/ value = 1
  PROVE  /\ OrderSize(n, price, value) \in Nat
         /\ \/ OrderSize(n, price, value) = 0
            \/ (OrderSize(n, price, value) - 1) * (price * value) <= n
<1>1. ASSUME NEW d \in Nat \ {0}
      PROVE  /\ RoundHalfEven(n, d) \in Nat
             /\ RoundHalfEven(n, d) = 0 \/ (RoundHalfEven(n, d) - 1) * d <= n
  <2> DEFINE q == n \div d
  <2>1. q \in Nat /\ q * d <= n
    BY DivisionBounds
  <2>2. RoundHalfEven(n, d) \in {q, q + 1}
    BY DEF RoundHalfEven
  <2> HIDE DEF q
  <2>3. (q - 1) * d <= q * d /\ (q + 1 - 1) * d = q * d
    BY <2>1
  <2>4. CASE RoundHalfEven(n, d) = q
    <3>1. (q - 1) * d \in Int /\ q * d \in Int
      BY <2>1
    <3>2. (q - 1) * d <= n
      BY <2>1, <2>3, <3>1
    <3>3. QED
      BY <2>1, <2>4, <3>2
  <2>5. CASE RoundHalfEven(n, d) = q + 1
    <3>1. (RoundHalfEven(n, d) - 1) * d <= n
      BY <2>1, <2>3, <2>5
    <3>2. QED
      BY <2>1, <2>5, <3>1
  <2>6. QED
    BY <2>2, <2>4, <2>5
<1>2. price * value \in Nat \ {0}
  OBVIOUS
<1> DEFINE d == price * value
           s == RoundHalfEven(n, d)
<1>3. s \in Nat /\ (s = 0 \/ (s - 1) * d <= n)
  BY <1>1, <1>2
<1>4. CASE native
  <2>1. OrderSize(n, price, value) = AtLeast(s, 1)
    BY <1>4 DEF OrderSize, ContractSize
  <2> HIDE DEF s, d
  <2>2. CASE s >= 1
    BY <1>3, <2>1, <2>2 DEF AtLeast, d
  <2>3. CASE s = 0
    <3>1. OrderSize(n, price, value) = 1
      BY <2>1, <2>3 DEF AtLeast
    <3>2. (1 - 1) * (price * value) = 0
      BY <1>2
    <3>3. QED
      BY <3>1, <3>2
  <2>4. QED
    BY <1>3, <2>2, <2>3
<1>5. CASE ~native
  <2> DEFINE r == RoundHalfEven(n, price)
  <2>1. OrderSize(n, price, value) = r
    BY <1>5 DEF OrderSize
  <2>2. r \in Nat /\ (r = 0 \/ (r - 1) * price <= n)
    BY <1>1
  <2>3. price * value = price
    BY <1>5
  <2> HIDE DEF r
  <2>4. QED
    BY <2>1, <2>2, <2>3
<1>6. QED
  BY <1>4, <1>5

\* The order is worth at most the notional and one unit, at the price there is.
LEMMA SizeFits ==
  ASSUME QuotedAtMarket, DayInv, CapInv, NEW w \in Workers, job[w].pc = "contract",
         Sizable(job[w].req.entry, UnitValue(job[w].prop.symbol))
  PROVE  LET p == job[w].prop
             size == OrderSize(p.notional, job[w].req.entry, UnitValue(p.symbol))
         IN  /\ size \in Nat
             /\ size * (UnitValue(p.symbol) * MarkPrice[p.symbol]) <= p.notional + OneUnit
<1> DEFINE p == job[w].prop
           n == p.notional
           price == job[w].req.entry
           value == UnitValue(p.symbol)
           mark == MarkPrice[p.symbol]
           size == OrderSize(n, price, value)
<1>1. /\ job[w].req \in Requests /\ job[w].req.valid
      /\ p.symbol = SymbolOf(job[w].req) /\ n \in 1..Limits.maxNotional
  BY DEF CapInv, Known, Ordering
<1>2. /\ p.symbol \in Symbols
      /\ price \in Int /\ (price <= 0 \/ price >= mark)
  <2>1. p.symbol \in Symbols /\ price \in Int
    BY <1>1, SignalAssumption, PipelineAssumption DEF SymbolOf
  <2>2. price <= 0 \/ price >= mark
    BY <1>1 DEF QuotedAtMarket
  <2>3. QED
    BY <2>1, <2>2
<1>3. /\ value \in Nat \ {0} /\ mark \in Nat \ {0} /\ value * mark \in Nat
      /\ value * mark <= OneUnit /\ OneUnit \in Nat
  BY <1>2, UnitFits DEF DayInv
<1>4. n \in Nat \ {0}
  BY <1>1, PipelineAssumption
<1>5. price \in Nat \ {0} /\ price >= mark
  BY <1>2, <1>3 DEF Sizable
<1>6. native \/ value = 1
  BY DEF UnitValue
<1> HIDE DEF n, price, value, mark
<1>7. size \in Nat /\ (size = 0 \/ (size - 1) * (price * value) <= n)
  BY <1>3, <1>4, <1>5, <1>6, SizeOvershoots
<1> HIDE DEF size
<1>8. size * (value * mark) <= n + OneUnit
  <2>1. CASE size = 0
    <3>1. size * (value * mark) = 0
      BY <1>3, <2>1
    <3>2. QED
      BY <1>3, <1>4, <3>1
  <2>2. CASE size # 0
    <3>1. size - 1 \in Nat
      BY <1>7, <2>2
    <3>2. value * mark <= price * value
      BY <1>3, <1>5
    <3>3. price * value \in Nat
      BY <1>3, <1>5
    <3>4. \A x, a, b \in Nat : a <= b => x * a <= x * b
      OBVIOUS
    <3>5. (size - 1) * (value * mark) <= (size - 1) * (price * value)
      BY <1>3, <3>1, <3>2, <3>3, <3>4
    <3>6. size * (value * mark) = (size - 1) * (value * mark) + value * mark
      BY <1>3, <1>7
    <3>7. (size - 1) * (value * mark) \in Nat /\ (size - 1) * (price * value) \in Nat
      BY <1>3, <3>1, <3>3
    <3>8. QED
      BY <1>3, <1>4, <1>7, <2>2, <3>5, <3>6, <3>7
  <2>3. QED
    BY <2>1, <2>2
<1>9. QED
  BY <1>7, <1>8 DEF n, price, value, mark, size

LEMMA SizeBooked ==
  ASSUME QuotedAtMarket, DayInv, CapInv, native' = native, NEW w \in Workers, SizeOrder(w)
  PROVE  Booked(w)
<1>0. job[w].pc = "contract"
  BY DEF SizeOrder, At
<1>1. CASE Raise(w)
  BY <1>0, <1>1, RaiseBooked
<1>2. CASE ~Raise(w)
  <2> DEFINE size == OrderSize(job[w].prop.notional, job[w].req.entry,
                               UnitValue(job[w].prop.symbol))
             status == IF ~ExecutionEnabled THEN "disabled"
                       ELSE IF PaperMode THEN "paper" ELSE "none"
             next == IF ExecutionEnabled /\ ~PaperMode THEN "leverage" ELSE "audit"
             s == job[w].prop.symbol
  <2>1. /\ job' = [job EXCEPT ![w].size = size, ![w].status = status, ![w].pc = next]
        /\ UNCHANGED <<pos, noted>>
    BY <1>2 DEF SizeOrder, CallRaises, LocalOnly, exchangeVars
  <2>2. /\ size \in Nat
        /\ size * (UnitValue(s) * MarkPrice[s]) <= job[w].prop.notional + OneUnit
    <3>1. Sizable(job[w].req.entry, UnitValue(s))
      BY <1>2 DEF SizeOrder, CallRaises
    <3>2. QED
      BY <1>0, <3>1, SizeFits
  <2>3. next \in {"leverage", "audit"}
    OBVIOUS
  <2>4. OneUnit' = OneUnit
    BY SameUnits
  <2> HIDE DEF size, status, next
  <2>5. /\ job' = [job EXCEPT ![w] = job'[w]] /\ job'[w].pc = next
        /\ job'[w].req = job[w].req /\ job'[w].prop = job[w].prop /\ job'[w].size = size
    BY <2>1 DEF DayInv, Local
  <2>6. /\ job[w].req \in Requests /\ job[w].req.valid
        /\ s = SymbolOf(job[w].req) /\ job[w].prop.notional \in 1..Limits.maxNotional
    BY <1>0 DEF CapInv, Known, Ordering
  <2>7. CASE next = "audit"
    <3>1. Known(w)' /\ Claim(w)' = 0
      BY <2>5, <2>6, <2>7 DEF Known, Claim, Ordering
    <3>2. Claim(w) >= 0
      BY ClaimBounded DEF DayInv, CapInv
    <3>3. /\ UNCHANGED pos /\ SameBounds
          /\ job[w].pc # "idle" /\ Claim(w)' <= Claim(w)
      BY <1>0, <2>1, <3>1, <3>2 DEF CapInv, SameBounds
    <3>4. QED
      BY <2>5, <3>1, <3>3, StepBooked
  <2>8. CASE next = "leverage"
    <3>1. Known(w)'
      BY <2>2, <2>4, <2>5, <2>6, <2>8 DEF Known, Ordering, UnitValue, SymbolOf
    <3>2. Claim(w)' = Claim(w)
      BY <1>0, <2>4, <2>5, <2>8 DEF Claim, Ordering
    <3>3. Claim(w) \in Nat
      BY ClaimBounded DEF DayInv, CapInv
    <3>4. /\ UNCHANGED pos /\ SameBounds
          /\ job[w].pc # "idle" /\ Claim(w)' <= Claim(w)
      BY <1>0, <2>1, <3>2, <3>3 DEF CapInv, SameBounds
    <3>5. QED
      BY <2>5, <3>1, <3>4, StepBooked
  <2>9. QED
    BY <2>3, <2>7, <2>8
<1>3. QED
  BY <1>1, <1>2

LEMMA LeverageBooked ==
  ASSUME DayInv, CapInv, native' = native, NEW w \in Workers, SetLeverage(w)
  PROVE  Booked(w)
<1>0. job[w].pc = "leverage" /\ pos' = pos
  BY DEF SetLeverage, At, CallRaises, Raise, exchangeVars
<1>1. SameBounds
  BY DEF SetLeverage, CallRaises, Raise, CapInv, SameBounds
<1>2. CASE Finish(w)
  BY <1>0, <1>1, <1>2, FinishBooked
<1>3. CASE ~Finish(w)
  <2>1. job' = [job EXCEPT ![w].pc = "place"]
    BY <1>3 DEF SetLeverage, Move, CallRaises, Raise
  <2>2. /\ job' = [job EXCEPT ![w] = job'[w]] /\ job'[w].pc = "place"
        /\ job'[w].req = job[w].req /\ job'[w].prop = job[w].prop /\ job'[w].size = job[w].size
    BY <2>1 DEF DayInv, Local
  <2> DEFINE s == job[w].prop.symbol
  <2>3. /\ job[w].req \in Requests /\ job[w].req.valid
        /\ s = SymbolOf(job[w].req) /\ job[w].prop.notional \in 1..Limits.maxNotional
        /\ job[w].size \in Nat
        /\ job[w].size * (UnitValue(s) * MarkPrice[s]) <= job[w].prop.notional + OneUnit
    BY <1>0 DEF CapInv, Known, Ordering
  <2>4. OneUnit' = OneUnit
    BY SameUnits
  <2>5. Known(w)'
    BY <2>2, <2>3, <2>4 DEF Known, Ordering, UnitValue, SymbolOf
  <2>6. Claim(w)' = Claim(w)
    BY <1>0, <2>2, SameUnits DEF Claim, Ordering
  <2>7. Claim(w) \in Nat
    BY ClaimBounded DEF DayInv, CapInv
  <2>8. Claim(w)' <= Claim(w) /\ job[w].pc # "idle"
    BY <1>0, <2>6, <2>7
  <2>9. QED
    BY <1>0, <1>1, <2>2, <2>5, <2>8, StepBooked
<1>4. QED
  BY <1>2, <1>3

\* A reduce-only order makes a position no larger, any other by its size.
LEMMA FilledGrows ==
  ASSUME pos \in [Symbols -> Int], NEW s \in Symbols, NEW side, NEW size \in Nat,
         NEW reduceOnly \in BOOLEAN, reduceOnly => Reducible(s, side)
  PROVE  /\ Filled(s, side, size, reduceOnly) \in Int
         /\ Magnitude(Filled(s, side, size, reduceOnly)) <= Magnitude(pos[s]) + size
<1>1. pos[s] \in Int
  OBVIOUS
<1>2. Magnitude(pos[s]) = (IF pos[s] >= 0 THEN pos[s] ELSE -pos[s])
  BY <1>1 DEF Magnitude, Distance
<1>3. CASE ~reduceOnly
  <2>1. Filled(s, side, size, reduceOnly) \in {pos[s] + size, pos[s] - size}
    BY <1>1, <1>3 DEF Filled
  <2>2. QED
    BY <1>1, <1>2, <2>1 DEF Magnitude, Distance
<1>4. CASE reduceOnly
  <2> DEFINE cut == AtMost(size, Magnitude(pos[s]))
  <2>1. cut \in Nat /\ cut <= size
    BY <1>1, <1>2 DEF AtMost
  <2>2. Filled(s, side, size, reduceOnly) \in {pos[s] + cut, pos[s] - cut}
    BY <1>1, <1>4 DEF Filled
  <2> HIDE DEF cut
  <2>3. QED
    BY <1>1, <1>2, <2>1, <2>2 DEF Magnitude, Distance
<1>5. QED
  BY <1>3, <1>4

\* An order that takes effect uses up the claim of its handler.
LEMMA OrderUsesClaim ==
  ASSUME DayInv, CapInv, native' = native, NEW w \in Workers, job[w].pc = "place",
         TakesEffect(w)
  PROVE  /\ pos' \in [Symbols -> Int]
         /\ ExposureCounted' <= ExposureCounted + Claim(w)
<1> DEFINE p == job[w].prop
           s == job[w].prop.symbol
           size == job[w].size
           n == Filled(s, p.side, size, ReduceOnly(w))
           v == UnitValue(s) * MarkPrice[s]
<1>1. /\ job[w].req \in Requests /\ job[w].req.valid
      /\ s = SymbolOf(job[w].req) /\ p.notional \in 1..Limits.maxNotional
      /\ size \in Nat /\ size * v <= p.notional + OneUnit
  BY DEF CapInv, Known, Ordering
<1>2. s \in Symbols
  BY <1>1, SignalAssumption, PipelineAssumption DEF SymbolOf
<1>3. pos' = [pos EXCEPT ![s] = n] /\ Accepts(w)
  BY DEF TakesEffect
<1>4. n \in Int /\ Magnitude(n) <= Magnitude(pos[s]) + size
  <2>1. ReduceOnly(w) \in BOOLEAN /\ (ReduceOnly(w) => Reducible(s, p.side))
    BY <1>3 DEF Accepts, ReduceOnly
  <2>2. QED
    BY <1>1, <1>2, <2>1, FilledGrows DEF CapInv
<1>5. Claim(w) = p.notional + OneUnit
  BY DEF Claim, Ordering
<1>6a. v \in Nat /\ OneUnit \in Nat
  BY <1>2, UnitFits DEF DayInv
<1> HIDE DEF n, size, p, s
<1>6. /\ [pos EXCEPT ![s] = n] \in [Symbols -> Int]
      /\ SumFunctionOnSet(Book([pos EXCEPT ![s] = n]), Counted)
           <= SumFunctionOnSet(Book(pos), Counted) + size * v
  BY <1>1, <1>2, <1>4, ExposureGrows DEF CapInv, DayInv
<1>7. ExposureCounted = SumFunctionOnSet(Book(pos), Counted)
  BY ExposureOfBook
<1>8. ExposureCounted' = SumFunctionOnSet(Book([pos EXCEPT ![s] = n]), Counted)
  BY <1>3 DEF ExposureCounted, NotionalOf, Book, Counted, UnitValue
<1>9. ExposureCounted \in Int /\ ExposureCounted' \in Int
  <2>1. ExposureCounted \in Nat
    BY ExposureIsNat DEF DayInv, CapInv
  <2>2. (native \in BOOLEAN /\ pos \in [Symbols -> Int] => ExposureCounted \in Nat)'
    BY ExposureIsNat, PTL
  <2>3. QED
    BY <1>3, <1>6, <2>1, <2>2 DEF DayInv
<1>10. size * v \in Int /\ p.notional \in Int /\ OneUnit \in Int
  <2> HIDE DEF v
  <2>1. size * v \in Int
    BY <1>1, <1>6a
  <2>2. QED
    BY <1>1, <1>6a, <2>1 DEF v
<1>11. QED
  <2> HIDE DEF v
  <2>1. ExposureCounted' <= ExposureCounted + size * v
    BY <1>6, <1>7, <1>8
  <2>2. size * v <= p.notional + OneUnit
    BY <1>1
  <2>3. ExposureCounted' <= ExposureCounted + Claim(w)
    BY <1>5, <1>9, <1>10, <2>1, <2>2
  <2>4. QED
    BY <1>3, <1>6, <2>3

LEMMA PlaceBooked ==
  ASSUME DayInv, CapInv, native' = native, NEW w \in Workers, PlaceOrder(w)
  PROVE  Booked(w)
<1>0. job[w].pc = "place"
  BY DEF PlaceOrder, At
<1>1. CASE Raise(w)
  BY <1>0, <1>1, RaiseBooked
<1>2. CASE ~Raise(w)
  <2>1. SameBounds
    BY <1>2 DEF PlaceOrder, LocalOnly, Untold, CallRaises, CapInv, SameBounds
  <2>2. Finish(w) \/ \E next \in {"reconcile", "audit"} : Answered(w, next)
    BY <1>2 DEF PlaceOrder, CallRaises
  <2>3. /\ job' = [job EXCEPT ![w] = job'[w]]
        /\ job'[w].pc \in {"idle", "reconcile", "audit"}
        /\ job'[w].pc # "idle" => job'[w].req = job[w].req
    <3>1. CASE Finish(w)
      BY <3>1 DEF Finish, NoJob, DayInv
    <3>2. ASSUME NEW next \in {"reconcile", "audit"}, Answered(w, next)
          PROVE  /\ job' = [job EXCEPT ![w] = job'[w]] /\ job'[w].pc = next
                 /\ job'[w].req = job[w].req
      <4>1. PICK status \in SentStatuses :
                   job' = [job EXCEPT ![w].pc = next, ![w].status = status]
        BY <3>2 DEF Answered
      <4>2. QED
        BY <4>1 DEF DayInv, Local
    <3>3. QED
      BY <2>2, <3>1, <3>2
  <2>4. Known(w)' /\ Claim(w)' = 0
    BY <1>0, <2>3 DEF CapInv, Known, Claim, Ordering
  <2>5. ExposureCounted' <= ExposureCounted + Claim(w) /\ pos' \in [Symbols -> Int]
    <3>1. CASE TakesEffect(w)
      BY <1>0, <3>1, OrderUsesClaim
    <3>2. CASE ~TakesEffect(w)
      <4>1. pos' = pos
        BY <1>2, <3>2 DEF PlaceOrder, LocalOnly, CallRaises, exchangeVars
      <4>2. ExposureCounted' = ExposureCounted /\ ExposureCounted \in Nat /\ Claim(w) \in Nat
        BY <4>1, SameExposure, ExposureIsNat, ClaimBounded DEF DayInv, CapInv
      <4>3. QED
        BY <4>1, <4>2 DEF CapInv
    <3>3. QED
      BY <3>1, <3>2
  <2>6. ExposureCounted' \in Int
    <3>1. (native \in BOOLEAN /\ pos \in [Symbols -> Int] => ExposureCounted \in Nat)'
      BY ExposureIsNat, PTL
    <3>2. QED
      BY <2>5, <3>1 DEF DayInv
  <2>7. ExposureCounted' + Claim(w)' <= ExposureCounted + Claim(w)
    BY <2>4, <2>5, <2>6
  <2>8. QED
    BY <1>0, <2>1, <2>3, <2>4, <2>5, <2>7 DEF Booked, SameBounds
<1>3. QED
  BY <1>1, <1>2

LEMMA LateBooked ==
  ASSUME DayInv, CapInv, native' = native, NEW w \in Workers, Reconcile(w) \/ Audit(w)
  PROVE  Booked(w)
<1>0. job[w].pc \in {"reconcile", "audit"} /\ pos' = pos
  BY DEF Reconcile, Audit, At, LocalOnly, exchangeVars
<1>1. SameBounds
  BY DEF Reconcile, Audit, LocalOnly, Untold, CapInv, SameBounds
<1>2. CASE Finish(w)
  BY <1>0, <1>1, <1>2, FinishBooked
<1>3. CASE ~Finish(w)
  <2>1. job' = [job EXCEPT ![w].pc = "audit"]
    BY <1>3 DEF Reconcile, Audit, Move
  <2>2. /\ job' = [job EXCEPT ![w] = job'[w]] /\ job'[w].pc = "audit"
        /\ job'[w].req = job[w].req
    BY <2>1 DEF DayInv, Local
  <2>3. Known(w)' /\ Claim(w)' = 0 /\ Claim(w) = 0
    BY <1>0, <2>2 DEF CapInv, Known, Claim, Ordering
  <2>4. Claim(w)' <= Claim(w) /\ job[w].pc # "idle"
    BY <1>0, <2>3
  <2>5. QED
    BY <1>0, <1>1, <2>2, <2>3, <2>4, StepBooked
<1>4. QED
  BY <1>2, <1>3

-----------------------------------------------------------------------------
(* What goes on around the handlers. *)

\* Nothing claims more than before, and no position grew.
LEMMA ClaimsFall ==
  ASSUME DayInv, CapInv, native' = native, pos' \in [Symbols -> Int],
         {"overlap", "misread"} \subseteq DOMAIN noted', noted'.misread = noted.misread,
         noted'.overlap = noted.overlap \/ (noted'.overlap = TRUE /\ Workers # {}),
         ~noted'.overlap => \A v, w \in Workers :
                               job'[v].pc # "idle" /\ job'[w].pc # "idle" => v = w,
         \A w \in Workers : Known(w)' /\ Claim(w)' <= Claim(w),
         ExposureCounted' <= ExposureCounted
  PROVE  CapInv'
<1> DEFINE f == [w \in Workers |-> Claim(w)]
           g == [w \in Workers |-> Claim(w)']
           old == SumFunctionOnSet(f, Workers)
           new == SumFunctionOnSet(g, Workers)
<1>0. native \in BOOLEAN /\ native' \in BOOLEAN
  BY DEF DayInv
<1>1. \A w \in Workers : Claim(w) \in Nat
  BY <1>0, ClaimBounded DEF CapInv
<1>2. ASSUME NEW w \in Workers PROVE Claim(w)' \in Nat
  <2>1. (native \in BOOLEAN /\ Known(w) => Claim(w) \in Nat)'
    BY ClaimBounded, PTL
  <2>2. QED
    BY <1>0, <2>1
<1>3. \A w \in Workers : f[w] \in Int /\ g[w] \in Int /\ g[w] <= f[w]
  BY <1>1, <1>2
<1> HIDE DEF f, g
<1>4. new <= old /\ new \in Int /\ old \in Int
  BY <1>3, WorkersFinite, SumMonotone, SumIsInt
<1>5. ExposureCounted \in Int /\ ExposureCounted' \in Int
  <2>1. ExposureCounted \in Nat
    BY <1>0, ExposureIsNat DEF CapInv
  <2>2. (native \in BOOLEAN /\ pos \in [Symbols -> Int] => ExposureCounted \in Nat)'
    BY ExposureIsNat, PTL
  <2>3. QED
    BY <1>0, <2>1, <2>2
<1>6. Cap \in Nat
  <2>1. OneUnit \in Nat
    BY <1>0, UnitFits
  <2>2. QED
    BY <2>1, PipelineAssumption DEF Cap
<1>7. Allowance \in Nat /\ Allowance' \in Nat /\ Allowance <= Allowance'
  <2>1. Cardinality(Workers) \in Nat
    BY WorkersFinite, FS_CardinalityType
  <2>2. Workers # {} => Cardinality(Workers) \in Nat \ {0}
    BY CardinalityOfOthers
  <2>3. QED
    BY <2>1, <2>2 DEF Threads, Allowance, CapInv
<1>8. ExposureCounted' + new <= Allowance * Cap
  <2>1. ExposureCounted + old <= Allowance * Cap
    BY DEF CapInv, ClaimsOf, f
  <2>2. Allowance * Cap \in Int
    BY <1>6, <1>7
  <2> HIDE DEF old, new
  <2>3. QED
    BY <1>4, <1>5, <2>1, <2>2
<1>9. Allowance * Cap <= Allowance' * Cap
  <2>1. \A a, b, c \in Nat : a <= b => a * c <= b * c
    OBVIOUS
  <2>2. QED
    BY <1>6, <1>7, <2>1
<1>10. Cap' = Cap /\ ClaimsOf(Workers)' = new
  BY SameUnits DEF ClaimsOf, g
<1>11. ExposureCounted' + ClaimsOf(Workers)' <= Allowance' * Cap'
  <2>1. Allowance * Cap \in Int /\ Allowance' * Cap \in Int
    BY <1>6, <1>7
  <2> HIDE DEF old, new
  <2>2. QED
    BY <1>4, <1>5, <1>8, <1>9, <1>10, <2>1
<1>12. QED
  BY <1>11 DEF CapInv

LEMMA ReceiveCapped ==
  ASSUME DayInv, CapInv, native' = native, NEW w \in Workers, NEW r \in Requests, Receive(w, r)
  PROVE  CapInv'
<1>1. /\ job[w].pc = "idle" /\ pos' = pos
      /\ job' = [job EXCEPT ![w] = job'[w]] /\ job'[w].pc = "check" /\ job'[w].req = r
  BY DEF Receive, At, exchangeVars, DayInv, NoJob
<1>2. /\ {"overlap", "misread"} \subseteq DOMAIN noted' /\ noted'.misread = noted.misread
      /\ noted'.overlap = (noted.overlap \/ \E v \in Workers : job[v].pc # "idle")
  BY DEF Receive, At, CapInv
<1>3. Known(w)' /\ Claim(w)' = 0 /\ Claim(w) = 0
  BY <1>1 DEF CapInv, Known, Claim, Ordering
<1>4. ASSUME NEW v \in Workers, v # w
      PROVE  job'[v] = job[v] /\ Known(v)' /\ Claim(v)' = Claim(v)
  <2>1. job'[v] = job[v]
    BY <1>1, <1>4 DEF DayInv
  <2>2. Claim(v)' = Claim(v)
    BY <2>1, SameUnits DEF Claim
  <2>3. Known(v)'
    BY <2>1 DEF CapInv, Known, UnitValue, OneUnit
  <2>4. QED
    BY <2>1, <2>2, <2>3
<1>5. \A v \in Workers : Claim(v) \in Nat
  BY ClaimBounded DEF DayInv, CapInv
<1>6. \A v \in Workers : Known(v)' /\ Claim(v)' <= Claim(v)
  BY <1>3, <1>4, <1>5
<1>7. ~noted'.overlap =>
        \A u, v \in Workers : job'[u].pc # "idle" /\ job'[v].pc # "idle" => u = v
  BY <1>2, <1>4
<1>8. noted'.overlap = noted.overlap \/ (noted'.overlap = TRUE /\ Workers # {})
  BY <1>2 DEF CapInv
<1>9. pos' \in [Symbols -> Int] /\ ExposureCounted' <= ExposureCounted
  <2>1. ExposureCounted \in Nat /\ ExposureCounted' = ExposureCounted
    BY <1>1, SameExposure, ExposureIsNat DEF DayInv, CapInv
  <2>2. QED
    BY <1>1, <2>1 DEF CapInv
<1>10. QED
  BY <1>2, <1>6, <1>7, <1>8, <1>9, ClaimsFall

LEMMA StopCapped ==
  ASSUME DayInv, CapInv, native' = native, NEW s \in Symbols, StopTriggers(s)
  PROVE  CapInv'
<1>1. pos' = [pos EXCEPT ![s] = 0] /\ UNCHANGED <<job, noted>>
  BY DEF StopTriggers
<1>2. Magnitude(0) <= Magnitude(pos[s]) + 0
  BY DEF CapInv, Magnitude, Distance
<1>3. /\ [pos EXCEPT ![s] = 0] \in [Symbols -> Int]
      /\ SumFunctionOnSet(Book([pos EXCEPT ![s] = 0]), Counted)
           <= SumFunctionOnSet(Book(pos), Counted) + 0 * (UnitValue(s) * MarkPrice[s])
  <2>1. native \in BOOLEAN /\ pos \in [Symbols -> Int] /\ 0 \in Int /\ 0 \in Nat
    BY DEF DayInv, CapInv
  <2>2. QED
    BY <1>2, <2>1, ExposureGrows
<1>4. ExposureCounted' <= ExposureCounted
  <2>1. ExposureCounted = SumFunctionOnSet(Book(pos), Counted)
    BY ExposureOfBook
  <2>2. ExposureCounted' = SumFunctionOnSet(Book([pos EXCEPT ![s] = 0]), Counted)
    BY <1>1 DEF ExposureCounted, NotionalOf, Book, Counted, UnitValue
  <2>3. UnitValue(s) * MarkPrice[s] \in Nat /\ ExposureCounted \in Nat
    BY UnitFits, ExposureIsNat DEF DayInv, CapInv
  <2>4. 0 * (UnitValue(s) * MarkPrice[s]) = 0
    BY <2>3
  <2>5. QED
    BY <1>3, <2>1, <2>2, <2>3, <2>4
<1>5. ASSUME NEW w \in Workers PROVE Known(w)' /\ Claim(w)' <= Claim(w)
  <2>1. Claim(w)' = Claim(w) /\ Claim(w) \in Nat
    BY <1>1, SameUnits, ClaimBounded DEF Claim, DayInv, CapInv
  <2>2. Known(w)'
    BY <1>1 DEF CapInv, Known, UnitValue, OneUnit
  <2>3. QED
    BY <2>1, <2>2
<1>6. /\ pos' \in [Symbols -> Int] /\ SameBounds
      /\ ~noted'.overlap => \A v, w \in Workers :
                               job'[v].pc # "idle" /\ job'[w].pc # "idle" => v = w
  BY <1>1, <1>3 DEF CapInv, SameBounds
<1>7. QED
  BY <1>4, <1>5, <1>6, ClaimsFall DEF SameBounds

LEMMA CrashCapped ==
  ASSUME DayInv, CapInv, native' = native, Crash
  PROVE  CapInv'
<1>1. pos' = pos /\ \A w \in Workers : job'[w].pc = "idle"
  BY DEF Crash, exchangeVars, NoJob
<1>2. SameBounds
  BY DEF Crash, Untold, CapInv, SameBounds
<1>3. \A w \in Workers : Known(w)' /\ Claim(w)' = 0 /\ Claim(w) \in Nat
  BY <1>1, ClaimBounded DEF Known, Claim, Ordering, DayInv, CapInv
<1>4. pos' \in [Symbols -> Int] /\ ExposureCounted' <= ExposureCounted
  <2>1. ExposureCounted \in Nat /\ ExposureCounted' = ExposureCounted
    BY <1>1, SameExposure, ExposureIsNat DEF DayInv, CapInv
  <2>2. QED
    BY <1>1, <2>1 DEF CapInv
<1>5. \A w \in Workers : Known(w)' /\ Claim(w)' <= Claim(w)
  BY <1>3
<1>6. ~noted'.overlap => \A v, w \in Workers :
                            job'[v].pc # "idle" /\ job'[w].pc # "idle" => v = w
  BY <1>1
<1>7. QED
  BY <1>2, <1>4, <1>5, <1>6, ClaimsFall DEF SameBounds

LEMMA CapInit == PipelineInit => CapInv
<1> SUFFICES ASSUME PipelineInit PROVE CapInv
  OBVIOUS
<1>1. native \in BOOLEAN
  BY PipelineAssumption DEF PipelineInit
<1>2. pos = [s \in Symbols |-> 0] /\ noted = NoNotes
  BY DEF PipelineInit, NoNotes
<1>3. \A w \in Workers : job[w].pc = "idle"
  BY DEF PipelineInit, NoJob
<1>4. \A w \in Workers : Known(w) /\ Claim(w) = 0
  BY <1>3 DEF Known, Claim, Ordering
<1>5. ClaimsOf(Workers) = 0
  <2> DEFINE f == [w \in Workers |-> Claim(w)]
  <2>1. \A w \in Workers : f[w] = 0
    BY <1>4
  <2> HIDE DEF f
  <2>2. SumFunctionOnSet(f, Workers) = 0
    BY <2>1, WorkersFinite, SumOfZeros
  <2>3. QED
    BY <2>2 DEF ClaimsOf, f
<1>6. ExposureCounted = 0
  <2>1. \A s \in Counted : Book(pos)[s] = 0
    <3>1. ASSUME NEW s \in Symbols PROVE Book(pos)[s] = 0
      <4>1. Magnitude(pos[s]) = 0
        BY <1>2 DEF Magnitude, Distance
      <4>2. UnitValue(s) \in Nat /\ MarkPrice[s] \in Nat
        BY <1>1, UnitFits
      <4>3. QED
        BY <4>1, <4>2 DEF Book
    <3>2. QED
      BY <3>1, CountedFinite
  <2>2. SumFunctionOnSet(Book(pos), Counted) = 0
    BY <2>1, CountedFinite, SumOfZeros
  <2>3. QED
    BY <2>2, ExposureOfBook
<1>7. Allowance = 1 /\ Cap \in Nat
  <2>1. noted.overlap = FALSE /\ noted.misread = 0
    BY <1>2 DEF NoNotes
  <2>2. QED
    BY <1>1, <2>1, UnitFits, PipelineAssumption DEF Threads, Allowance, Cap
<1>8. ExposureCounted + ClaimsOf(Workers) <= Allowance * Cap
  BY <1>5, <1>6, <1>7
<1>9. pos \in [Symbols -> Int] /\ noted.overlap \in BOOLEAN /\ noted.misread \in Nat
  <2>1. noted.overlap \in BOOLEAN /\ noted.misread \in Nat
    <3>1. noted.overlap = FALSE /\ noted.misread = 0
      BY <1>2 DEF NoNotes
    <3>2. noted.overlap \in BOOLEAN
      BY <3>1, Zenon
    <3>3. QED
      BY <3>1, <3>2
  <2>2. pos \in [Symbols -> Int]
    BY <1>2
  <2>3. QED
    BY <2>1, <2>2
<1>10. ~noted.overlap =>
         \A v, w \in Workers : job[v].pc # "idle" /\ job[w].pc # "idle" => v = w
  BY <1>3
<1>11. \A w \in Workers : Known(w)
  BY <1>4
<1>12. {"overlap", "misread"} \subseteq DOMAIN noted
  BY <1>2 DEF NoNotes
<1>13. QED
  BY <1>8, <1>9, <1>10, <1>11, <1>12 DEF CapInv

LEMMA CapStep ==
  ASSUME QuotedAtMarket, DayInv, CapInv, [Next]_vars
  PROVE  CapInv'
<1>0. native' = native
  BY DEF Next, vars
<1>1. ASSUME NEW w \in Workers, HandlerStep(w) PROVE CapInv'
  <2>1. Booked(w)
    BY <1>0, <1>1, CheckBooked, BalanceBooked, PositionsBooked, BillsBooked, DecideBooked,
       SizeBooked, LeverageBooked, PlaceBooked, LateBooked DEF HandlerStep
  <2>2. QED
    BY <1>0, <2>1, BookedKeepsInv
<1>2. ASSUME UNCHANGED <<job, pos, noted>> PROVE CapInv'
  <2>1. ExposureCounted' = ExposureCounted /\ Cap' = Cap
    BY <1>0, <1>2, SameExposure, SameUnits
  <2>2. ClaimsOf(Workers)' = ClaimsOf(Workers) /\ Allowance' = Allowance
    BY <1>0, <1>2, SameUnits DEF ClaimsOf, Claim, Threads, Allowance
  <2>3. \A w \in Workers : Known(w)'
    BY <1>0, <1>2, ZenonT(30) DEF CapInv, Known, UnitValue, OneUnit
  <2>4. QED
    BY <1>2, <2>1, <2>2, <2>3 DEF CapInv
<1>3. ASSUME NEW v \in Writers, (\E t \in Commands : SwitchBegins(v, t)) \/ SwitchWrites(v)
      PROVE  CapInv'
  BY <1>2, <1>3 DEF SwitchBegins, SwitchWrites, exchangeVars, pipelineVars
<1>4. CASE UNCHANGED vars
  BY <1>2, <1>4 DEF vars, pipelineVars
<1>5. QED
  BY <1>0, <1>1, <1>3, <1>4, ReceiveCapped, StopCapped, CrashCapped DEF Next, Step

(* For any number of threads, requests, symbols, prices and faults, as long *)
(* as nobody quotes less than the price: the exposure at the exchange and   *)
(* what the requests being served may still add to it stay within one cap,  *)
(* and one rounding, for each thread that may hold a snapshot - one while   *)
(* requests do not overlap - and for each error response that get_positions *)
(* gave in place of a snapshot.                                             *)
THEOREM ExposureStaysCapped == Spec => []ExposureCapped
<1> DEFINE Inv == DayInv /\ (QuotedAtMarket => CapInv)
<1>1. Inv => ExposureCapped
  <2> SUFFICES ASSUME DayInv, CapInv, QuotedAtMarket PROVE ExposureCapped
    BY DEF ExposureCapped
  <2> DEFINE f == [w \in Workers |-> Claim(w)]
             z == [w \in Workers |-> 0]
  <2>1. \A w \in Workers : f[w] \in Int /\ z[w] \in Int /\ z[w] <= f[w]
    BY ClaimBounded DEF DayInv, CapInv
  <2>2. SumFunctionOnSet(z, Workers) = 0
    BY WorkersFinite, SumOfZeros
  <2>3. SumFunctionOnSet(z, Workers) <= SumFunctionOnSet(f, Workers)
        /\ SumFunctionOnSet(f, Workers) \in Int
    <3> HIDE DEF f, z
    <3> QED
      BY <2>1, WorkersFinite, SumMonotone, SumIsInt
  <2>4. ClaimsOf(Workers) \in Int /\ ClaimsOf(Workers) >= 0
    BY <2>2, <2>3 DEF ClaimsOf
  <2>5. ExposureCounted \in Nat /\ Cap \in Nat
    BY ExposureIsNat, UnitFits, PipelineAssumption DEF DayInv, CapInv, Cap
  <2>6. Allowance * Cap \in Int
    <3>1. Allowance \in Nat
      BY WorkersFinite, FS_CardinalityType DEF Threads, Allowance, CapInv
    <3>2. QED
      BY <2>5, <3>1
  <2>7. ExposureCounted <= Allowance * Cap
    BY <2>4, <2>5, <2>6 DEF CapInv
  <2>8. QED
    BY <2>7 DEF ExposureCapped, Threads, Allowance, Cap
<1>2. PipelineInit => Inv
  BY DayInit, CapInit
<1>3. Inv /\ [Next]_vars => Inv'
  <2>1. QuotedAtMarket' = QuotedAtMarket
    BY DEF QuotedAtMarket, SymbolOf
  <2>2. QED
    BY <2>1, DayStep, CapStep
<1>4. QED
  BY <1>1, <1>2, <1>3, PTL DEF Spec
=============================================================================
