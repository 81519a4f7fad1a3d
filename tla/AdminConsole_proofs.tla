------------------------- MODULE AdminConsole_proofs -------------------------
(***************************************************************************)
(* The management side for any threads, requests and clock: it uses the    *)
(* nonce file and the pause switch as SeenFile and ControlFile say, a      *)
(* signed request has its effect at most once, and no effect goes missing  *)
(* from the audit log.                                                     *)
(***************************************************************************)
EXTENDS AdminConsole, Files_proofs

PCs == {"idle", "verify", "nonce", "act", "write", "trade", "log", "alert"}

\* What a thread is at, and the request it is about.
ServeShape ==
  /\ serve \in [Threads -> [pc : PCs, req : Requests \cup {NoRequest}]]
  /\ \A t \in Threads : ~At(t, "idle") => serve[t].req \in Requests
  /\ \A t \in Threads : serve[t].pc \in {"verify", "nonce"} => Kind(t) \in AdminKinds

LEMMA RequestKinds ==
  /\ \A r \in Requests : r.kind \in AdminKinds \cup UiKinds /\ r.nonce \in Keys
  /\ NoRequest \notin Requests
BY ConsoleAssumption DEF NoRequest, AdminKinds, UiKinds

LEMMA ShapeInit == Init => ServeShape
BY DEF Init, ServeShape, NoServe, PCs, At

\* A thread moves on with its request, or is done with it.
LEMMA MoveShape ==
  ASSUME ServeShape, NEW t \in Threads, ~At(t, "idle"),
         Reply(t) \/ \E pc \in PCs \ {"verify"} :
           Move(t, pc) /\ (pc = "nonce" => At(t, "verify"))
  PROVE  /\ ServeShape'
         /\ \A u \in Threads : u # t => serve'[u] = serve[u]
         /\ serve'[t].req \in {serve[t].req, NoRequest}
<1>1. CASE Reply(t)
  BY <1>1 DEF ServeShape, Reply, NoServe, At, Kind, PCs
<1>2. ASSUME NEW pc \in PCs \ {"verify"}, Move(t, pc), pc = "nonce" => At(t, "verify")
      PROVE  /\ ServeShape'
             /\ \A u \in Threads : u # t => serve'[u] = serve[u]
             /\ serve'[t].req = serve[t].req
  BY <1>2 DEF ServeShape, Move, At, Kind
<1>3. QED
  BY <1>1, <1>2

LEMMA ThreadShape ==
  ASSUME ServeShape, NEW t \in Threads, ThreadStep(t)
  PROVE  /\ ServeShape'
         /\ \A u \in Threads : u # t => serve'[u] = serve[u]
<1> USE DEF PCs
<1>1. CASE Verify(t)
  <2>1. Reply(t) \/ Move(t, "nonce")
    BY <1>1 DEF Verify
  <2>2. QED
    BY <1>1, <2>1, MoveShape DEF Verify, At
<1>2. CASE ConsumeNonce(t)
  <2>1. CASE serve' = serve
    BY <2>1 DEF ServeShape, At, Kind
  <2>2. CASE Move(t, "act") \/ Reply(t)
    BY <1>2, <2>2, MoveShape DEF ConsumeNonce, At
  <2>3. QED
    BY <1>2, <2>1, <2>2 DEF ConsumeNonce, ReplyAuthorised
<1>3. CASE Answer(t)
  BY <1>3, MoveShape DEF Answer, ReplyAuthorised, At
<1>4. CASE OpenSwitch(t) \/ WriteSwitch(t)
  BY <1>4, MoveShape DEF OpenSwitch, WriteSwitch, At
<1>5. CASE CheckTier(t) \/ Trade(t)
  <2>1. (Move(t, "trade") \/ Move(t, "log") \/ Reply(t)) /\ ~At(t, "idle")
    BY <1>5 DEF CheckTier, Trade, ReplyAuthorised, At
  <2>2. QED
    BY <2>1, MoveShape
<1>6. CASE Log(t) \/ Alert(t)
  <2>1. (Move(t, "alert") \/ Reply(t)) /\ ~At(t, "idle")
    BY <1>6 DEF Log, Alert, ReplyAuthorised, At
  <2>2. QED
    BY <2>1, MoveShape
<1>7. QED
  BY <1>1, <1>2, <1>3, <1>4, <1>5, <1>6 DEF ThreadStep

LEMMA DeliverShape ==
  ASSUME ServeShape, NEW t \in Threads, NEW r \in Requests, Deliver(t, r)
  PROVE  /\ ServeShape'
         /\ \A u \in Threads : u # t => serve'[u] = serve[u]
         /\ serve'[t].req = r
         /\ serve'[t].pc = IF r.kind \in UiKinds THEN "act" ELSE "verify"
BY RequestKinds DEF ServeShape, Deliver, At, Kind, PCs

LEMMA ShapeStep == ServeShape /\ [Next]_vars => ServeShape'
<1> SUFFICES ASSUME ServeShape, [Next]_vars PROVE ServeShape'
  OBVIOUS
<1>1. CASE Restart
  BY <1>1 DEF Restart, ServeShape, NoServe, At, Kind, PCs
<1>2. CASE Tick \/ UNCHANGED vars
  BY <1>2 DEF Tick, vars, ServeShape, At, Kind
<1>3. QED
  BY <1>1, <1>2, DeliverShape, ThreadShape DEF Next

-----------------------------------------------------------------------------
(* The two files. *)

LEMMA ThreadSeen ==
  ASSUME ServeShape, NEW t \in Threads, ThreadStep(t)
  PROVE  [SeenNext]_seenVars
<1>1. CASE Verify(t)
  <2>1. serve[t].req.nonce \in Keys
    BY <1>1, RequestKinds DEF Verify, ServeShape, At
  <2>2. QED
    BY <1>1, <2>1 DEF Verify, SeenNext, Threads
<1>2. CASE ConsumeNonce(t)
  BY <1>2 DEF ConsumeNonce, ReplyAuthorised, SeenNext, Threads
<1>3. CASE ReplyAuthorised(t)
  BY <1>3 DEF ReplyAuthorised, SeenNext, Threads
<1>4. CASE UNCHANGED seenVars
  BY <1>4
<1>5. QED
  BY <1>1, <1>2, <1>3, <1>4
     DEF ThreadStep, Answer, OpenSwitch, WriteSwitch, CheckTier, Trade, Log, Alert

LEMMA ConsoleSeen == ServeShape /\ [Next]_vars => [SeenNext]_seenVars
<1>1. ASSUME NEW t \in Threads, NEW r \in Requests, Deliver(t, r) PROVE UNCHANGED seenVars
  BY <1>1 DEF Deliver
<1>2. Restart => SeenNext
  BY DEF Restart, SeenNext
<1>3. Tick \/ UNCHANGED vars => UNCHANGED seenVars
  BY DEF Tick, vars
<1>4. QED
  BY <1>1, <1>2, <1>3, ThreadSeen DEF Next

(* The management endpoints use the nonce file the way SeenFile specifies, *)
(* one nonce per signed request and before the handler acts.               *)
THEOREM ConsoleUsesSeenFile == Spec => SeenSpec
<1>1. Init => SeenInit
  BY DEF Init
<1>2. QED
  BY <1>1, ShapeInit, ShapeStep, ConsoleSeen, PTL DEF Spec, SeenSpec

LEMMA ThreadControl ==
  ASSUME NEW t \in Threads, ThreadStep(t)
  PROVE  [ControlNext]_controlVars
<1> t \in Writers
  BY ConsoleAssumption DEF Threads
<1>1. CASE OpenSwitch(t)
  BY <1>1 DEF OpenSwitch, SwitchTo, Commands, ControlNext
<1>2. CASE WriteSwitch(t)
  BY <1>2 DEF WriteSwitch, ControlNext
<1>3. CASE UNCHANGED controlVars
  BY <1>3
<1>4. QED
  BY <1>1, <1>2, <1>3 DEF ThreadStep, Verify, ConsumeNonce, Answer, CheckTier, Trade, Log, Alert

LEMMA ConsoleControl == [Next]_vars => [ControlNext]_controlVars
<1>1. ASSUME NEW t \in Threads, NEW r \in Requests, Deliver(t, r) PROVE UNCHANGED controlVars
  BY <1>1 DEF Deliver
<1>2. Restart => ControlNext
  BY DEF Restart, ControlNext
<1>3. Tick \/ UNCHANGED vars => UNCHANGED controlVars
  BY DEF Tick, vars
<1>4. QED
  BY <1>1, <1>2, <1>3, ThreadControl DEF Next

(* Whatever the endpoints and the page do to the switch at once, a file at *)
(* rest after halts alone never reads as "not halted".                     *)
THEOREM ConsoleSwitchSettles == Spec => []SettledFileAgrees
<1>1. Init => ControlInit
  BY DEF Init
<1>2. QED
  BY <1>1, ConsoleControl, ControlInitInv, ControlStep, InvSettles, PTL DEF Spec

-----------------------------------------------------------------------------
(* Nonces. *)

Nonce(t) == serve[t].req.nonce

\* Every request served was sent.
SentInv ==
  /\ sends \in [Requests -> Nat]
  /\ \A t \in Threads : ~At(t, "idle") => sends[serve[t].req] > 0

\* A thread that asks for a nonce asks for the one of its request, whose
\* signature it has verified.
NonceInv ==
  \A t \in Threads : At(t, "nonce") => call[t].key = Nonce(t) /\ serve[t].req.signed

\* The file has nonces of signed requests only.
SignedInv == \A n \in seen : \E r \in Requests : r.nonce = n /\ r.signed /\ sends[r] > 0

LEMMA SentStep ==
  ASSUME ServeShape, SentInv, [Next]_vars
  PROVE  SentInv'
<1>1. ASSUME NEW t \in Threads, NEW r \in Requests, Deliver(t, r) PROVE SentInv'
  <2>1. \A u \in Threads : serve'[u] = serve[u] \/ serve'[u].req = r
    BY <1>1, DeliverShape
  <2>2. sends' = [sends EXCEPT ![r] = @ + 1]
    BY <1>1 DEF Deliver
  <2>3. QED
    BY <2>1, <2>2 DEF SentInv, ServeShape, At
<1>2. ASSUME NEW t \in Threads, ThreadStep(t) PROVE SentInv'
  <2>1. sends' = sends /\ ~At(t, "idle")
    BY <1>2 DEF ThreadStep, Verify, ConsumeNonce, Answer, OpenSwitch, WriteSwitch, CheckTier,
                Trade, Log, Alert, At, bookVars
  <2>2. serve'[t] = NoServe \/ serve'[t].req = serve[t].req
    BY <1>2 DEF ThreadStep, Verify, ConsumeNonce, Answer, OpenSwitch, WriteSwitch, CheckTier,
                Trade, Log, Alert, ReplyAuthorised, Reply, Move, ServeShape
  <2>3. QED
    BY <1>2, <2>1, <2>2, ThreadShape DEF SentInv, At, NoServe
<1>3. CASE Restart
  BY <1>3 DEF Restart, SentInv, At, NoServe
<1>4. CASE Tick \/ UNCHANGED vars
  BY <1>4 DEF Tick, vars, bookVars, SentInv, At
<1>5. QED
  BY <1>1, <1>2, <1>3, <1>4 DEF Next

\* The call of a thread that takes a step is its own.
LEMMA OwnCall ==
  ASSUME SeenInv, NEW t \in Threads, ThreadStep(t)
  PROVE  \A u \in Threads : u # t => call'[u] = call[u]
<1>1. BeginCheck(t, Nonce(t)) \/ ReadSeen(t) \/ AppendSeen(t) \/ EndCheck(t) \/ call' = call
  BY DEF ThreadStep, Verify, ConsumeNonce, Answer, OpenSwitch, WriteSwitch, CheckTier,
         Trade, Log, Alert, ReplyAuthorised, seenVars, Nonce
<1>2. QED
  BY <1>1 DEF SeenInv, SeenTypeOK, BeginCheck, ReadSeen, AppendSeen, EndCheck, Threads

LEMMA NonceStep ==
  ASSUME ServeShape, SeenInv, NonceInv, [Next]_vars
  PROVE  NonceInv'
<1>1. ASSUME NEW t \in Threads, NEW r \in Requests, Deliver(t, r) PROVE NonceInv'
  <2>1. ~At(t, "nonce")' /\ \A u \in Threads : u # t => serve'[u] = serve[u]
    BY <1>1, DeliverShape DEF At
  <2>2. call' = call
    BY <1>1 DEF Deliver, seenVars
  <2>3. QED
    BY <2>1, <2>2 DEF NonceInv, At, Nonce
<1>2. ASSUME NEW t \in Threads, ThreadStep(t) PROVE NonceInv'
  <2>1. At(t, "nonce")' => call'[t].key = Nonce(t)' /\ (serve[t].req.signed)'
    <3>1. CASE Verify(t)
      BY <3>1 DEF Verify, Genuine, BeginCheck, Reply, Move, NoServe, ServeShape, SeenInv,
                  SeenTypeOK, At, Nonce, Threads
    <3>2. CASE ConsumeNonce(t)
      <4>1. CASE ReadSeen(t) /\ serve' = serve
        BY <3>2, <4>1 DEF ConsumeNonce, ReadSeen, NonceInv, SeenInv, SeenTypeOK, At, Nonce,
                          Threads
      <4>2. CASE Move(t, "act") \/ Reply(t)
        BY <4>2 DEF Move, Reply, NoServe, ServeShape, At
      <4>3. QED
        BY <3>2, <4>1, <4>2 DEF ConsumeNonce, ReplyAuthorised
    <3>3. CASE ~Verify(t) /\ ~ConsumeNonce(t)
      BY <1>2, <3>3 DEF ThreadStep, Answer, OpenSwitch, WriteSwitch, CheckTier, Trade, Log,
                        Alert, ReplyAuthorised, Reply, Move, NoServe, ServeShape, At
    <3>4. QED
      BY <3>1, <3>2, <3>3
  <2>2. QED
    BY <1>2, <2>1, OwnCall, ThreadShape DEF NonceInv, At, Nonce
<1>3. CASE Restart
  BY <1>3 DEF Restart, NonceInv, At, NoServe
<1>4. CASE Tick \/ UNCHANGED vars
  BY <1>4 DEF Tick, vars, seenVars, NonceInv, At, Nonce
<1>5. QED
  BY <1>1, <1>2, <1>3, <1>4 DEF Next

\* Only a thread that consumes its nonce grants one, or writes to the file.
LEMMA GrantsOf ==
  ASSUME NEW t \in Threads, ThreadStep(t), ~AppendSeen(t)
  PROVE  UNCHANGED <<seen, grants>>
BY DEF ThreadStep, Verify, ConsumeNonce, Answer, OpenSwitch, WriteSwitch, CheckTier, Trade,
       Log, Alert, ReplyAuthorised, seenVars, BeginCheck, ReadSeen, EndCheck

\* An append belongs to a thread at its nonce.
LEMMA AppendsAtNonce ==
  ASSUME SeenInv, NEW t \in Threads, ThreadStep(t), AppendSeen(t)
  PROVE  ConsumeNonce(t) /\ Move(t, "act")
<1>1. call[t].pc = "append" /\ call'[t].pc = "passed"
  BY DEF AppendSeen, SeenInv, SeenTypeOK, Threads
<1>2. ~UNCHANGED seenVars /\ ~EndCheck(t) /\ ~ReadSeen(t) /\ ~BeginCheck(t, Nonce(t))
  BY <1>1 DEF seenVars, EndCheck, ReadSeen, BeginCheck
<1>3. ConsumeNonce(t)
  BY <1>2 DEF ThreadStep, Verify, Answer, OpenSwitch, WriteSwitch, CheckTier, Trade,
              Log, Alert, ReplyAuthorised, Nonce
<1>4. QED
  BY <1>2, <1>3 DEF ConsumeNonce, ReplyAuthorised

LEMMA SignedStep ==
  ASSUME Exact = Keys, ServeShape, SeenInv, SentInv, NonceInv, SignedInv, [Next]_vars
  PROVE  SignedInv'
<1>1. ASSUME NEW t \in Threads, NEW r \in Requests, Deliver(t, r) PROVE SignedInv'
  <2>1. seen' = seen /\ sends' = [sends EXCEPT ![r] = @ + 1]
    BY <1>1 DEF Deliver, seenVars
  <2>2. \A q \in Requests : sends[q] > 0 => sends'[q] > 0
    BY <2>1 DEF SentInv
  <2>3. QED
    BY <2>1, <2>2 DEF SignedInv
<1>2. ASSUME NEW t \in Threads, ThreadStep(t) PROVE SignedInv'
  <2>1. sends' = sends
    BY <1>2 DEF ThreadStep, Verify, ConsumeNonce, Answer, OpenSwitch, WriteSwitch, CheckTier,
                Trade, Log, Alert, bookVars
  <2>2. CASE AppendSeen(t)
    <3>1. At(t, "nonce")
      BY <1>2, <2>2, AppendsAtNonce DEF ConsumeNonce
    <3>2. /\ serve[t].req \in Requests /\ sends[serve[t].req] > 0
          /\ call[t].key = Nonce(t) /\ serve[t].req.signed
      BY <3>1 DEF ServeShape, SentInv, NonceInv, At
    <3>3. Strip[Nonce(t)] = Nonce(t)
      BY <3>2, RequestKinds DEF Exact, Nonce
    <3>4. seen' \subseteq seen \cup {Nonce(t)}
      BY <2>2, <3>2, <3>3 DEF AppendSeen
    <3>5. QED
      BY <2>1, <3>2, <3>4 DEF SignedInv, Nonce
  <2>3. QED
    BY <1>2, <2>1, <2>2, GrantsOf DEF SignedInv
<1>3. CASE Restart \/ Tick \/ UNCHANGED vars
  BY <1>3 DEF Restart, SeenCrash, Tick, vars, bookVars, seenVars, SignedInv
<1>4. QED
  BY <1>1, <1>2, <1>3 DEF Next

-----------------------------------------------------------------------------
(* Effects. *)

\* t may still let its signed request have its effect.
Armed(t) == serve[t].pc \in {"act", "write", "trade"} /\ Kind(t) \in AdminKinds

Admin(n) == {r \in Requests : r.kind \in AdminKinds /\ r.nonce = n}

\* No effect, and no thread about to have one, without a nonce that passed.
GrantedInv ==
  /\ effects \in [Requests -> Nat]
  /\ \A t \in Threads : Armed(t) => grants[Nonce(t)] > 0
  /\ \A n \in Keys : \A r \in Admin(n) : effects[r] > 0 => grants[n] > 0

\* A nonce that was never shared: one thread may have an effect, and then none.
Single(n) ==
  /\ \A t \in Threads : Armed(t) /\ Nonce(t) = n => \A r \in Admin(n) : effects[r] = 0
  /\ \A t, u \in Threads : Armed(t) /\ Nonce(t) = n /\ Armed(u) /\ Nonce(u) = n => t = u
  /\ \A r \in Admin(n) : effects[r] <= 1

EffectsInv == GrantedInv /\ \A n \in Exact \ shared : Single(n)

\* A step without effect or grant, after which no thread is armed that was not.
LEMMA CalmKeepsEffects ==
  ASSUME EffectsInv, UNCHANGED <<effects, grants>>, shared \subseteq shared',
         \A t \in Threads : Armed(t)' => Armed(t) /\ Nonce(t)' = Nonce(t)
  PROVE  EffectsInv'
BY DEF EffectsInv, GrantedInv, Single, Admin

\* The effect of the request of t, which disarms t.
LEMMA EffectKeepsEffects ==
  ASSUME ServeShape, EffectsInv, NEW t \in Threads,
         serve[t].pc \in {"act", "write", "trade"},
         effects' = [effects EXCEPT ![serve[t].req] = @ + 1],
         ~Armed(t)', \A u \in Threads : u # t => serve'[u] = serve[u],
         grants' = grants, shared \subseteq shared'
  PROVE  EffectsInv'
<1> DEFINE r == serve[t].req
<1>1. r \in Requests /\ r.nonce \in Keys /\ effects[r] \in Nat
  BY RequestKinds DEF ServeShape, At, EffectsInv, GrantedInv
<1>2. /\ effects' \in [Requests -> Nat] /\ effects'[r] = effects[r] + 1
      /\ \A q \in Requests : q # r => effects'[q] = effects[q]
  BY <1>1 DEF EffectsInv, GrantedInv
<1>3. \A u \in Threads : Armed(u)' => u # t /\ Armed(u) /\ Nonce(u)' = Nonce(u)
  BY DEF Armed, Nonce, Kind
<1>4. r.kind \in AdminKinds => Armed(t) /\ Nonce(t) = r.nonce
  BY DEF Armed, Nonce, Kind
<1>5. GrantedInv'
  BY <1>2, <1>3, <1>4 DEF EffectsInv, GrantedInv, Admin
<1>6. ASSUME NEW n \in Exact \ shared PROVE Single(n)'
  <2>1. CASE r \in Admin(n)
    <3>1. Armed(t) /\ Nonce(t) = n
      BY <1>4, <2>1 DEF Admin
    <3>2. \A q \in Admin(n) : effects[q] = 0
      BY <3>1 DEF EffectsInv, Single
    <3>3. \A u \in Threads : ~(Armed(u)' /\ Nonce(u)' = n)
      BY <1>3, <3>1 DEF EffectsInv, Single
    <3>4. QED
      BY <1>1, <1>2, <3>2, <3>3 DEF Single, Admin
  <2>2. CASE r \notin Admin(n)
    <3>1. \A q \in Admin(n) : effects'[q] = effects[q]
      BY <1>2, <2>2 DEF Admin
    <3>2. QED
      BY <1>3, <3>1 DEF EffectsInv, Single, Admin
  <2>3. QED
    BY <2>1, <2>2
<1>7. QED
  BY <1>5, <1>6 DEF EffectsInv, Exact

\* A nonce passes: its thread is armed.
LEMMA AppendKeepsEffects ==
  ASSUME ServeShape, SeenInv, NonceInv, EffectsInv, NEW t \in Threads,
         ThreadStep(t), AppendSeen(t)
  PROVE  EffectsInv'
<1> DEFINE k == Nonce(t)
<1>1. At(t, "nonce") /\ Move(t, "act") /\ effects' = effects
  BY AppendsAtNonce DEF ConsumeNonce, bookVars
<1>2. serve[t].req \in Requests /\ k \in Keys /\ call[t].key = k /\ call[t].pc = "append"
  BY <1>1, RequestKinds DEF ServeShape, NonceInv, At, Nonce, AppendSeen
<1>3. grants' = [grants EXCEPT ![k] = @ + 1] /\ shared' = shared
  BY <1>2 DEF AppendSeen
<1>4. \A n \in Keys : grants'[n] = IF n = k THEN grants[n] + 1 ELSE grants[n]
  BY <1>2, <1>3 DEF SeenInv, SeenTypeOK
<1>5. \A n \in Keys : grants[n] \in Nat
  BY DEF SeenInv, SeenTypeOK
<1>6. /\ serve'[t].req = serve[t].req
      /\ \A u \in Threads : u # t => serve'[u] = serve[u]
  BY <1>1 DEF Move, ServeShape
<1>7. \A u \in Threads : Armed(u) => Nonce(u) \in Keys
  BY RequestKinds DEF Armed, Nonce, ServeShape, At
<1>8. GrantedInv'
  <2>1. \A u \in Threads : Armed(u)' => (grants[Nonce(u)] > 0)'
    BY <1>2, <1>4, <1>5, <1>6, <1>7 DEF Armed, Nonce, Kind, EffectsInv, GrantedInv
  <2>2. QED
    BY <1>1, <1>4, <1>5, <2>1 DEF EffectsInv, GrantedInv, Admin
<1>9. ASSUME NEW n \in Exact \ shared PROVE Single(n)'
  <2>1. n \in Keys
    BY DEF Exact
  <2>2. CASE n = k
    <3>1. grants[n] = 0
      BY <1>2, <2>2 DEF SeenInv, AloneInv, Threads
    <3>2. \A u \in Threads : ~(Armed(u) /\ Nonce(u) = n)
      BY <3>1 DEF EffectsInv, GrantedInv
    <3>3. \A r \in Admin(n) : effects[r] = 0
      BY <2>1, <3>1 DEF EffectsInv, GrantedInv, Admin
    <3>4. \A u \in Threads : Armed(u)' /\ Nonce(u)' = n => u = t
      BY <1>6, <3>2 DEF Armed, Nonce, Kind
    <3>5. QED
      BY <1>1, <3>3, <3>4 DEF Single, Admin
  <2>3. CASE n # k
    <3>1. \A u \in Threads : Armed(u)' /\ Nonce(u)' = n => Armed(u) /\ Nonce(u) = n
      BY <1>6, <2>3 DEF Armed, Nonce, Kind
    <3>2. QED
      BY <1>1, <3>1 DEF EffectsInv, Single, Admin
  <2>4. QED
    BY <2>2, <2>3
<1>10. QED
  BY <1>3, <1>8, <1>9 DEF EffectsInv, Exact

LEMMA ThreadEffects ==
  ASSUME ServeShape, SeenInv, NonceInv, EffectsInv, NEW t \in Threads, ThreadStep(t),
         shared \subseteq shared'
  PROVE  EffectsInv'
<1>0. \A u \in Threads : u # t => serve'[u] = serve[u]
  BY ThreadShape
<1>1. CASE AppendSeen(t)
  BY <1>1, AppendKeepsEffects
<1>2. CASE ~AppendSeen(t)
  <2>0. grants' = grants
    BY <1>2, GrantsOf
  <2>1. CASE effects' = [effects EXCEPT ![serve[t].req] = @ + 1]
             /\ serve[t].pc \in {"act", "write", "trade"}
             /\ (Reply(t) \/ Move(t, "log"))
    <3>1. ~Armed(t)'
      BY <2>1 DEF Armed, Reply, Move, NoServe, ServeShape
    <3>2. QED
      BY <1>0, <2>0, <2>1, <3>1, EffectKeepsEffects
  <2>2. CASE effects' = effects /\ (Armed(t)' => Armed(t) /\ Nonce(t)' = Nonce(t))
    BY <1>0, <2>0, <2>2, CalmKeepsEffects DEF Armed, Nonce, Kind
  <2>3. \/ Reply(t) /\ effects' = effects
        \/ \E pc \in {"nonce", "log", "alert"} : Move(t, pc) /\ effects' = effects
        \/ serve' = serve /\ effects' = effects
        \/ \E pc \in {"write", "trade"} :
             Move(t, pc) /\ serve[t].pc = "act" /\ effects' = effects
        \/ /\ effects' = [effects EXCEPT ![serve[t].req] = @ + 1]
           /\ serve[t].pc \in {"act", "write", "trade"}
           /\ Reply(t) \/ Move(t, "log")
    BY <1>2 DEF ThreadStep, Verify, ConsumeNonce, Answer, OpenSwitch, WriteSwitch, CheckTier,
                Trade, Log, Alert, ReplyAuthorised, bookVars, At
  <2>4. CASE \/ Reply(t) \/ serve' = serve
             \/ \E pc \in {"nonce", "log", "alert"} : Move(t, pc)
             \/ \E pc \in {"write", "trade"} : Move(t, pc) /\ serve[t].pc = "act"
    <3>1. Armed(t)' => Armed(t) /\ Nonce(t)' = Nonce(t)
      BY <2>4 DEF Armed, Nonce, Kind, Reply, Move, NoServe, ServeShape
    <3>2. QED
      BY <2>1, <2>2, <2>3, <3>1
  <2>5. QED
    BY <2>1, <2>3, <2>4
<1>3. QED
  BY <1>1, <1>2

LEMMA EffectsStep ==
  ASSUME ServeShape, SeenInv, NonceInv, EffectsInv, [Next]_vars
  PROVE  EffectsInv'
<1>0. shared \subseteq shared'
  BY ConsoleSeen, SharedGrows
<1>1. ASSUME NEW t \in Threads, NEW r \in Requests, Deliver(t, r) PROVE EffectsInv'
  <2>1. \A u \in Threads : Armed(u)' => Armed(u) /\ Nonce(u)' = Nonce(u)
    BY <1>1, DeliverShape, RequestKinds DEF Armed, Nonce, Kind, AdminKinds, UiKinds
  <2>2. QED
    BY <1>0, <1>1, <2>1, CalmKeepsEffects DEF Deliver, seenVars
<1>2. CASE Restart
  <2>1. \A u \in Threads : ~Armed(u)'
    BY <1>2 DEF Restart, Armed, NoServe
  <2>2. QED
    BY <1>0, <1>2, <2>1, CalmKeepsEffects DEF Restart, SeenCrash
<1>3. CASE Tick \/ UNCHANGED vars
  <2>1. \A u \in Threads : Armed(u)' => Armed(u) /\ Nonce(u)' = Nonce(u)
    BY <1>3 DEF Tick, vars, Armed, Nonce, Kind
  <2>2. QED
    BY <1>0, <1>3, <2>1, CalmKeepsEffects DEF Tick, vars, bookVars, seenVars
<1>4. QED
  BY <1>0, <1>1, <1>2, <1>3, ThreadEffects DEF Next

LEMMA EffectsInit == Init => SentInv /\ NonceInv /\ SignedInv /\ EffectsInv
<1> SUFFICES ASSUME Init PROVE SentInv /\ NonceInv /\ SignedInv /\ EffectsInv
  OBVIOUS
<1>1. SentInv /\ NonceInv /\ SignedInv
  BY DEF Init, SeenInit, SentInv, NonceInv, SignedInv, NoServe, At
<1>2. \A t \in Threads : ~Armed(t)
  BY DEF Init, NoServe, Armed
<1>3. QED
  BY <1>1, <1>2 DEF Init, EffectsInv, GrantedInv, Single, Admin

ConsoleInv == ServeShape /\ SeenInv /\ SentInv /\ NonceInv /\ EffectsInv

LEMMA ConsoleInvariant == Spec => []ConsoleInv
<1>1. Init => ConsoleInv
  BY ShapeInit, SeenInitInv, EffectsInit DEF Init, ConsoleInv
<1>2. ConsoleInv /\ [Next]_vars => ConsoleInv'
  BY ShapeStep, ConsoleSeen, SeenStep, SentStep, NonceStep, EffectsStep DEF ConsoleInv
<1>3. QED
  BY <1>1, <1>2, PTL DEF Spec

(* For any threads, requests, clock and crashes: a signed request has its  *)
(* effect at most once, however often it is sent, unless two copies were   *)
(* checked at once.                                                        *)
THEOREM SignedActOnce ==
  ASSUME Exact = Keys
  PROVE  Spec => []OneEffectPerRequest
<1>1. ConsoleInv => OneEffectPerRequest
  BY RequestKinds DEF ConsoleInv, EffectsInv, Single, Admin, OneEffectPerRequest
<1>2. QED
  BY <1>1, ConsoleInvariant, PTL

(* No effect of a signed request without its nonce on disk, and no nonce   *)
(* there that nobody signed for.                                           *)
THEOREM NoncesBurned ==
  ASSUME Exact = Keys
  PROVE  Spec => []BurnedForEffect
<1>1. Init => SignedInv
  BY EffectsInit
<1>2. ConsoleInv /\ SignedInv /\ [Next]_vars => SignedInv'
  BY SignedStep DEF ConsoleInv
<1>3. ConsoleInv /\ SignedInv => BurnedForEffect
  <2> SUFFICES ASSUME ConsoleInv, SignedInv PROVE BurnedForEffect
    OBVIOUS
  <2>1. ASSUME NEW r \in Requests, r.kind \in AdminKinds, effects[r] > 0 PROVE r.nonce \in seen
    <3>1. r.nonce \in Keys /\ r \in Admin(r.nonce)
      BY <2>1, RequestKinds DEF Admin
    <3>2. grants[r.nonce] > 0
      BY <2>1, <3>1 DEF ConsoleInv, EffectsInv, GrantedInv
    <3>3. QED
      BY <3>1, <3>2 DEF ConsoleInv, SeenInv, PassedKeysBurned
  <2>2. QED
    BY <2>1 DEF SignedInv, BurnedForEffect
<1>4. QED
  BY <1>1, <1>2, <1>3, ConsoleInvariant, PTL DEF Spec

-----------------------------------------------------------------------------
(* The audit log. *)

\* What is traded has passed its tier.
TierInv == \A t \in Threads : At(t, "trade") => Kind(t) = "manual_trade" /\ TierSatisfied(serve[t].req)

LEMMA TierStep ==
  ASSUME ServeShape, TierInv, [Next]_vars
  PROVE  TierInv'
<1>1. ASSUME NEW t \in Threads, NEW r \in Requests, Deliver(t, r) PROVE TierInv'
  BY <1>1, DeliverShape DEF TierInv, At, Kind, TierSatisfied
<1>2. ASSUME NEW t \in Threads, ThreadStep(t) PROVE TierInv'
  <2>1. At(t, "trade")' => CheckTier(t) /\ Move(t, "trade")
    BY <1>2 DEF ThreadStep, Verify, ConsumeNonce, Answer, OpenSwitch, WriteSwitch, CheckTier,
                Trade, Log, Alert, ReplyAuthorised, Reply, Move, NoServe, ServeShape, At
  <2>2. At(t, "trade")' => Kind(t)' = "manual_trade" /\ TierSatisfied(serve[t].req)'
    <3> SUFFICES ASSUME At(t, "trade")' PROVE Kind(t)' = "manual_trade" /\ TierSatisfied(serve[t].req)'
      OBVIOUS
    <3>1. serve'[t].req = serve[t].req
      BY <2>1 DEF Move, ServeShape
    <3>2. Kind(t) = "manual_trade"
      BY <2>1 DEF CheckTier
    <3>3. TierSatisfied(serve[t].req)
      <4>1. CASE TierSatisfied(serve[t].req)
        BY <4>1
      <4>2. CASE ~TierSatisfied(serve[t].req)
        BY <2>1, <4>2 DEF CheckTier, ReplyAuthorised, Reply, Move, NoServe, ServeShape, At
      <4>3. QED
        BY <4>1, <4>2
    <3>4. QED
      BY <3>1, <3>2, <3>3 DEF Kind
  <2>3. QED
    BY <1>2, <2>2, ThreadShape DEF TierInv, At, Kind, TierSatisfied
<1>3. CASE Restart
  BY <1>3 DEF Restart, TierInv, NoServe, At
<1>4. CASE Tick \/ UNCHANGED vars
  BY <1>4 DEF Tick, vars, TierInv, At, Kind, TierSatisfied
<1>5. QED
  BY <1>1, <1>2, <1>3, <1>4 DEF Next

\* One more event in the log.
LEMMA LogGrows ==
  ASSUME NEW r \in Requests, log \in Seq(Requests), log' = Append(log, r)
  PROVE  log' \in Seq(Requests) /\ ToSet(log') = ToSet(log) \cup {r}
BY DEF ToSet

\* The log has the events; the rest is the property itself.
AccountInv ==
  /\ log \in Seq(Requests) /\ cut \subseteq Requests
  /\ effects \in [Requests -> Nat]
  /\ CommandsAccounted

LEMMA ServingStays ==
  ASSUME NEW r, NEW states, NEW t \in Threads,
         \A u \in Threads : u # t => serve'[u] = serve[u],
         serve[t].req # r \/ serve[t].pc \notin states, Serving(r, states)
  PROVE  Serving(r, states)'
BY DEF Serving

LEMMA AccountStep ==
  ASSUME ServeShape, TierInv, AccountInv, [Next]_vars
  PROVE  AccountInv'
<1> USE RequestKinds
<1>1. ASSUME NEW t \in Threads, NEW r \in Requests, Deliver(t, r) PROVE AccountInv'
  <2>1. /\ serve[t].pc = "idle" /\ UNCHANGED <<log, alerts, effects, cut>>
        /\ \A u \in Threads : u # t => serve'[u] = serve[u]
    BY <1>1, DeliverShape DEF Deliver, At
  <2>2. \A q, states : states \in {{"log"}, {"log", "alert"}} /\ Serving(q, states)
                          => Serving(q, states)'
    BY <2>1, ServingStays
  <2>3. QED
    BY <2>1, <2>2 DEF AccountInv, CommandsAccounted
<1>2. ASSUME NEW t \in Threads, ThreadStep(t) PROVE AccountInv'
  <2> DEFINE q == serve[t].req
  <2>0. q \in Requests /\ \A u \in Threads : u # t => serve'[u] = serve[u]
    BY <1>2, ThreadShape
       DEF ThreadStep, Verify, ConsumeNonce, Answer, OpenSwitch, WriteSwitch, CheckTier,
           Trade, Log, Alert, ServeShape, At
  <2>1. CASE WriteSwitch(t)
    <3>1. /\ serve'[t] = [serve[t] EXCEPT !.pc = "log"] /\ At(t, "write")
          /\ effects' = [effects EXCEPT ![q] = @ + 1]
          /\ UNCHANGED <<log, alerts, cut>>
      BY <2>1 DEF WriteSwitch, Move, ServeShape
    <3>2. Serving(q, {"log"})' /\ Serving(q, {"log", "alert"})'
      BY <3>1 DEF Serving, ServeShape
    <3>3. \A r, states : states \in {{"log"}, {"log", "alert"}} /\ Serving(r, states)
                            => Serving(r, states)'
      BY <2>0, <3>1, ServingStays DEF At
    <3>4. effects' \in [Requests -> Nat] /\ \A r \in Requests : r # q => effects'[r] = effects[r]
      BY <2>0, <3>1 DEF AccountInv
    <3>5. QED
      BY <3>1, <3>2, <3>3, <3>4 DEF AccountInv, CommandsAccounted
  <2>2. CASE Log(t)
    <3>1. /\ log' = Append(log, q) /\ At(t, "log") /\ UNCHANGED <<alerts, effects, cut>>
          /\ q.kind = "ui_halt" => serve'[t] = [serve[t] EXCEPT !.pc = "alert"]
      BY <2>2 DEF Log, Move, Kind, ServeShape
    <3>2. log' \in Seq(Requests) /\ ToSet(log') = ToSet(log) \cup {q}
      BY <2>0, <3>1, LogGrows DEF AccountInv
    <3>3. \A r : r # q /\ Serving(r, {"log"}) => Serving(r, {"log"})'
      BY <2>0 DEF Serving
    <3>4. \A r : r # q /\ Serving(r, {"log", "alert"}) => Serving(r, {"log", "alert"})'
      BY <2>0 DEF Serving
    <3>5. ASSUME NEW r, r = q, q.kind = "ui_halt" PROVE Serving(r, {"log", "alert"})'
      BY <3>1, <3>5 DEF Serving, ServeShape
    <3>6. ASSUME NEW r \in Requests \ cut', Switching(r), effects'[r] > 0
          PROVE  /\ r \in ToSet(log') \/ Serving(r, {"log"})'
                 /\ r.kind = "ui_halt" => r \in alerts' \/ Serving(r, {"log", "alert"})'
      <4>1. CASE r = q
        BY <3>2, <3>5, <4>1
      <4>2. CASE r # q
        <5>1. r \in Requests \ cut /\ effects[r] > 0 /\ alerts' = alerts
          BY <3>1, <3>6
        <5>2. /\ r \in ToSet(log) \/ Serving(r, {"log"})
              /\ r.kind = "ui_halt" => r \in alerts \/ Serving(r, {"log", "alert"})
          BY <3>6, <5>1 DEF AccountInv, CommandsAccounted
        <5>3. QED
          BY <3>2, <3>3, <3>4, <4>2, <5>1, <5>2
      <4>3. QED
        BY <4>1, <4>2
    <3>7. QED
      BY <3>1, <3>2, <3>6 DEF AccountInv, CommandsAccounted
  <2>3. CASE Alert(t)
    <3>1. alerts' = alerts \cup {q} /\ At(t, "alert") /\ UNCHANGED <<log, effects, cut>>
      BY <2>3 DEF Alert
    <3>2. \A r : Serving(r, {"log"}) => Serving(r, {"log"})'
      BY <2>0, <3>1, ServingStays DEF At
    <3>3. \A r : r # q /\ Serving(r, {"log", "alert"}) => Serving(r, {"log", "alert"})'
      BY <2>0 DEF Serving
    <3>4. QED
      BY <3>1, <3>2, <3>3 DEF AccountInv, CommandsAccounted
  <2>4. CASE ~WriteSwitch(t) /\ ~Log(t) /\ ~Alert(t)
    <3>1. /\ serve[t].pc \notin {"log", "alert"} /\ UNCHANGED <<log, alerts, cut>>
          /\ \/ effects' = effects
             \/ effects' = [effects EXCEPT ![q] = @ + 1] /\ Kind(t) \in {"strategy_poll", "manual_trade"}
      <4>1. CASE Verify(t) \/ ConsumeNonce(t) \/ Answer(t) \/ OpenSwitch(t) \/ CheckTier(t)
        BY <4>1 DEF Verify, ConsumeNonce, Answer, OpenSwitch, CheckTier, bookVars, At
      <4>2. CASE Trade(t)
        BY <4>2 DEF Trade, At, TierInv
      <4>3. QED
        BY <1>2, <2>4, <4>1, <4>2 DEF ThreadStep
    <3>2. \A r, states : states \in {{"log"}, {"log", "alert"}} /\ Serving(r, states)
                            => Serving(r, states)'
      BY <2>0, <3>1, ServingStays
    <3>3. /\ effects' \in [Requests -> Nat]
          /\ \A r \in Requests : Switching(r) => effects'[r] = effects[r]
      BY <2>0, <3>1 DEF AccountInv, Kind, Switching, UiKinds
    <3>4. QED
      BY <3>1, <3>2, <3>3 DEF AccountInv, CommandsAccounted
  <2>5. QED
    BY <2>1, <2>2, <2>3, <2>4
<1>3. CASE Restart
  <2>1. \A r \in Requests : (\E t \in Threads : ~At(t, "idle") /\ serve[t].req = r) => r \in cut'
    BY <1>3 DEF Restart
  <2>2. \A r \in Requests \ cut' : ~Serving(r, {"log"}) /\ ~Serving(r, {"log", "alert"})
    BY <2>1 DEF Serving, At
  <2>3. cut \subseteq cut' /\ cut' \subseteq Requests /\ UNCHANGED <<log, alerts, effects>>
    BY <1>3 DEF Restart, AccountInv, ServeShape
  <2>4. QED
    BY <2>2, <2>3 DEF AccountInv, CommandsAccounted
<1>4. CASE Tick \/ UNCHANGED vars
  BY <1>4 DEF Tick, vars, bookVars, AccountInv, CommandsAccounted, Serving
<1>5. QED
  BY <1>1, <1>2, <1>3, <1>4 DEF Next

(* Every halt and resume that took effect is in the audit log, and a halt  *)
(* of the page has its alert, or is on the way there, however the threads  *)
(* interleave; only a crash leaves one without.                            *)
THEOREM CommandsLogged == Spec => []CommandsAccounted
<1>1. Init => ServeShape /\ TierInv /\ AccountInv
  <2> SUFFICES ASSUME Init PROVE ServeShape /\ TierInv /\ AccountInv
    OBVIOUS
  <2>1. TierInv
    BY DEF Init, TierInv, NoServe, At
  <2>2. AccountInv
    BY DEF Init, AccountInv, CommandsAccounted
  <2>3. QED
    BY <2>1, <2>2, ShapeInit
<1>2. ServeShape /\ TierInv /\ AccountInv /\ [Next]_vars => (ServeShape /\ TierInv /\ AccountInv)'
  BY ShapeStep, TierStep, AccountStep
<1>3. AccountInv => CommandsAccounted
  BY DEF AccountInv
<1>4. QED
  BY <1>1, <1>2, <1>3, PTL DEF Spec

(* A manual trade no larger than declared has what its tier asks for, for  *)
(* any thresholds and sizes.                                               *)
THEOREM TradesHaveTheirTier == Spec => []TradesConfirmed
<1> DEFINE Inv == ServeShape /\ TierInv /\ trades \subseteq Requests \X Sizes
                  /\ \A x \in trades : TierSatisfied(x[1])
<1>1. Init => Inv
  <2>1. Init => TierInv /\ trades = {}
    BY DEF Init, TierInv, NoServe, At
  <2>2. QED
    BY <2>1, ShapeInit
<1>2. Inv /\ [Next]_vars => Inv'
  <2> SUFFICES ASSUME Inv, [Next]_vars PROVE Inv'
    OBVIOUS
  <2>1. ServeShape' /\ TierInv'
    BY ShapeStep, TierStep
  <2>2. \/ trades' = trades
        \/ \E t \in Threads, n \in Sizes :
             At(t, "trade") /\ trades' = trades \cup {<<serve[t].req, n>>}
    BY DEF Next, vars, bookVars, Deliver, Tick, Restart, ThreadStep, Verify, ConsumeNonce, Answer,
           OpenSwitch, WriteSwitch, CheckTier, Trade, Log, Alert
  <2>3. ASSUME NEW t \in Threads, NEW n \in Sizes, At(t, "trade"),
               trades' = trades \cup {<<serve[t].req, n>>}
        PROVE  trades' \subseteq Requests \X Sizes /\ \A x \in trades' : TierSatisfied(x[1])
    <3>1. serve[t].req \in Requests /\ TierSatisfied(serve[t].req)
      BY <2>3 DEF ServeShape, TierInv, At
    <3>2. QED
      BY <2>3, <3>1
  <2>4. (\A x \in trades : TierSatisfied(x[1]))'
    BY <2>2, <2>3 DEF TierSatisfied
  <2>5. QED
    BY <2>1, <2>2, <2>3, <2>4
<1>3. Inv => TradesConfirmed
  BY ConsoleAssumption DEF TierSatisfied, TradesConfirmed
<1>4. QED
  BY <1>1, <1>2, <1>3, PTL DEF Spec

-----------------------------------------------------------------------------
(* The audit log and the switch. *)

\* What the request of a halt or a resume leaves in the switch.
Wanted(r) == IF r.kind \in {"halt", "ui_halt"} THEN "halted" ELSE "clear"

\* t is between emptying the switch and its event.
Turning(t) ==
  \/ At(t, "write")
  \/ At(t, "log") /\ Switching(serve[t].req)

LastTold ==
  \A i \in 1..Len(log) :
    Switching(log[i]) /\ (\A j \in (i + 1)..Len(log) : ~Switching(log[j]))
      => content = Wanted(log[i])

\* One request at a time; what it does to the switch, step by step; and the
\* log and the switch agree in between.
OneAtATime == \A t, u \in Threads : ~At(t, "idle") /\ ~At(u, "idle") => t = u

Turns ==
  \A t \in Threads :
    /\ At(t, "write") => /\ Switching(serve[t].req) /\ content = "empty"
                         /\ writing[t] = Wanted(serve[t].req)
    /\ At(t, "log") /\ Switching(serve[t].req) => content = Wanted(serve[t].req)

AuditInv ==
  /\ log \in Seq(Requests) /\ overlap \in BOOLEAN
  /\ Undisturbed => /\ OneAtATime /\ Turns
                    /\ (\A t \in Threads : ~Turning(t)) => LastTold

\* A step of a thread that neither begins nor ends turning the switch.
LEMMA AsideStep ==
  ASSUME ServeShape, AuditInv, NEW t \in Threads, ~At(t, "idle"), ~Turning(t),
         \A u \in Threads : u # t => serve'[u] = serve[u],
         ~(Turning(t)'), UNCHANGED <<overlap, cut, log, controlVars>>
  PROVE  AuditInv'
<1>1. Undisturbed' => Undisturbed
  BY DEF Undisturbed
<1>2. ASSUME Undisturbed' PROVE OneAtATime' /\ Turns'
  <2>1. OneAtATime /\ Turns
    BY <1>1, <1>2 DEF AuditInv
  <2>2. OneAtATime'
    BY <2>1 DEF OneAtATime, At
  <2>3. ~At(t, "write")' /\ ~(At(t, "log") /\ Switching(serve[t].req))'
    BY Zenon DEF Turning
  <2>4. ASSUME NEW u \in Threads, u # t
        PROVE  At(u, "write")' = At(u, "write") /\ At(u, "log")' = At(u, "log")
               /\ serve'[u].req = serve[u].req
    BY <2>4 DEF At
  <2>5. content' = content /\ writing' = writing
    BY DEF controlVars
  <2>6. Turns'
    BY <2>1, <2>3, <2>4, <2>5 DEF Turns
  <2>7. QED
    BY <2>2, <2>6
<1>3. ASSUME Undisturbed', \A u \in Threads : ~Turning(u)' PROVE LastTold'
  <2>1. \A u \in Threads : ~Turning(u)
    BY <1>3 DEF Turning, At
  <2>2. LastTold
    BY <1>1, <1>3, <2>1 DEF AuditInv
  <2>3. QED
    BY <2>2 DEF LastTold, controlVars
<1>4. QED
  BY <1>2, <1>3 DEF AuditInv

LEMMA OpenAudit ==
  ASSUME ServeShape, ControlTypeOK, AuditInv, NEW t \in Threads, OpenSwitch(t)
  PROVE  AuditInv'
<1>1. /\ At(t, "act") /\ Kind(t) \in {"halt", "resume"} \cup UiKinds
      /\ content' = "empty" /\ writing' = [writing EXCEPT ![t] = SwitchTo(t)]
      /\ serve' = [serve EXCEPT ![t].pc = "write"]
      /\ UNCHANGED <<overlap, cut, log>>
  BY DEF OpenSwitch, OpenForWrite, Move, bookVars
<1>2. /\ serve'[t].pc = "write" /\ serve'[t].req = serve[t].req
      /\ \A u \in Threads : u # t => serve'[u] = serve[u]
  BY <1>1 DEF ServeShape
<1>3. Undisturbed' => Undisturbed
  BY <1>1 DEF Undisturbed
<1>4. ASSUME Undisturbed' PROVE OneAtATime' /\ Turns'
  <2>1. OneAtATime /\ Turns
    BY <1>3, <1>4 DEF AuditInv
  <2>2. OneAtATime'
    BY <1>1, <1>2, <2>1 DEF OneAtATime, At
  <2>3. Switching(serve'[t].req) /\ SwitchTo(t) = Wanted(serve'[t].req)
    BY <1>1, <1>2 DEF Switching, SwitchTo, Wanted, Kind
  <2>4. \A u \in Threads : u # t => At(u, "idle")
    BY <1>1, <2>1 DEF OneAtATime, At
  <2>5. writing'[t] = SwitchTo(t)
    BY <1>1, ConsoleAssumption DEF ControlTypeOK, Threads
  <2>6. QED
    BY <1>1, <1>2, <2>2, <2>3, <2>4, <2>5 DEF Turns, At
<1>5. Turning(t)'
  <2>1. At(t, "write")'
    BY <1>2 DEF At
  <2>2. QED
    BY <2>1, Zenon DEF Turning
<1>6. QED
  BY <1>1, <1>4, <1>5 DEF AuditInv

LEMMA WriteAudit ==
  ASSUME ServeShape, ControlTypeOK, AuditInv, NEW t \in Threads, WriteSwitch(t)
  PROVE  AuditInv'
<1>1. /\ At(t, "write") /\ content' \in Overwritten(writing[t])
      /\ serve' = [serve EXCEPT ![t].pc = "log"]
      /\ UNCHANGED <<overlap, cut, log>>
  BY DEF WriteSwitch, CloseWrite, Move
<1>2. /\ serve'[t].pc = "log" /\ serve'[t].req = serve[t].req
      /\ \A u \in Threads : u # t => serve'[u] = serve[u]
  BY <1>1 DEF ServeShape
<1>3. Undisturbed' => Undisturbed
  BY <1>1 DEF Undisturbed
<1>4. ASSUME Undisturbed' PROVE OneAtATime' /\ Turns' /\ Turning(t)'
  <2>1. OneAtATime /\ Turns
    BY <1>3, <1>4 DEF AuditInv
  <2>2. OneAtATime'
    BY <1>1, <1>2, <2>1 DEF OneAtATime, At
  <2>3. Switching(serve'[t].req) /\ writing[t] = Wanted(serve'[t].req) /\ content = "empty"
    BY <1>1, <1>2, <2>1 DEF Turns
  <2>4. \A u \in Threads : u # t => At(u, "idle")
    BY <1>1, <2>1 DEF OneAtATime, At
  <2>5. content' = Wanted(serve'[t].req)
    BY <1>1, <2>3 DEF Overwritten
  <2>6. Turns'
    BY <1>2, <2>3, <2>4, <2>5 DEF Turns, At
  <2>7. At(t, "log")'
    BY <1>2 DEF At
  <2>8. QED
    BY <2>2, <2>3, <2>6, <2>7 DEF Turning
<1>5. QED
  BY <1>1, <1>4 DEF AuditInv

LEMMA LogAudit ==
  ASSUME ServeShape, AuditInv, NEW t \in Threads, Log(t)
  PROVE  AuditInv'
<1> DEFINE q == serve[t].req
           l == Append(log, q)
<1>1. /\ At(t, "log") /\ log' = l /\ UNCHANGED <<overlap, cut, content, writing>>
  BY DEF Log, controlVars
<1>2. q \in Requests /\ \A u \in Threads : u # t => serve'[u] = serve[u]
  BY <1>1, ThreadShape DEF ThreadStep, ServeShape, At
<1>3. serve'[t].pc \in {"alert", "idle"}
  BY DEF Log, Move, ReplyAuthorised, Reply, NoServe, ServeShape
<1>4. log \in Seq(Requests)
  BY DEF AuditInv
<1>5. /\ l \in Seq(Requests) /\ Len(l) = Len(log) + 1 /\ Len(log) \in Nat
      /\ \A i \in 1..Len(log) : l[i] = log[i]
      /\ l[Len(log) + 1] = q
  BY <1>2, <1>4
<1> HIDE DEF q, l
<1>6. Undisturbed' => Undisturbed
  BY <1>1 DEF Undisturbed
<1>7. ASSUME Undisturbed' PROVE OneAtATime' /\ Turns' /\ LastTold'
  <2>1. OneAtATime /\ Turns
    BY <1>6, <1>7 DEF AuditInv
  <2>2. OneAtATime'
    BY <1>1, <1>2, <2>1 DEF OneAtATime, At
  <2>3. \A u \in Threads : u # t => At(u, "idle")
    BY <1>1, <2>1 DEF OneAtATime, At
  <2>4. Turns'
    BY <1>2, <1>3, <2>3 DEF Turns, At
  <2>5. CASE Switching(q)
    <3>1. content = Wanted(q)
      BY <1>1, <2>1, <2>5 DEF Turns, q
    <3>2. \A i \in 1..Len(l) : i # Len(log) + 1 => Len(log) + 1 \in (i + 1)..Len(l)
      BY <1>5
    <3>3. LastTold'
      BY <1>1, <1>5, <2>5, <3>1, <3>2 DEF LastTold
    <3>4. QED
      BY <2>2, <2>4, <3>3
  <2>6. CASE ~Switching(q)
    <3>1. \A u \in Threads : ~Turning(u)
      BY <1>1, <2>3, <2>6 DEF Turning, At, q
    <3>2. LastTold
      BY <1>6, <1>7, <3>1 DEF AuditInv
    <3>3. ASSUME NEW i \in 1..Len(l), Switching(l[i]),
                 \A j \in (i + 1)..Len(l) : ~Switching(l[j])
          PROVE  content = Wanted(l[i])
      <4>1. i \in 1..Len(log) /\ l[i] = log[i]
        BY <1>5, <2>6, <3>3
      <4>2. \A j \in (i + 1)..Len(log) : ~Switching(log[j])
        BY <1>5, <3>3, <4>1
      <4>3. QED
        BY <3>2, <3>3, <4>1, <4>2 DEF LastTold
    <3>4. LastTold'
      BY <1>1, <3>3 DEF LastTold
    <3>5. QED
      BY <2>2, <2>4, <3>4
  <2>7. QED
    BY <2>2, <2>4, <2>5, <2>6
<1>8. QED
  BY <1>1, <1>5, <1>7 DEF AuditInv

LEMMA DeliverAudit ==
  ASSUME ServeShape, AuditInv, NEW t \in Threads, NEW r \in Requests, Deliver(t, r)
  PROVE  AuditInv'
<1>1. /\ At(t, "idle") /\ UNCHANGED <<cut, log, content, writing>>
      /\ overlap' = (overlap \/ \E u \in Threads : ~At(u, "idle"))
  BY DEF Deliver, controlVars
<1>2. /\ \A u \in Threads : u # t => serve'[u] = serve[u]
      /\ serve'[t].pc \in {"act", "verify"}
  BY DeliverShape
<1>3. overlap' \in BOOLEAN
  BY <1>1, Zenon DEF AuditInv
<1>4. ASSUME Undisturbed' PROVE OneAtATime' /\ Turns' /\ LastTold'
  <2>1. Undisturbed /\ \A u \in Threads : At(u, "idle")
    BY <1>1, <1>4 DEF Undisturbed
  <2>2. \A u \in Threads : ~Turning(u)
    BY <2>1 DEF Turning, At
  <2>3. LastTold
    BY <2>1, <2>2 DEF AuditInv
  <2>4. OneAtATime'
    BY <1>2, <2>1 DEF OneAtATime, At
  <2>5. Turns'
    BY <1>2, <2>1 DEF Turns, At
  <2>6. LastTold'
    BY <1>1, <2>3 DEF LastTold
  <2>7. QED
    BY <2>4, <2>5, <2>6
<1>5. QED
  BY <1>1, <1>3, <1>4 DEF AuditInv

LEMMA RestartAudit ==
  ASSUME ServeShape, AuditInv, Restart
  PROVE  AuditInv'
<1>1. /\ serve' = [t \in Threads |-> NoServe] /\ UNCHANGED <<log, overlap, content>>
      /\ cut' = cut \cup {serve[t].req : t \in {u \in Threads : ~At(u, "idle")}}
  BY DEF Restart, ControlCrash
<1>2. \A t \in Threads : At(t, "idle")'
  BY <1>1 DEF At, NoServe
<1>3. ASSUME Undisturbed' PROVE OneAtATime' /\ Turns' /\ LastTold'
  <2>1. Undisturbed /\ \A t \in Threads : ~At(t, "idle") => ~Switching(serve[t].req)
    BY <1>1, <1>3 DEF Undisturbed
  <2>2. \A t \in Threads : ~Turning(t)
    BY <2>1 DEF AuditInv, Turns, Turning, At
  <2>3. LastTold
    BY <2>1, <2>2 DEF AuditInv
  <2>4. OneAtATime' /\ Turns'
    BY <1>2 DEF OneAtATime, Turns, At
  <2>5. LastTold'
    BY <1>1, <2>3 DEF LastTold
  <2>6. QED
    BY <2>4, <2>5
<1>4. QED
  BY <1>1, <1>3 DEF AuditInv

LEMMA AuditStep ==
  ASSUME ServeShape, TierInv, ControlTypeOK, AuditInv, [Next]_vars
  PROVE  AuditInv'
<1>1. ASSUME NEW t \in Threads, ThreadStep(t), ~OpenSwitch(t), ~WriteSwitch(t), ~Log(t)
      PROVE  AuditInv'
  <2>1. ~At(t, "idle") /\ \A u \in Threads : u # t => serve'[u] = serve[u]
    BY <1>1, ThreadShape
       DEF ThreadStep, Verify, ConsumeNonce, Answer, CheckTier, Trade, Alert, At
  <2>2. ~Turning(t) /\ UNCHANGED <<overlap, cut, log, controlVars>>
    BY <1>1 DEF ThreadStep, Verify, ConsumeNonce, Answer, CheckTier, Trade, Alert, At, Turning,
       bookVars
  <2>3. ~(Turning(t)')
    <3>1. CASE Reply(t)
      BY <3>1 DEF Reply, NoServe, Turning, At, ServeShape
    <3>2. CASE Move(t, "nonce") \/ Move(t, "act") \/ Move(t, "trade")
      BY <3>2 DEF Move, Turning, At, ServeShape
    <3>3. CASE serve' = serve
      BY <2>2, <3>3 DEF Turning, At
    <3>4. CASE Move(t, "log") /\ At(t, "trade")
      <4>1. serve'[t].req = serve[t].req /\ serve'[t].pc = "log"
        BY <3>4 DEF Move, ServeShape
      <4>2. ~Switching(serve[t].req)
        BY <3>4 DEF TierInv, Kind, Switching, UiKinds
      <4>3. QED
        BY <4>1, <4>2 DEF Turning, At
    <3>5. QED
      BY <1>1, <3>1, <3>2, <3>3, <3>4
         DEF ThreadStep, Verify, ConsumeNonce, Answer, CheckTier, Trade, Alert, ReplyAuthorised
  <2>4. QED
    BY <2>1, <2>2, <2>3, AsideStep
<1>2. ASSUME NEW t \in Threads, ThreadStep(t) PROVE AuditInv'
  BY <1>1, <1>2, OpenAudit, WriteAudit, LogAudit
<1>3. CASE Tick \/ UNCHANGED vars
  <2>1. UNCHANGED <<serve, overlap, cut, log, content, writing>>
    BY <1>3 DEF Tick, vars, bookVars, controlVars
  <2>2. QED
    BY <2>1 DEF AuditInv, Undisturbed, OneAtATime, Turns, Turning, LastTold, At
<1>4. QED
  BY <1>2, <1>3, DeliverAudit, RestartAudit DEF Next

(* Whenever nothing is being served, the last halt or resume in the audit   *)
(* log is what the pause switch says, however many of them there were, and *)
(* whatever else was served or died between.                               *)
THEOREM AuditLogTrusted == Spec => []AuditTellsSwitch
<1> DEFINE Inv == ServeShape /\ TierInv /\ ControlInv /\ AuditInv
<1>1. Init => Inv
  <2> SUFFICES ASSUME Init PROVE Inv
    OBVIOUS
  <2>1. TierInv
    BY DEF Init, TierInv, NoServe, At
  <2>2. overlap \in BOOLEAN
    BY Zenon DEF Init
  <2>3. \A t \in Threads : At(t, "idle")
    BY DEF Init, NoServe, At
  <2>4. OneAtATime /\ Turns
    BY <2>3 DEF OneAtATime, Turns, At
  <2>5. log \in Seq(Requests) /\ LastTold
    BY DEF Init, LastTold
  <2>6. QED
    BY <2>1, <2>2, <2>4, <2>5, ShapeInit, ControlInitInv DEF Init, AuditInv
<1>2. Inv /\ [Next]_vars => Inv'
  <2> SUFFICES ASSUME Inv, [Next]_vars PROVE Inv'
    OBVIOUS
  <2>1. ServeShape' /\ TierInv'
    BY ShapeStep, TierStep
  <2>2. ControlInv'
    BY ConsoleControl, ControlStep
  <2>3. ControlTypeOK
    BY DEF ControlInv
  <2>4. AuditInv'
    BY <2>3, AuditStep
  <2>5. QED
    BY <2>1, <2>2, <2>4
<1>3. AuditInv => AuditTellsSwitch
  <2> SUFFICES ASSUME AuditInv, Undisturbed, \A t \in Threads : At(t, "idle"),
                      NEW i \in DOMAIN log, Switching(log[i]),
                      \A j \in (i + 1)..Len(log) : ~Switching(log[j])
               PROVE  ReadControlState = Wanted(log[i])
    BY DEF AuditTellsSwitch, Wanted
  <2>1. LastTold
    BY DEF AuditInv, Turning, At
  <2>2. DOMAIN log = 1..Len(log)
    BY DEF AuditInv
  <2>3. content = Wanted(log[i])
    BY <2>1, <2>2 DEF LastTold
  <2>4. QED
    BY <2>3 DEF ReadControlState, Wanted
<1>4. QED
  BY <1>1, <1>2, <1>3, PTL DEF Spec
===============================================================================
