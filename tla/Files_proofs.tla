----------------------------- MODULE Files_proofs -----------------------------
(***************************************************************************)
(* The two files the threads of the server share, the idempotency file and *)
(* the pause switch, for any callers, keys and writers.                    *)
(***************************************************************************)
EXTENDS SeenFile, ControlFile, TLAPS

-----------------------------------------------------------------------------
(* The idempotency file.                                                   *)

\* c has asked about k and has no answer yet.
Asks(c, k) == call[c].key = k /\ call[c].pc \in {"read", "append"}

\* A blank key never gets past the read.
KeyedInv == \A c \in Callers : call[c].pc \in {"append", "passed"} => call[c].key \in Keys

\* About a key that was never shared: one call at a time, a call about to
\* append is the first to do so, and the key passed at most once.
AloneInv ==
  \A k \in Exact \ shared :
    /\ \A c, d \in Callers : Asks(c, k) /\ Asks(d, k) => c = d
    /\ \A c \in Callers : call[c].key = k /\ call[c].pc = "append" => grants[k] = 0
    /\ grants[k] <= 1

\* If keys read back as themselves the file holds nothing but passed keys.
OnlyPassedInv == Exact = Keys => \A k \in seen : grants[k] > 0

SeenInv == SeenTypeOK /\ PassedKeysBurned /\ KeyedInv /\ AloneInv /\ OnlyPassedInv

LEMMA SeenInitInv == SeenInit => SeenInv
<1> SUFFICES ASSUME SeenInit PROVE SeenInv
  OBVIOUS
<1>1. SeenTypeOK
  BY DEF SeenInit, SeenTypeOK, NoCall
<1>2. AloneInv
  BY DEF SeenInit, AloneInv, Asks, NoCall, Exact
<1>3. QED
  BY <1>1, <1>2 DEF SeenInit, SeenInv, PassedKeysBurned, KeyedInv, OnlyPassedInv, Exact, NoCall

LEMMA BeginKeepsInv ==
  ASSUME SeenInv, NEW c \in Callers, NEW k \in Keys \cup {NoKey}, BeginCheck(c, k)
  PROVE  SeenInv'
<1>0. /\ SeenTypeOK /\ call[c].pc = "idle" /\ seen' = seen /\ grants' = grants
      /\ call' = [call EXCEPT ![c] = [pc |-> "read", key |-> k]]
      /\ shared \subseteq shared'
  BY DEF SeenInv, BeginCheck
<1>1. SeenTypeOK'
  BY DEF SeenInv, SeenTypeOK, BeginCheck, Asking
<1>2. PassedKeysBurned' /\ OnlyPassedInv'
  BY <1>0 DEF SeenInv, PassedKeysBurned, OnlyPassedInv, Exact
<1>3. KeyedInv'
  BY <1>0 DEF SeenInv, SeenTypeOK, KeyedInv
<1>4. AloneInv'
  <2> SUFFICES ASSUME NEW j \in Exact \ shared'
               PROVE  /\ \A d, e \in Callers : Asks(d, j)' /\ Asks(e, j)' => d = e
                      /\ \A d \in Callers : call'[d].key = j /\ call'[d].pc = "append"
                            => grants'[j] = 0
                      /\ grants'[j] <= 1
    BY DEF AloneInv, Exact
  <2>1. j \in Exact \ shared /\ j \in Keys
    BY <1>0 DEF Exact
  <2>2. \A d \in Callers : Asks(d, j)' => Asks(d, j) \/ (d = c /\ k = j)
    BY <1>0 DEF Asks, SeenTypeOK
  <2>3. k = j => \A d \in Callers : ~Asks(d, j)
    BY <2>1 DEF BeginCheck, Asking, Asks
  <2>4. \A d, e \in Callers : Asks(d, j)' /\ Asks(e, j)' => d = e
    BY <2>1, <2>2, <2>3 DEF SeenInv, AloneInv
  <2>5. \A d \in Callers : call'[d].key = j /\ call'[d].pc = "append"
          => call[d].key = j /\ call[d].pc = "append"
    BY <1>0 DEF SeenTypeOK
  <2>6. QED
    BY <1>0, <2>1, <2>4, <2>5 DEF SeenInv, AloneInv
<1>5. QED
  BY <1>1, <1>2, <1>3, <1>4 DEF SeenInv

LEMMA ReadKeepsInv ==
  ASSUME SeenInv, NEW c \in Callers, ReadSeen(c)
  PROVE  SeenInv'
<1>0. /\ SeenTypeOK /\ call[c].pc = "read"
      /\ seen' = seen /\ grants' = grants /\ shared' = shared
      /\ call' = [call EXCEPT ![c].pc =
                    IF call[c].key \in seen \cup {NoKey} THEN "raised" ELSE "append"]
  BY DEF SeenInv, ReadSeen
<1>1. SeenTypeOK'
  BY DEF SeenInv, SeenTypeOK, ReadSeen
<1>2. PassedKeysBurned' /\ OnlyPassedInv'
  BY <1>0 DEF SeenInv, PassedKeysBurned, OnlyPassedInv, Exact
<1>3. KeyedInv'
  BY <1>0 DEF SeenInv, SeenTypeOK, KeyedInv
<1>4. AloneInv'
  <2> SUFFICES ASSUME NEW j \in Exact \ shared
               PROVE  /\ \A d, e \in Callers : Asks(d, j)' /\ Asks(e, j)' => d = e
                      /\ \A d \in Callers : call'[d].key = j /\ call'[d].pc = "append"
                            => grants[j] = 0
                      /\ grants[j] <= 1
    BY <1>0 DEF AloneInv, Exact
  <2>1. \A d \in Callers : Asks(d, j)' => Asks(d, j)
    BY <1>0 DEF Asks, SeenTypeOK
  <2>2. grants[j] <= 1 /\ grants[j] \in Nat /\ (grants[j] > 0 => j \in seen)
    BY DEF SeenInv, AloneInv, PassedKeysBurned, SeenTypeOK, Exact
  <2>3. ASSUME NEW d \in Callers, call'[d].key = j, call'[d].pc = "append"
        PROVE  grants[j] = 0
    <3>1. CASE d = c
      BY <1>0, <2>2, <2>3, <3>1 DEF SeenTypeOK
    <3>2. CASE d # c
      BY <1>0, <2>3, <3>2 DEF SeenInv, SeenTypeOK, AloneInv
    <3>3. QED
      BY <3>1, <3>2
  <2>4. QED
    BY <2>1, <2>2, <2>3 DEF SeenInv, AloneInv
<1>5. QED
  BY <1>1, <1>2, <1>3, <1>4 DEF SeenInv

LEMMA AppendKeepsInv ==
  ASSUME SeenInv, NEW c \in Callers, AppendSeen(c)
  PROVE  SeenInv'
<1> DEFINE k == call[c].key
<1>1. k \in Keys /\ Strip[k] \in Keys \cup {NoKey} /\ call[c].pc = "append"
  BY SeenAssumption DEF AppendSeen, SeenInv, KeyedInv
<1>2. /\ SeenTypeOK
      /\ grants' = [grants EXCEPT ![k] = @ + 1]
      /\ seen' = seen \cup ({Strip[k]} \ {NoKey})
      /\ call' = [call EXCEPT ![c].pc = "passed"]
      /\ shared' = shared
  BY DEF AppendSeen, SeenInv
<1>3. SeenTypeOK'
  BY <1>1, <1>2 DEF SeenTypeOK
<1>4. PassedKeysBurned'
  BY <1>1, <1>2, SeenAssumption DEF SeenInv, SeenTypeOK, PassedKeysBurned, Exact
<1>5. KeyedInv'
  BY <1>1, <1>2 DEF SeenInv, SeenTypeOK, KeyedInv
<1>6. OnlyPassedInv'
  <2> SUFFICES ASSUME Exact = Keys, NEW j \in seen' PROVE grants'[j] > 0
    BY DEF OnlyPassedInv, Exact
  <2>1. Strip[k] = k
    BY <1>1 DEF Exact
  <2>2. CASE j = k
    BY <1>1, <1>2, <2>2 DEF SeenTypeOK
  <2>3. CASE j # k
    BY <1>1, <1>2, <2>1, <2>3 DEF SeenInv, SeenTypeOK, OnlyPassedInv
  <2>4. QED
    BY <2>2, <2>3
<1>7. AloneInv'
  <2> SUFFICES ASSUME NEW j \in Exact \ shared
               PROVE  /\ \A d, e \in Callers : Asks(d, j)' /\ Asks(e, j)' => d = e
                      /\ \A d \in Callers : call'[d].key = j /\ call'[d].pc = "append"
                            => grants'[j] = 0
                      /\ grants'[j] <= 1
    BY <1>2 DEF AloneInv, Exact
  <2>1. \A d \in Callers : Asks(d, j)' => Asks(d, j) /\ d # c
    BY <1>2 DEF Asks, SeenTypeOK
  <2>2. \A d, e \in Callers : Asks(d, j)' /\ Asks(e, j)' => d = e
    BY <2>1 DEF SeenInv, AloneInv
  <2>3. CASE j = k
    <3>1. Asks(c, j) /\ grants[j] = 0
      BY <1>1, <2>3 DEF Asks, SeenInv, AloneInv
    <3>2. grants'[j] = 1
      BY <1>1, <1>2, <2>3, <3>1 DEF SeenTypeOK
    <3>3. \A d \in Callers : ~Asks(d, j)'
      BY <2>1, <3>1 DEF SeenInv, AloneInv
    <3>4. QED
      BY <3>2, <3>3, <2>2 DEF Asks
  <2>4. CASE j # k
    <3>1. grants'[j] = grants[j]
      BY <1>1, <1>2, <2>4 DEF SeenTypeOK, Exact
    <3>2. \A d \in Callers : call'[d].key = j /\ call'[d].pc = "append"
            => call[d].key = j /\ call[d].pc = "append"
      BY <1>2 DEF SeenTypeOK
    <3>3. QED
      BY <2>2, <3>1, <3>2 DEF SeenInv, AloneInv
  <2>5. QED
    BY <2>3, <2>4
<1>8. QED
  BY <1>3, <1>4, <1>5, <1>6, <1>7 DEF SeenInv

\* Calls that go away disturb nothing.
LEMMA LeaveKeepsInv ==
  ASSUME SeenInv, seen' = seen, grants' = grants, shared' = shared,
         call' \in [Callers -> [pc  : {"idle", "read", "append", "passed", "raised"},
                                key : Keys \cup {NoKey}]],
         \A c \in Callers : call'[c] \in {call[c], NoCall}
  PROVE  SeenInv'
<1>1. SeenTypeOK'
  BY DEF SeenInv, SeenTypeOK
<1>2. PassedKeysBurned' /\ OnlyPassedInv'
  BY DEF SeenInv, PassedKeysBurned, OnlyPassedInv, Exact
<1>3. KeyedInv'
  BY DEF SeenInv, KeyedInv, NoCall
<1>4. AloneInv'
  BY DEF SeenInv, AloneInv, Asks, NoCall, Exact
<1>5. QED
  BY <1>1, <1>2, <1>3, <1>4 DEF SeenInv

LEMMA EndKeepsInv ==
  ASSUME SeenInv, NEW c \in Callers, EndCheck(c)
  PROVE  SeenInv'
<1>1. \A d \in Callers : call'[d] \in {call[d], NoCall}
  BY DEF SeenInv, SeenTypeOK, EndCheck
<1>2. call' \in [Callers -> [pc  : {"idle", "read", "append", "passed", "raised"},
                             key : Keys \cup {NoKey}]]
  BY DEF SeenInv, SeenTypeOK, EndCheck, NoCall
<1>3. QED
  BY <1>1, <1>2, LeaveKeepsInv DEF EndCheck

LEMMA SeenCrashKeepsInv ==
  ASSUME SeenInv, SeenCrash
  PROVE  SeenInv'
<1>1. \A d \in Callers : call'[d] \in {call[d], NoCall}
  BY DEF SeenCrash
<1>2. call' \in [Callers -> [pc  : {"idle", "read", "append", "passed", "raised"},
                             key : Keys \cup {NoKey}]]
  BY DEF SeenCrash, NoCall
<1>3. QED
  BY <1>1, <1>2, LeaveKeepsInv DEF SeenCrash

LEMMA SeenStep ==
  ASSUME SeenInv, [SeenNext]_seenVars
  PROVE  SeenInv'
<1>1. CASE UNCHANGED seenVars
  BY <1>1 DEF seenVars, SeenInv, SeenTypeOK, PassedKeysBurned, KeyedInv, AloneInv, Asks,
              OnlyPassedInv, Exact
<1>2. QED
  BY <1>1, BeginKeepsInv, ReadKeepsInv, AppendKeepsInv, EndKeepsInv, SeenCrashKeepsInv
     DEF SeenNext

\* A key once shared stays so.
LEMMA SharedGrows ==
  ASSUME [SeenNext]_seenVars
  PROVE  shared \subseteq shared'
BY DEF SeenNext, seenVars, BeginCheck, ReadSeen, AppendSeen, EndCheck, SeenCrash

LEMMA SeenInvariant == SeenSpec => []SeenInv
  BY SeenInitInv, SeenStep, PTL DEF SeenSpec

(* The types of the idempotency file and its callers. *)
THEOREM SeenTypeCorrect == SeenSpec => []SeenTypeOK
<1>1. SeenInv => SeenTypeOK
  BY DEF SeenInv
<1>2. QED
  BY <1>1, SeenInvariant, PTL

(* For any number of threads, over crashes: a key that passed the check is  *)
(* in the file for good (signal_security.py:14-28, admin_api.py:69-82).     *)
THEOREM KeysStayBurned == SeenSpec => []PassedKeysBurned
<1>1. SeenInv => PassedKeysBurned
  BY DEF SeenInv
<1>2. QED
  BY <1>1, SeenInvariant, PTL

(* For any number of threads and any keys, over crashes: a signal id, or a  *)
(* nonce, that reads back as itself is accepted at most once, unless two    *)
(* calls about it overlapped.                                               *)
THEOREM GrantsOnce == SeenSpec => []OneGrantPerKey
<1>1. SeenInv => OneGrantPerKey
  BY DEF SeenInv, AloneInv, OneGrantPerKey
<1>2. QED
  BY <1>1, SeenInvariant, PTL

-----------------------------------------------------------------------------
(* Keys that read back as themselves. *)

LEMMA SeenSimulates ==
  ASSUME Exact = Keys, SeenInv, [SeenNext]_seenVars
  PROVE  [Once!Next]_(Once!onceVars)
<1> USE DEF SeenInv
<1>1. ASSUME NEW c \in Callers, NEW k \in Keys \cup {NoKey}, BeginCheck(c, k)
      PROVE  Once!Ask(c, k)
  BY <1>1, SeenAssumption DEF BeginCheck, SeenTypeOK, Once!Ask, Once!Pending, Asking
<1>2. ASSUME NEW c \in Callers, ReadSeen(c)
      PROVE  Once!Refuse(c) \/ UNCHANGED Once!onceVars
  BY <1>2, ZenonT(30) DEF ReadSeen, SeenTypeOK, Once!Refuse, Once!onceVars
<1>3. ASSUME NEW c \in Callers, AppendSeen(c)
      PROVE  Once!Grant(c)
  <2>1. call[c].key \in Keys /\ Strip[call[c].key] = call[c].key /\ call[c].pc = "append"
    BY <1>3 DEF AppendSeen, KeyedInv, Exact
  <2>2. seen' = seen \cup {call[c].key} /\ call[c].key # NoKey
    BY <1>3, <2>1, SeenAssumption DEF AppendSeen
  <2>3. call[c].key \in seen => call[c].key \in shared
    BY <2>1 DEF OnlyPassedInv, AloneInv
  <2>4. QED
    BY <1>3, <2>1, <2>2, <2>3 DEF AppendSeen, SeenTypeOK, Once!Grant
<1>4. ASSUME NEW c \in Callers, EndCheck(c)
      PROVE  Once!Leave(c)
  BY <1>4 DEF EndCheck, SeenTypeOK, NoCall, Once!Leave, Once!NoRequest
<1>5. ASSUME SeenCrash PROVE Once!Restart
  BY <1>5 DEF SeenCrash, NoCall, Once!Restart, Once!NoRequest
<1>6. CASE UNCHANGED seenVars
  BY <1>6 DEF seenVars, Once!onceVars
<1>7. QED
  BY <1>1, <1>2, <1>3, <1>4, <1>5, <1>6 DEF SeenNext, Once!Next

(* The file implements the abstract AtMostOnce for any number of threads:  *)
(* every step is one of its steps or changes nothing it sees, as long as   *)
(* keys read back as themselves.                                           *)
THEOREM FileKeepsPromise ==
  ASSUME Exact = Keys
  PROVE  SeenSpec => KeepsPromise
<1>1. SeenInit => Once!Init
  BY DEF SeenInit, NoCall, Once!Init, Once!NoRequest
<1>2. SeenInv /\ [SeenNext]_seenVars => [Once!Next]_(Once!onceVars)
  BY SeenSimulates
<1>3. QED
  BY <1>1, <1>2, SeenInvariant, PTL DEF SeenSpec, KeepsPromise, Once!Spec

-----------------------------------------------------------------------------
(* The pause switch.                                                       *)

(* What each content of the file says about the writes since it was last   *)
(* at rest: a text that is there was written in this round, corruption     *)
(* needs a halt, and an empty file has a writer that is not done or a      *)
(* write that died.                                                        *)
ControlInv ==
  /\ ControlTypeOK
  /\ \A w \in Writers : writing[w] # "none" => writing[w] \in round
  /\ content = "clear" => "clear" \in round
  /\ content \in {"halted", "corrupt"} => "halted" \in round
  /\ content \in {"absent", "empty"} => round = {} \/ "crash" \in round \/ ~Idle

LEMMA ControlInitInv == ControlInit => ControlInv
BY DEF ControlInit, ControlInv, ControlTypeOK, Contents, Commands, Idle

LEMMA OpenKeepsInv ==
  ASSUME ControlInv, NEW w \in Writers, NEW t \in Commands, OpenForWrite(w, t)
  PROVE  ControlInv'
<1>1. ControlTypeOK'
  BY DEF ControlInv, ControlTypeOK, OpenForWrite, Contents, Commands
<1>2. writing'[w] = t /\ t # "none"
  BY DEF ControlInv, ControlTypeOK, OpenForWrite, Commands
<1>3. ~Idle'
  BY <1>2 DEF Idle
<1>4. \A v \in Writers : writing'[v] # "none" => writing'[v] \in round'
  <2> SUFFICES ASSUME NEW v \in Writers, writing'[v] # "none"
               PROVE  writing'[v] \in round'
    OBVIOUS
  <2>1. CASE v = w
    BY <2>1, <1>2 DEF OpenForWrite
  <2>2. CASE v # w
    BY <2>2 DEF ControlInv, ControlTypeOK, OpenForWrite, Idle
  <2>3. QED
    BY <2>1, <2>2
<1>5. content' = "empty"
  BY DEF OpenForWrite
<1>6. QED
  BY <1>1, <1>3, <1>4, <1>5 DEF ControlInv

LEMMA CloseKeepsInv ==
  ASSUME ControlInv, NEW w \in Writers, CloseWrite(w)
  PROVE  ControlInv'
<1>1. writing[w] \in Commands /\ writing[w] \in round
  BY DEF ControlInv, ControlTypeOK, CloseWrite
<1>2. /\ content' \in {"clear", "halted", "corrupt"}
      /\ content' = "clear" => writing[w] = "clear"
      /\ content' \in {"halted", "corrupt"} =>
           writing[w] = "halted" \/ content \in {"halted", "corrupt"}
  BY <1>1 DEF CloseWrite, Overwritten, Commands, ControlInv, ControlTypeOK, Contents
<1>3. ControlTypeOK'
  BY <1>2 DEF ControlInv, ControlTypeOK, CloseWrite, Contents, Commands
<1>4. \A v \in Writers : writing'[v] # "none" => writing'[v] \in round'
  BY DEF ControlInv, ControlTypeOK, CloseWrite
<1>5. QED
  BY <1>1, <1>2, <1>3, <1>4 DEF ControlInv, CloseWrite

LEMMA CrashKeepsInv ==
  ASSUME ControlInv, ControlCrash
  PROVE  ControlInv'
<1>1. ControlTypeOK'
  BY DEF ControlInv, ControlTypeOK, ControlCrash
<1>2. \A v \in Writers : writing'[v] = "none"
  BY DEF ControlCrash
<1>3. round \subseteq round' /\ (~Idle => "crash" \in round')
  BY DEF ControlCrash
<1>4. round = {} /\ Idle => round' = {}
  BY DEF ControlCrash
<1>5. QED
  BY <1>1, <1>2, <1>3, <1>4 DEF ControlInv, ControlCrash

LEMMA ControlStep == ControlInv /\ [ControlNext]_controlVars => ControlInv'
<1> SUFFICES ASSUME ControlInv, [ControlNext]_controlVars PROVE ControlInv'
  OBVIOUS
<1>1. ASSUME NEW w \in Writers, NEW t \in Commands, OpenForWrite(w, t) PROVE ControlInv'
  BY <1>1, OpenKeepsInv
<1>2. ASSUME NEW w \in Writers, CloseWrite(w) PROVE ControlInv'
  BY <1>2, CloseKeepsInv
<1>3. CASE ControlCrash
  BY <1>3, CrashKeepsInv
<1>4. CASE UNCHANGED controlVars
  BY <1>4 DEF controlVars, ControlInv, ControlTypeOK, Idle
<1>5. QED
  BY <1>1, <1>2, <1>3, <1>4 DEF ControlNext

(* The invariant says what a reader may be told once the file is at rest.  *)
LEMMA InvSettles == ControlInv => SettledFileAgrees /\ CorruptionNeedsAHalt
BY DEF ControlInv, ControlTypeOK, Contents, SettledFileAgrees, CorruptionNeedsAHalt,
       StandingHalt

(* For any number of writers: type correctness and the inductive invariant.*)
THEOREM ControlTypeCorrect == ControlSpec => []ControlTypeOK
<1>1. ControlInv => ControlTypeOK
  BY DEF ControlInv
<1>2. QED
  BY <1>1, ControlInitInv, ControlStep, PTL DEF ControlSpec

(* After any interleaving of halts the file never reads as "not halted".   *)
THEOREM SettledHalt == ControlSpec => []SettledFileAgrees
BY InvSettles, ControlInitInv, ControlStep, PTL DEF ControlSpec

(* Only rounds with a halt in them can leave text that is not JSON.        *)
THEOREM CorruptionOrigin == ControlSpec => []CorruptionNeedsAHalt
BY InvSettles, ControlInitInv, ControlStep, PTL DEF ControlSpec
===============================================================================
