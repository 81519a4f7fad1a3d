------------------------------ MODULE SeenFile ------------------------------
(***************************************************************************)
(* The append-only file of keys already used.  Two instances of the same   *)
(* code: signal_security.ensure_signal_not_duplicate (client_signal_id,    *)
(* SIGNAL_IDEMPOTENCY_PATH) and admin_api._consume_nonce (nonce,           *)
(* ADMIN_NONCE_PATH).  Both read the whole file, raise when the key is     *)
(* there, and otherwise append it, with nothing held between the two:      *)
(* callers are threads of the same process.                                *)
(***************************************************************************)
EXTENDS Integers, FiniteSets

CONSTANTS
  Callers,
  Keys,
  NoKey,   \* the empty string
  Strip,   \* Keys -> what line.strip() makes of the key's line when read back
  MaxPass  \* bound: a key that passed this often is not sent again

Exact == {k \in Keys : Strip[k] = k}     \* keys that read back as themselves

ASSUME SeenAssumption ==
  /\ NoKey \notin Keys
  /\ Strip \in [Keys -> Keys \cup {NoKey}]
  /\ \A k \in Keys : Strip[k] # NoKey => Strip[k] \in Exact
  /\ MaxPass \in Nat

VARIABLES
  seen,    \* the stripped, non-empty lines of the file
  call,    \* Callers -> [pc, key]
  grants,  \* bookkeeping: Keys -> how often the key passed
  shared   \* bookkeeping: keys that two callers were asking about at once

seenVars == <<seen, call, grants, shared>>

NoCall == [pc |-> "idle", key |-> NoKey]

SeenTypeOK ==
  /\ seen \subseteq Keys
  /\ call \in [Callers -> [pc  : {"idle", "read", "append", "passed", "raised"},
                           key : Keys \cup {NoKey}]]
  /\ grants \in [Keys -> Nat]
  /\ shared \subseteq Keys

SeenInit ==
  /\ seen = {}
  /\ call = [c \in Callers |-> NoCall]
  /\ grants = [k \in Keys |-> 0]
  /\ shared = {}

\* Some call about key k has not answered yet.
Asking(k) ==
  k \in Keys /\ \E c \in Callers : call[c].key = k /\ call[c].pc \in {"read", "append"}

\* The function is entered.
BeginCheck(c, k) ==
  /\ call[c].pc = "idle"
  /\ k \in Keys => grants[k] < MaxPass
  /\ call' = [call EXCEPT ![c] = [pc |-> "read", key |-> k]]
  /\ shared' = IF Asking(k) THEN shared \cup {k} ELSE shared
  /\ UNCHANGED <<seen, grants>>

ReadSeenMut(c) ==
  /\ call[c].pc = "read"
  /\ call' = [call EXCEPT ![c].pc = IF call[c].key = NoKey THEN "raised" ELSE "append"]
  /\ UNCHANGED <<seen, grants, shared>>

\* A missing key is refused before the file is opened; otherwise the whole
\* file is read into a set: "duplicate signal", "nonce already used".
ReadSeen(c) ==
  /\ call[c].pc = "read"
  /\ call' = [call EXCEPT ![c].pc =
                IF call[c].key \in seen \cup {NoKey} THEN "raised" ELSE "append"]
  /\ UNCHANGED <<seen, grants, shared>>

AppendSeenMut(c) ==
  /\ call[c].pc = "append"
  /\ seen' = {Strip[call[c].key]} \ {NoKey}
  /\ call' = [call EXCEPT ![c].pc = "passed"]
  /\ grants' = [grants EXCEPT ![call[c].key] = @ + 1]
  /\ UNCHANGED shared

\* open(path, "a") and one short write, flushed when the handle is closed.
AppendSeen(c) ==
  /\ call[c].pc = "append"
  /\ seen' = seen \cup ({Strip[call[c].key]} \ {NoKey})
  /\ call' = [call EXCEPT ![c].pc = "passed"]
  /\ grants' = [grants EXCEPT ![call[c].key] = @ + 1]
  /\ UNCHANGED shared

\* The request that made the check is over.
EndCheck(c) ==
  /\ call[c].pc \in {"passed", "raised"}
  /\ call' = [call EXCEPT ![c] = NoCall]
  /\ UNCHANGED <<seen, grants, shared>>

SeenCrash ==
  /\ call' = [c \in Callers |-> NoCall]
  /\ UNCHANGED <<seen, grants, shared>>

SeenNext ==
  \/ \E c \in Callers, k \in Keys \cup {NoKey} : BeginCheck(c, k)
  \/ \E c \in Callers : ReadSeen(c) \/ AppendSeen(c) \/ EndCheck(c)
  \/ SeenCrash

SeenSpec == SeenInit /\ [][SeenNext]_seenVars

-----------------------------------------------------------------------------
(* Properties. *)

(* A key that passed is on disk: whatever happens later, a crash included, *)
(* it stays burned.  (The converse is a hazard: a request that dies right  *)
(* after the append cannot be sent again.)                                 *)
PassedKeysBurned ==
  \A k \in Exact : grants[k] > 0 => k \in seen

(* Ids are recorded so that one signal is never replayed into two positions*)
(* (.env.example:86), a nonce is good for one use (README.md:368): over the*)
(* whole life of the deployment, restarts included, a key passes at most   *)
(* once, unless two calls about it overlapped.                             *)
OneGrantPerKey == \A k \in Exact \ shared : grants[k] <= 1

\* The promise, read off this state: append and grant are one step.
Once == INSTANCE AtMostOnce WITH
  granted   <- seen,
  contended <- shared,
  request   <- [c \in Callers |->
    [key     |-> call[c].key,
     verdict |-> CASE call[c].pc = "idle"               -> "none"
                   [] call[c].pc \in {"read", "append"} -> "pending"
                   [] call[c].pc = "passed"             -> "granted"
                   [] call[c].pc = "raised"             -> "refused"]]

(* With keys that read back as themselves the file keeps its promise, to   *)
(* any number of callers.                                                  *)
KeepsPromise == Once!Spec
=============================================================================
