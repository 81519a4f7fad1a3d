----------------------------- MODULE AtMostOnce -----------------------------
(***************************************************************************)
(* What an idempotency file promises its callers: over the whole life of   *)
(* the deployment, restarts included, a key is granted at most once, unless*)
(* two requests for it were pending at once; and only a key that has been  *)
(* granted already (or that is no key at all) is refused.                  *)
(***************************************************************************)
CONSTANTS Callers, Keys, NoKey

VARIABLES
  granted,    \* keys granted so far
  contended,  \* keys that were asked for while a request for them was pending
  request     \* Callers -> [key, verdict]

onceVars == <<granted, contended, request>>

NoRequest == [key |-> NoKey, verdict |-> "none"]

Init ==
  /\ granted = {} /\ contended = {}
  /\ request = [c \in Callers |-> NoRequest]

Pending(k) == k # NoKey /\ [key |-> k, verdict |-> "pending"] \in {request[c] : c \in Callers}

Ask(c, k) ==
  /\ request[c].verdict = "none"
  /\ contended' = IF Pending(k) THEN contended \cup {k} ELSE contended
  /\ request' = [request EXCEPT ![c] = [key |-> k, verdict |-> "pending"]]
  /\ UNCHANGED granted

Grant(c) ==
  /\ request[c].verdict = "pending"
  /\ request[c].key # NoKey
  /\ request[c].key \in granted => request[c].key \in contended
  /\ granted' = granted \cup {request[c].key}
  /\ UNCHANGED contended
  /\ request' = [request EXCEPT ![c].verdict = "granted"]

Refuse(c) ==
  /\ request[c].verdict = "pending"
  /\ request[c].key \in granted \cup {NoKey}
  /\ request' = [request EXCEPT ![c].verdict = "refused"]
  /\ UNCHANGED <<granted, contended>>

Leave(c) ==
  /\ request[c].verdict \in {"granted", "refused"}
  /\ request' = [request EXCEPT ![c] = NoRequest]
  /\ UNCHANGED <<granted, contended>>

Restart ==
  /\ request' = [c \in Callers |-> NoRequest]
  /\ UNCHANGED <<granted, contended>>

Next ==
  \/ \E c \in Callers, k \in Keys \cup {NoKey} : Ask(c, k)
  \/ \E c \in Callers : Grant(c) \/ Refuse(c) \/ Leave(c)
  \/ Restart

Spec == Init /\ [][Next]_onceVars
=============================================================================
