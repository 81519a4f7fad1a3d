------------------------------ MODULE MCFeeds ------------------------------
(***************************************************************************)
(* The two websockets, one run: the private runtime (WsRuntime) and the    *)
(* public candle stream (CandleStream) share nothing, so a behaviour plays *)
(* one of them and keeps the other at a place where it only waits.         *)
(***************************************************************************)
EXTENDS WsRuntime, CandleStream, TLC

CONSTANTS o1, o2, o3, A, B

\* Which of the two runs.
VARIABLE part

\* The runtime, subscribed and waiting for a message.
RuntimeWaits ==
  /\ pc = "listen"
  /\ repairing = FALSE /\ attached = TRUE /\ connected = TRUE
  /\ link = "up" /\ session = <<"login", "subscribe">>
  /\ open = {} /\ batch = <<>>
  /\ faults = [refusals |-> 0, drops |-> 0]

\* The stream, subscribed and waiting for a push.
StreamWaits ==
  /\ stage = "listen" /\ online = TRUE /\ sent = TRUE
  /\ channel = "up" /\ subscribed = TRUE /\ wire = <<>>
  /\ closed = [s \in Symbols |-> 0]
  /\ lastConfirmed = [s \in Symbols |-> 0]
  /\ fired = [s \in Symbols |-> <<>>]
  /\ mishaps = [drops |-> 0, refusals |-> 0]

FeedsInit ==
  \/ part = "runtime" /\ Init /\ StreamWaits
  \/ part = "stream" /\ StreamInit /\ RuntimeWaits

RuntimeRuns == part = "runtime" /\ Next /\ UNCHANGED <<part, streamVars>>

StreamRuns == part = "stream" /\ StreamNext /\ UNCHANGED <<part, vars>>

FeedsNext == RuntimeRuns \/ StreamRuns

\* Each part under the fairness of its own task; the other one has no step of
\* its own to take.
FeedsSpec ==
  /\ FeedsInit /\ [][FeedsNext]_<<part, vars, streamVars>>
  /\ WF_<<part, vars, streamVars>>(RuntimeRuns /\ LoopStep)
  /\ WF_<<part, vars, streamVars>>(StreamRuns /\ StreamStep)
=============================================================================
