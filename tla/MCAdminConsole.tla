--------------------------- MODULE MCAdminConsole ---------------------------
(***************************************************************************)
(* Instances of AdminConsole for TLC: time 0..2, requests signed at 1 and *)
(* good at 1 only, one of them not signed by the operator.                 *)
(***************************************************************************)
EXTENDS AdminConsole, TLC

CONSTANTS t1, t2, n1, n2, n3, none

Request(kind, nonce) ==
  [kind |-> kind, nonce |-> nonce, ts |-> 1, signed |-> TRUE,
   declared |-> 0, confirmed |-> FALSE, pin |-> FALSE]

Halt   == Request("halt", n1)
Resume == Request("resume", n2)
Poll   == Request("strategy_poll", n2)
UiHalt   == Request("ui_halt", n3)
UiResume == Request("ui_resume", n3)
Forged == [Request("resume", n3) EXCEPT !.signed = FALSE]
LargeDeclared == [Request("manual_trade", n2) EXCEPT !.declared = 9, !.confirmed = TRUE]
FullyConfirmed == [LargeDeclared EXCEPT !.nonce = n3, !.pin = TRUE]

MiddleDeclared == [Request("manual_trade", n2) EXCEPT !.declared = 4]

AllRequests == {Halt, Resume, Poll, UiHalt, UiResume, Forged,
                MiddleDeclared, LargeDeclared, FullyConfirmed}
HaltRequests == {Halt, UiHalt}
ActingRequests == {Halt, Poll, FullyConfirmed}
Identity == [k \in Keys |-> k]
ThreadsAlike == Permutations(Threads)
=============================================================================
