---------------------------- MODULE MCWsRuntime ----------------------------
(* Instances of WsRuntime for TLC. *)
EXTENDS WsRuntime, TLC

CONSTANTS o1
=============================================================================
