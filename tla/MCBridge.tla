------------------------------- MODULE MCBridge -------------------------------
(***************************************************************************)
(* Instance of Bridge and of PubSubLink below it for TLC: both hosts, one  *)
(* connection to the injection port, two signals.                          *)
(***************************************************************************)
EXTENDS Bridge
=============================================================================
