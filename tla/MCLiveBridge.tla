---------------------------- MODULE MCLiveBridge ----------------------------
(* LiveBridge instantiated for TLC. *)
EXTENDS LiveBridge
=============================================================================
