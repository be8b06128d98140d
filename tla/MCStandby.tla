----------------------------- MODULE MCStandby -----------------------------
(* Standby instantiated for TLC. *)
EXTENDS Standby, TLC
=============================================================================
