----------------------------- MODULE MCGateway -----------------------------
(* Gateway instantiated for TLC. *)
EXTENDS Gateway
=============================================================================
