----------------------------- MODULE MCSayRelay -----------------------------
(* SayRelay instantiated for TLC. *)
EXTENDS SayRelay
=============================================================================
