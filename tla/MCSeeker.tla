------------------------------ MODULE MCSeeker ------------------------------
(* Seeker instantiated for TLC. *)
EXTENDS Seeker
=============================================================================
