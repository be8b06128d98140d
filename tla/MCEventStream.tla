--------------------------- MODULE MCEventStream ---------------------------
(* EventStream instantiated for TLC. *)
EXTENDS EventStream, TLC

Symmetry == Permutations(Consumers)
=============================================================================
