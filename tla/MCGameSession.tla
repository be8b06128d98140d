--------------------------- MODULE MCGameSession ----------------------------
(* GameSession instantiated for TLC. *)
EXTENDS GameSession
=============================================================================
