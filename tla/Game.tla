-------------------------------- MODULE Game --------------------------------
(***************************************************************************)
(* The connections of a logger's client to its game server, as its event   *)
(* handlers see them (azalea-bot/src/main.rs, handle): every login opens   *)
(* one, it spawns once or more, and a disconnect ends it.  Handlers and    *)
(* the tasks they spawn outlive the connection they were started on.       *)
(*                                                                         *)
(* mode is how the logger is configured, or the part of it that a          *)
(* behaviour looks at.                                                     *)
(***************************************************************************)
EXTENDS Integers, Sequences, FiniteSets

CONSTANTS Modes,
          MaxConns, MaxSpawns   \* bounds: logins, spawns of a connection

ASSUME GameAssumption == MaxConns \in Nat /\ MaxSpawns \in Nat

VARIABLES mode,
          phase,   \* "out", "login" (logged in), "game" (spawned)
          conn,    \* the number of logins; the present connection's number
          spawns,  \* Spawn events of this connection, up to MaxSpawns
          closing  \* bot.disconnect was called and has not taken effect

gameVars == <<mode, phase, conn, spawns, closing>>

GameInit ==
  /\ mode \in Modes
  /\ phase = "out" /\ conn = 0 /\ spawns = 0 /\ closing = FALSE

\* Event::Login: a first or a further connection.
Login ==
  /\ phase = "out" /\ conn < MaxConns
  /\ phase' = "login" /\ conn' = conn + 1 /\ spawns' = 0 /\ closing' = FALSE
  /\ UNCHANGED mode

\* Event::Spawn, which a change of dimension or of server repeats.
Spawn ==
  /\ phase \in {"login", "game"} /\ spawns < MaxSpawns
  /\ phase' = "game" /\ spawns' = spawns + 1
  /\ UNCHANGED <<mode, conn, closing>>

\* Event::Disconnect, asked for or not.
Disconnect ==
  /\ phase # "out"
  /\ phase' = "out" /\ closing' = FALSE
  /\ UNCHANGED <<mode, conn, spawns>>
=============================================================================
