----------------------------- MODULE LobbyWalk ------------------------------
(***************************************************************************)
(* What a logger does about a lobby, and what it does once per connection  *)
(* or disconnect (azalea-bot/src/main.rs): the walk into the portal of a   *)
(* logger that has to leave the lobby ("portal": start_portal_walk,        *)
(* walk_into_portal), the guard of one that has to stay in it ("stay":     *)
(* start_lobby_stay_guard, enforce_lobby_stay), its startup commands       *)
(* ("commands": run_startup_commands) and its exit when it stays offline   *)
(* ("offline": Event::Disconnect).                                         *)
(*                                                                         *)
(* A walk looks at the bot of its connection, which azalea reconnects in   *)
(* place: it may go on with the next connection's position.  What it and   *)
(* the guard know of the bot's place is its height, the portals in sight   *)
(* and the distance to a portal that was seen; where the bot really is,    *)
(* only the model knows.                                                   *)
(***************************************************************************)
EXTENDS Game

CONSTANTS MaxTries,   \* approaches of a walk; 12 in the code
          Commands,   \* number of STARTUP_COMMANDS
          Wait,       \* RECONNECT_EXIT_SECS, in ticks
          MaxMoves   \* bound: moves by the server

ASSUME LobbyAssumption ==
  MaxTries \in Nat /\ Commands \in Nat /\ Wait \in Nat \ {0} /\ MaxMoves \in Nat

VARIABLES
  where,     \* the bot: lobby "near" or "far" from the portal (farther than
             \* LEFT_LOBBY_BLOCKS), or "main"
  view,      \* what it sees: a portal, or none and it is as high as "ground"
             \* (50 to 130), as a "ledge" (130 to 135) or neither ("none")
  walks,     \* walk tasks: [of, at, tries, portal]; portal: in which world
  walking,   \* portal_walking
  inMain,    \* in_main_world
  mark,      \* history: how a walk set in_main_world, where the bot was, in
             \* which world the portal, and if the server has moved it since
  guards,    \* lobby-stay guards: the connections that started one
  leaving,   \* lobby_escape_leaving
  sending,   \* startup command tasks: [of, next]
  sent,      \* startup_commands_sent
  said,      \* history: [in, by, command]
  ending,    \* handlers of Event::Disconnect that await end_session
  timers,    \* ages of the tasks they spawn then
  offline,   \* ticks since the session of the disconnect was ended
  exited,
  moves

walkVars == <<where, view, walks, walking, inMain, mark>>
stayVars == <<guards, leaving>>
sayVars == <<sending, sent, said>>
exitVars == <<ending, timers, offline, exited>>
lobbyVars == <<walkVars, stayVars, sayVars, exitVars, moves>>

Lobby == {"near", "far"}
Spots == Lobby \cup {"main"}
Views == {"portal", "ground", "ledge", "none"}

World(spot) == IF spot \in Lobby THEN "lobby" ELSE "main"
NoMark == [how |-> "none", saw |-> "main", portal |-> "none", moved |-> FALSE]

LobbyInit ==
  /\ where = "main" /\ view = "none"
  /\ walks = {} /\ walking = FALSE /\ inMain = FALSE /\ mark = NoMark
  /\ guards = {} /\ leaving = FALSE
  /\ sending = {} /\ sent = FALSE /\ said = <<>>
  /\ ending = 0 /\ timers = {} /\ offline = 0 /\ exited = FALSE
  /\ moves = 0

-----------------------------------------------------------------------------
(* Events.                                                                 *)

\* The modes in which it matters where the bot is.
Located == mode \in {"portal", "stay"}

LobbyLogin ==
  /\ ~exited
  /\ sent' = FALSE
  /\ offline' = 0
  /\ IF Located THEN where' \in Spots /\ view' \in Views ELSE UNCHANGED <<where, view>>
  /\ UNCHANGED <<walks, walking, inMain, mark, stayVars, sending, said, ending, timers, exited, moves>>

\* start_portal_walk.
StartWalk ==
  IF mode # "portal" \/ walking
  THEN UNCHANGED <<walks, walking>>
  ELSE /\ walks' = walks \cup {[of |-> conn, at |-> "begin", tries |-> 0, portal |-> "none"]}
       /\ walking' = TRUE

\* Mutants: the guard's flag survives a spawn; a spawn repeats the commands.
StartGuardOnce ==
  IF mode # "stay" THEN UNCHANGED stayVars
  ELSE /\ guards' = guards \cup {conn}
       /\ UNCHANGED leaving
StartCommandsAgain ==
  IF mode # "commands" THEN UNCHANGED sayVars
  ELSE /\ sending' = sending \cup {[of |-> conn, next |-> 1]}
       /\ sent' = TRUE
       /\ UNCHANGED said

\* start_lobby_stay_guard.
StartGuard ==
  IF mode # "stay"
  THEN UNCHANGED stayVars
  ELSE /\ guards' = guards \cup {conn}
       /\ leaving' = FALSE

\* run_startup_commands.
StartCommands ==
  IF mode # "commands" \/ Commands = 0 \/ sent
  THEN UNCHANGED sayVars
  ELSE /\ sending' = sending \cup {[of |-> conn, next |-> 1]}
       /\ sent' = TRUE
       /\ UNCHANGED said

LobbySpawn ==
  /\ StartWalk /\ StartGuard /\ StartCommands
  /\ inMain' = (inMain \/ mode # "portal")
  /\ UNCHANGED <<where, view, mark, exitVars, moves>>

LobbyDisconnect ==
  /\ walking' = FALSE /\ inMain' = FALSE
  /\ ending' = IF mode = "offline" THEN ending + 1 ELSE ending
  /\ offline' = 0
  /\ UNCHANGED <<where, view, walks, mark, stayVars, sayVars, timers, exited, moves>>

-----------------------------------------------------------------------------
(* The walk.                                                               *)

WalkUnchanged == UNCHANGED <<gameVars, stayVars, sayVars, exitVars, moves>>

\* Mutant: a walk that gave up counts as one that left.
EndWalkAnyhow(w, how) ==
  /\ walks' = walks \ {w}
  /\ walking' = FALSE
  /\ inMain' = TRUE
  /\ mark' = [how |-> how, saw |-> where, portal |-> w.portal, moved |-> FALSE]
  /\ UNCHANGED <<where, view>>

\* The task ends: what start_portal_walk does with the answer.
EndWalk(w, how) ==
  /\ walks' = walks \ {w}
  /\ walking' = FALSE
  /\ IF how = "none"
     THEN UNCHANGED <<inMain, mark>>
     ELSE /\ inMain' = TRUE
          /\ mark' = [how |-> how, saw |-> where, portal |-> w.portal, moved |-> FALSE]
  /\ UNCHANGED <<where, view>>

\* left_lobby: a position more than LEFT_LOBBY_BLOCKS from the portal, which
\* may be any distance in a world that the portal is not of.
SameWorld(w) == w.portal = World(where)
MayHaveLeft(w) == phase # "out" /\ (where # "near" \/ ~SameWorld(w))
MayBeThere(w) == phase = "out" \/ where # "far" \/ ~SameWorld(w)

\* At the height of the ground with no portal in sight, this looks like main.
SkipWalk(w) ==
  /\ w.at = "begin" /\ phase # "out" /\ view = "ground"
  /\ EndWalk(w, "skipped")
  /\ WalkUnchanged

FindPortal(w) ==
  /\ w.at = "begin" /\ phase # "out" /\ view = "portal"
  /\ walks' = (walks \ {w}) \cup {[w EXCEPT !.at = "walk", !.portal = World(where)]}
  /\ UNCHANGED <<where, view, walking, inMain, mark>>
  /\ WalkUnchanged

\* None was found within portal_search_secs.
NoPortal(w) ==
  /\ w.at = "begin"
  /\ EndWalk(w, "none")
  /\ WalkUnchanged

\* An approach: the server moves a bot that stands in a portal, or does not,
\* and may put it down beside another portal; or the bot falls on its way.
Approach(w) ==
  /\ w.at = "walk" /\ MayBeThere(w) /\ w.tries < MaxTries
  /\ walks' = (walks \ {w}) \cup {[w EXCEPT !.tries = @ + 1]}
  /\ IF phase = "out"
     THEN UNCHANGED <<where, view>>
     ELSE where' \in {s \in Spots : World(where) = "main" => s = "main"} /\ view' \in Views
  /\ UNCHANGED <<walking, inMain, mark>>
  /\ WalkUnchanged

Arrive(w) ==
  /\ w.at = "walk" /\ MayHaveLeft(w)
  /\ EndWalk(w, "left")
  /\ WalkUnchanged

GiveUp(w) ==
  /\ w.at = "walk" /\ MayBeThere(w) /\ w.tries = MaxTries
  /\ EndWalk(w, "none")
  /\ WalkUnchanged

\* Chunks arrive, the bot falls, lands or jumps.
LookAround ==
  /\ Located /\ phase = "game"
  /\ view' \in Views \ {view}
  /\ UNCHANGED <<where, walks, walking, inMain, mark>>
  /\ WalkUnchanged

\* The server puts the bot back into the lobby, or into the main world.
MoveBot ==
  /\ Located /\ phase = "game" /\ moves < MaxMoves
  /\ moves' = moves + 1
  /\ where' \in IF where \in Lobby THEN {"main"} ELSE Lobby
  /\ view' \in Views
  /\ mark' = [mark EXCEPT !.moved = TRUE]
  \* being moved is a change of server, which spawns the bot again
  /\ StartWalk /\ StartGuard
  /\ UNCHANGED <<gameVars, inMain, sayVars, exitVars>>

\* Event::Chat: "backup server", "bottom of the world", wherever the bot is.
LobbyChat ==
  /\ mode = "portal" /\ phase # "out" /\ ~walking
  /\ StartWalk
  /\ UNCHANGED <<where, view, inMain, mark>>
  /\ WalkUnchanged

-----------------------------------------------------------------------------
(* The guard, the commands, the exit.                                      *)

\* leave_main_for_lobby.
LeaveMain ==
  /\ leaving' = TRUE
  /\ closing' = (closing \/ (~leaving /\ phase # "out"))

\* Twelve seconds after a spawn: a portal in sight passes for the lobby.
Judge(c) ==
  /\ guards' = guards \ {c}
  /\ IF phase # "out" /\ view \in {"ground", "ledge"}
     THEN LeaveMain
     ELSE UNCHANGED <<leaving, closing>>
  /\ UNCHANGED <<mode, phase, conn, spawns, walkVars, sayVars, exitVars, moves>>

\* enforce_lobby_stay: a chat line says that the bot plays on a worker.
WorkerChat ==
  /\ mode = "stay" /\ phase # "out" /\ ~leaving
  /\ LeaveMain
  /\ UNCHANGED <<mode, phase, conn, spawns, walkVars, guards, sayVars, exitVars, moves>>

SendCommand(t) ==
  /\ sending' = (sending \ {t}) \cup IF t.next = Commands THEN {} ELSE {[t EXCEPT !.next = @ + 1]}
  /\ said' = IF phase = "out" THEN said
             ELSE Append(said, [in |-> conn, by |-> t.of, command |-> t.next])
  /\ UNCHANGED <<gameVars, walkVars, stayVars, sent, exitVars, moves>>

\* Mutant: the exit is only timed for the first disconnect.
TimedOnce == IF conn < 2 THEN timers \cup {0} ELSE timers

Timed == timers \cup {0}

\* end_session has returned, written or not.
StartTimer ==
  /\ ending > 0 /\ ~exited
  /\ ending' = ending - 1
  /\ timers' = Timed
  /\ UNCHANGED <<gameVars, walkVars, stayVars, sayVars, offline, exited, moves>>

\* The task of a disconnect wakes up, and looks only at what is now.
Expire ==
  /\ Wait \in timers
  /\ timers' = timers \ {Wait}
  /\ exited' = (phase = "out")
  /\ UNCHANGED <<gameVars, walkVars, stayVars, sayVars, ending, offline, moves>>

LobbyTick ==
  /\ mode = "offline" /\ conn > 0 /\ Wait \notin timers /\ ~exited /\ offline <= Wait
  /\ timers' = {a + 1 : a \in timers}
  /\ offline' = IF phase = "out" /\ ending = 0 THEN offline + 1 ELSE offline
  /\ UNCHANGED <<gameVars, walkVars, stayVars, sayVars, ending, exited, moves>>

LobbyStep ==
  \/ \E w \in walks :
       SkipWalk(w) \/ FindPortal(w) \/ NoPortal(w) \/ Approach(w) \/ Arrive(w) \/ GiveUp(w)
  \/ LookAround \/ MoveBot \/ LobbyChat
  \/ \E c \in guards : Judge(c)
  \/ WorkerChat
  \/ \E t \in sending : SendCommand(t)
  \/ StartTimer \/ Expire \/ LobbyTick

-----------------------------------------------------------------------------
(* Properties.                                                             *)

\* The logger takes the tab list for the main world's only there, also when a
\* walk of an earlier connection ends in this one.  It is wrong about that when
\* the bot fell or stood as high as the ground before it saw a portal
\* (main.rs:1992-1997); when it was, or came, farther from the lobby's portal
\* than counts as having left, or from a portal that it had seen in the main
\* world (main.rs:2030-2037); and when the server has moved it back since, as
\* only a disconnect clears in_main_world.
MainAccounted ==
  mode = "portal" /\ phase = "game" /\ inMain /\ where \in Lobby =>
    \/ mark.how = "skipped" /\ mark.saw \in Lobby
    \/ mark.how = "left" /\ (mark.saw = "far" \/ mark.portal = "main")
    \/ mark.moved

\* A command is given twice in a session only by the task of another one: the
\* tasks of a connection that broke go on (main.rs:1917-1923).
CommandsAccounted ==
  \A i, j \in 1 .. Len(said) :
    i # j /\ said[i].in = said[j].in /\ said[i].command = said[j].command => said[i].by # said[j].by

\* A logger that was disconnected is back, or has exited, within the wait from
\* when the end of its session was written or refused, however often it was
\* disconnected before (main.rs:700-722).
OfflineBounded ==
  mode = "offline" /\ phase = "out" /\ conn > 0 => offline <= Wait

\* A lobby-only logger whose connection is yet to be judged leaves the main
\* world, as long as it stands on the ground there and sees no portal
\* (main.rs:1733-1757).
StaysInLobby ==
  LET onGround == mode = "stay" /\ phase = "game" /\ where = "main" /\ view = "ground"
  IN (onGround /\ conn \in guards) ~> ~onGround
=============================================================================
