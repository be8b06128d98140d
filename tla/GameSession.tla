---------------------------- MODULE GameSession -----------------------------
(***************************************************************************)
(* A logger's reactions to its game server, composed: LobbyWalk, QueueProbe *)
(* and PluginProbe share the connection's events (Game), which each takes  *)
(* part in, and nothing else.                                              *)
(***************************************************************************)
EXTENDS LobbyWalk, QueueProbe, PluginProbe

vars == <<gameVars, lobbyVars, queueVars, probeVars>>

Init == GameInit /\ LobbyInit /\ QueueInit /\ ProbeInit

\* The parts do not see each other's state, so that a behaviour follows the
\* part its mode is about and leaves the others as they are.
QueueModes == {"queue", "reported"}
LobbyModes == Modes \ (QueueModes \cup {"probe"})

Together(lobby, queue, probing) ==
  /\ IF mode \in LobbyModes THEN lobby ELSE UNCHANGED lobbyVars
  /\ IF mode \in QueueModes THEN queue ELSE UNCHANGED queueVars
  /\ IF mode = "probe" THEN probing ELSE UNCHANGED probeVars

Next ==
  \/ Login /\ Together(LobbyLogin, QueueLogin, ProbeLogin)
  \/ Spawn /\ Together(LobbySpawn, UNCHANGED queueVars, ProbeSpawn)
  \/ Disconnect /\ Together(LobbyDisconnect, UNCHANGED queueVars, UNCHANGED probeVars)
  \/ LobbyStep /\ UNCHANGED <<queueVars, probeVars>>
  \/ QueueStep /\ UNCHANGED <<lobbyVars, probeVars>>
  \/ ProbeStep /\ UNCHANGED <<lobbyVars, queueVars>>

Spec == Init /\ [][Next]_vars

\* A requested disconnect takes effect, tasks run, timers fire, and the server
\* sends its tab list and the queue's texts again and again.  Logins, spawns,
\* moves and other disconnects need not come.
Fairness ==
  /\ WF_vars(closing /\ Disconnect /\ Together(LobbyDisconnect, UNCHANGED queueVars, UNCHANGED probeVars))
  /\ WF_vars((\E c \in guards : Judge(c)) /\ UNCHANGED <<queueVars, probeVars>>)
  /\ WF_vars(ReadPlace /\ UNCHANGED <<lobbyVars, probeVars>>)
  /\ WF_vars((\E h \in answering : AnswerPlace(h)) /\ UNCHANGED <<lobbyVars, probeVars>>)
  /\ WF_vars(ReadCount /\ UNCHANGED <<lobbyVars, probeVars>>)
  /\ WF_vars(Age /\ UNCHANGED <<lobbyVars, probeVars>>)
  /\ WF_vars((\E i \in 1 .. MaxHandlers : WriteCount(i)) /\ UNCHANGED <<lobbyVars, probeVars>>)

FairSpec == Spec /\ Fairness

-----------------------------------------------------------------------------
(* Properties.                                                             *)

\* What a connection's own events do not call for, a task of an earlier
\* connection does: a command given again, a probe that leaves the queue too
\* early (main.rs:1022-1040, 1917-1923).
LateTasksAccounted == CommandsAccounted /\ ClosedInTime

\* Every connection is searched for plugins once, and by what it told itself,
\* with the exceptions that SearchedOnce names (main.rs:562-566, 1714-1716).
ScansAccounted == SearchedOnce /\ OwnFindings

\* What the tasks of this connection and of earlier ones do.
TasksAccounted == MainAccounted /\ LateTasksAccounted

\* A connection leaves the lobby's portal or the queue where it is to, and
\* the number of players that it reports settles.
GameMovesOn == StaysInLobby /\ LeavesQueue /\ CountSettles
=============================================================================
