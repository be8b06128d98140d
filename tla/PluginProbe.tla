---------------------------- MODULE PluginProbe -----------------------------
(***************************************************************************)
(* The search for a server's plugins after a login (azalea-bot/src/        *)
(* main.rs, plugin_probe.rs): what packets tell is collected for some      *)
(* ticks, with one request for tab completion and perhaps chat commands,   *)
(* then taken out of the shared state and saved by a statement that is     *)
(* awaited, while packets, spawns and logins go on.                        *)
(***************************************************************************)
EXTENDS Game

CONSTANTS TabAt, ChatAt, SaveAt,   \* ticks; 20, 60, 300 in the code
          ChatProbes,                    \* PLUGIN_PROBE_CHAT may be
          MaxProbeFailures               \* bound

ASSUME ProbeAssumption ==
  /\ TabAt \in Nat \ {0} /\ ChatAt \in Nat /\ SaveAt \in Nat
  /\ TabAt < ChatAt /\ ChatAt < SaveAt
  /\ ChatProbes \subseteq BOOLEAN /\ MaxProbeFailures \in Nat

VARIABLES
  probe,      \* PluginProbeState
  chatProbe,  \* PLUGIN_PROBE_CHAT
  request,    \* the completion request the server has not answered: its
              \* connection, or 0
  saving,     \* tasks in save_plugin_scan: [of, found]
  scanned,    \* connections with a row in server_plugin_scans
  takes,      \* takes[c]: probes of connection c that came to their end
  lived,      \* lived[c]: ticks of connection c, up to SaveAt
  restarted,  \* connections whose probe a spawn started anew
  silenced,   \* connections whose probe was marked as saved by the save of
              \* another connection's
  probeFailures

probeVars == <<probe, chatProbe, request, saving, scanned, takes, lived, restarted, silenced, probeFailures>>

\* What a packet or a line of this connection tells.
Here(source) == {[source |-> source, of |-> conn]}

NoProbe == [started |-> FALSE, ticks |-> 0, saved |-> FALSE, found |-> {}, alias |-> FALSE,
            pending |-> 0, tabRequested |-> FALSE, waitingChat |-> FALSE]

ProbeInit ==
  /\ chatProbe \in IF mode = "probe" THEN ChatProbes ELSE {FALSE}
  /\ probe = NoProbe /\ request = 0 /\ saving = {} /\ scanned = {}
  /\ takes = [c \in 1 .. MaxConns |-> 0] /\ lived = [c \in 1 .. MaxConns |-> 0]
  /\ restarted = {} /\ silenced = {} /\ probeFailures = 0

\* Mutant: a login goes on with the probe of the connection before.
KeepsProbe == [probe EXCEPT !.started = TRUE]

FreshProbe == [NoProbe EXCEPT !.started = TRUE]

\* Event::Login: reset.
ProbeLogin ==
  /\ probe' = FreshProbe
  /\ request' = 0
  /\ UNCHANGED <<chatProbe, saving, scanned, takes, lived, restarted, silenced, probeFailures>>

\* Event::Spawn starts a probe that has not been.
ProbeSpawn ==
  /\ probe' = [probe EXCEPT !.started = TRUE]
  /\ restarted' = IF ~probe.started /\ ~probe.saved THEN restarted \cup {conn} ELSE restarted
  /\ UNCHANGED <<chatProbe, request, saving, scanned, takes, lived, silenced, probeFailures>>

Listening == mode = "probe" /\ phase # "out" /\ ~probe.saved

\* maybe_request_tab_complete.
RequestTab(p) ==
  IF p.alias /\ ~p.tabRequested
  THEN /\ probe' = [p EXCEPT !.tabRequested = TRUE, !.pending = conn]
       /\ request' = conn
  ELSE /\ probe' = p
       /\ UNCHANGED request

\* The command tree, sent once after a login: it may name plugins, and may
\* have a version command.
ReadCommands(names, alias) ==
  /\ Listening /\ lived[conn] = 0
  /\ Here("command_tree") \cap probe.found = {} /\ ~probe.alias
  /\ names \/ alias
  /\ RequestTab([probe EXCEPT !.found = @ \cup IF names THEN Here("command_tree") ELSE {},
                              !.alias = @ \/ alias])
  /\ UNCHANGED <<gameVars, chatProbe, saving, scanned, takes, lived, restarted, silenced, probeFailures>>

Collected(p) ==
  /\ probe' = p
  /\ UNCHANGED <<gameVars, chatProbe, request, saving, scanned, takes, lived, restarted, silenced, probeFailures>>

\* The answer to the request of this probe; any other is passed over.
ReadSuggestions ==
  /\ Listening /\ request # 0
  /\ request' = 0
  /\ probe' = IF probe.pending # request THEN probe
              ELSE [probe EXCEPT !.pending = 0, !.found = @ \cup Here("tab_complete")]
  /\ UNCHANGED <<gameVars, chatProbe, saving, scanned, takes, lived, restarted, silenced, probeFailures>>

\* minecraft:register and any other channel, sent at the login, and
\* minecraft:unregister.
ReadChannel ==
  /\ Listening
  /\ \/ /\ lived[conn] = 0 /\ \A f \in probe.found : f.source # "register_channel"
        /\ Collected([probe EXCEPT !.found = @ \cup Here("register_channel")])
     \/ /\ \E f \in probe.found : f.source = "register_channel"
        /\ Collected([probe EXCEPT !.found = {f \in @ : f.source # "register_channel"}])

\* handle_chat while the answer to /plugins is awaited.
ReadPluginsChat ==
  /\ Listening /\ probe.waitingChat
  /\ Collected([probe EXCEPT !.waitingChat = FALSE, !.found = @ \cup Here("chat")])

Counted(c) == [lived EXCEPT ![c] = IF @ < SaveAt THEN @ + 1 ELSE @]

Ticked == [probe EXCEPT !.ticks = @ + 1,
                        !.waitingChat = @ \/ (probe.ticks + 1 = ChatAt /\ chatProbe)]

\* Mutant: the state is cleared but for its clock.
Emptied == [NoProbe EXCEPT !.started = TRUE]

\* mem::take leaves the default, whose clock has not started.
Taken == NoProbe

\* plugin_probe_tick.
ProbeTick ==
  /\ mode = "probe" /\ phase # "out" /\ ~probe.saved /\ probe.started
  /\ lived' = Counted(conn)
  /\ IF Ticked.ticks >= SaveAt
     THEN /\ saving' = saving \cup {[of |-> conn, found |-> probe.found]}
          /\ probe' = Taken
          /\ takes' = [takes EXCEPT ![conn] = @ + 1]
          /\ UNCHANGED request
     ELSE /\ IF Ticked.ticks = TabAt THEN RequestTab(Ticked) ELSE probe' = Ticked /\ UNCHANGED request
          /\ UNCHANGED <<saving, takes>>
  /\ UNCHANGED <<gameVars, chatProbe, scanned, restarted, silenced, probeFailures>>

\* The other ticks of a connection, which the probe lets pass.
IdleTick ==
  /\ mode = "probe" /\ phase # "out" /\ (probe.saved \/ ~probe.started)
  /\ lived[conn] < SaveAt
  /\ lived' = Counted(conn)
  /\ UNCHANGED <<gameVars, probe, chatProbe, request, saving, scanned, takes, restarted, silenced, probeFailures>>

\* save_plugin_scan is done: the state is marked, whosever it is by now.
SaveScan(s) ==
  /\ saving' = saving \ {s}
  /\ scanned' = scanned \cup {s.of}
  /\ silenced' = IF s.of # conn /\ ~probe.saved THEN silenced \cup {conn} ELSE silenced
  /\ probe' = [probe EXCEPT !.saved = TRUE]
  /\ UNCHANGED <<gameVars, chatProbe, request, takes, lived, restarted, probeFailures>>

SaveFails(s) ==
  /\ probeFailures < MaxProbeFailures
  /\ probeFailures' = probeFailures + 1
  /\ saving' = saving \ {s}
  /\ UNCHANGED <<gameVars, probe, chatProbe, request, scanned, takes, lived, restarted, silenced>>

ProbeStep ==
  \/ \E names, alias \in BOOLEAN : ReadCommands(names, alias)
  \/ ReadSuggestions \/ ReadChannel \/ ReadPluginsChat
  \/ ProbeTick \/ IdleTick
  \/ \E s \in saving : SaveScan(s) \/ SaveFails(s)

-----------------------------------------------------------------------------
(* Properties.                                                             *)

\* Every connection that lives long enough is searched, and once: unless the
\* save of an earlier connection's search marks it as done (main.rs:1714-1716
\* marks the shared state after an await), or a spawn during a save, or after
\* one that failed, starts a second search (main.rs:617-622).
SearchedOnce ==
  \A c \in 1 .. conn :
    /\ takes[c] <= 1 \/ c \in restarted
    /\ lived[c] >= SaveAt => takes[c] >= 1 \/ c \in silenced

\* A scan holds what its own connection told, and an answer is awaited on the
\* connection that asked (main.rs:562-566, 1531): neither what was found
\* before a login nor the answer to an earlier request gets into it.
OwnFindings ==
  /\ probe.pending # 0 => probe.pending = conn
  /\ \A s \in saving : \A f \in s.found : f.of = s.of
=============================================================================
