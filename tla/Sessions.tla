------------------------------ MODULE Sessions ------------------------------
(***************************************************************************)
(* The loggers' session rows.  Each connection to the game has a row of    *)
(* its own in sessions; events are recorded under the one the process      *)
(* holds in Services.session_id, and online_now shows the presence rows of *)
(* the sessions that are open (schema.sql).  A row is opened by            *)
(* start_session and ended by end_session, by set_bot_username (which      *)
(* supersedes the others of its name) or by another process's start        *)
(* (close_stale_sessions).                                                 *)
(*                                                                         *)
(* Every event of the game is handled by a task of its own, which reads    *)
(* session_id when it starts and then awaits one statement after another:  *)
(* the statements of several handlers, of the writer and of the other      *)
(* loggers come between.  Each logger has an account, so a name, of its    *)
(* own.                                                                    *)
(***************************************************************************)
EXTENDS Integers, Sequences, FiniteSets, FiniteSetsExt

CONSTANTS
  Loggers,      \* logger processes on one database
  Active,       \* bound: the loggers that open sessions; the others die after their sweep
  MaxSessions,  \* bound: session rows and failed statements in a behaviour
  MaxTasks,     \* bound: handlers of a logger under way at once
  MaxStarts,    \* bound: process starts in a behaviour
  MaxTroubles   \* bound: failed statements in a behaviour

ASSUME SessionsAssumption ==
  /\ IsFiniteSet(Loggers)
  /\ Active \subseteq Loggers
  /\ MaxSessions \in Nat
  /\ MaxTasks \in Nat
  /\ MaxStarts \in Nat
  /\ MaxTroubles \in Nat

VARIABLES
  sessions,   \* table sessions, by id: owner, named, open (no ended_at)
  presence,   \* sessions with rows in player_presence
  beat,       \* logger_heartbeats: session, connected, fresh
  process,    \* down; clears, sweeps, opens (before the game); up; quits
  birth,      \* the session main opened before it connected
  current,    \* Services.session_id
  connected,  \* Services.connected
  first,      \* Services.logins = 0
  limbo,      \* Services.in_queue_limbo
  inserts,    \* start_session calls that have not reached the database
  stores,     \* sessions inserted whose id is not in session_id yet
  namings,    \* set_bot_username calls: session, next statement
  endings,    \* end_session calls: session, next statement
  queue,      \* sessions with rows in the writer's channel or batch
  starts,     \* process starts so far
  troubles,   \* statements failed so far
  aspect,     \* bound: a behaviour has rows or heartbeats, which meet only in a sweep
  watched,    \* the session a behaviour is looked at for: any
  cause       \* history: what happened to it, see below

database == <<sessions, presence, beat>>
services == <<birth, current, connected, first, limbo>>
tasks == <<inserts, stores, namings, endings, queue>>
bounds == <<aspect, watched, starts, troubles>>
vars == <<database, process, services, tasks, bounds, cause>>

\* The histories the exceptions of the properties are made of.  They, like
\* the rows of the log, are kept of one session, which may be any: no
\* property relates two sessions' histories.
\*   ended, superseded, stale: what closed it (end_reason)
\*   refused: current when an opening failed;      early: ended before any login
\*   raced:   opened while a Spawn was being handled
\*   beaten:  open when a heartbeat said connected
\*   doubled: opened beside another, or the other
\*   spared:  had recent rows at a sweep;          undone: a statement failed
\*   late:    rows were written after it was ended
Causes == {"ended", "superseded", "stale", "refused", "early", "raced", "beaten",
           "doubled", "spared", "undone", "late"}

-----------------------------------------------------------------------------
Ids == 1..MaxSessions
NoSession == 0

Session(l, named) == [owner |-> l, named |-> named, open |-> TRUE]

Known == DOMAIN sessions
Of(l) == {i \in Known : sessions[i].owner = l}
Open == {i \in Known : sessions[i].open}

\* The table after UPDATE sessions SET ended_at WHERE id IN S.
Without(S) == [i \in Known |-> [sessions[i] EXCEPT !.open = @ /\ i \notin S]]

\* Is somebody about to end session i, or to drop what is left of it?
BeingEnded(l, i) == \E e \in endings[l] : e.id = i
BeingDropped(l, i) ==
  \/ BeingEnded(l, i)
  \/ (sessions[i].named /\ \E n \in namings[l] : n.at = 3)

\* set_bot_username's second statement: the other rows of this name.
Superseded(l, id) == {i \in Of(l) : i # id /\ sessions[i].named}

\* Mutant: heartbeats are not asked for.
HeartbeatedNone == {}

\* Sessions a logger is still heartbeating on (close_stale_sessions).
Heartbeated ==
  {beat[l].session : l \in {m \in Loggers : beat[m].connected /\ beat[m].fresh}}

\* Bound: room for one more row or failure beside the rows on their way.
CanOpen ==
  Len(sessions) + troubles + MapThenSumSet(LAMBDA l : inserts[l], Loggers)
    + Cardinality({l \in Active : process[l] \in {"clears", "sweeps", "opens"}})
  < MaxSessions

-----------------------------------------------------------------------------
Init ==
  /\ sessions = <<>>
  /\ presence = {}
  /\ beat = [l \in Loggers |-> [session |-> NoSession, connected |-> FALSE, fresh |-> TRUE]]
  /\ process = [l \in Loggers |-> "down"]
  /\ birth = [l \in Loggers |-> NoSession]
  /\ current = [l \in Loggers |-> NoSession]
  /\ connected = [l \in Loggers |-> FALSE]
  /\ first = [l \in Loggers |-> TRUE]
  /\ limbo = [l \in Loggers |-> FALSE]
  /\ inserts = [l \in Loggers |-> 0]
  /\ stores = [l \in Loggers |-> {}]
  /\ namings = [l \in Loggers |-> {}]
  /\ endings = [l \in Loggers |-> {}]
  /\ queue = [l \in Loggers |-> {}]
  /\ starts = 0
  /\ troubles = 0
  /\ aspect \in {"rows", "heartbeats"}
  /\ watched \in Ids
  /\ cause = {}

\* c happened to the sessions S.
Note(c, S) == cause' = IF watched \in S THEN cause \cup {c} ELSE cause

-----------------------------------------------------------------------------
(* main, up to the connection to the game                                  *)

Start(l) ==
  /\ process[l] = "down"
  /\ starts < MaxStarts
  /\ l \in Active => CanOpen
  /\ starts' = starts + 1
  /\ process' = [process EXCEPT ![l] = "clears"]
  /\ UNCHANGED <<database, services, tasks, aspect, watched, troubles, cause>>

\* Mutant: the row stays connected.
ClearedBeatConnected(l) == [beat EXCEPT ![l].fresh = TRUE]

\* Db::clear_heartbeat: connected = false, updated_at = now().
ClearedBeat(l) == [beat EXCEPT ![l].connected = FALSE, ![l].fresh = TRUE]

\* What the previous run of this instance left behind goes first.
ClearHeartbeat(l) ==
  /\ process[l] = "clears"
  /\ process' = [process EXCEPT ![l] = "sweeps"]
  /\ beat' = ClearedBeat(l)
  /\ UNCHANGED <<sessions, presence, services, tasks, bounds, cause>>

AfterSweep(l) == IF l \in Active THEN "opens" ELSE "down"

\* close_stale_sessions: what is open, has no row of the last three minutes
\* and is not heartbeated.  A session that is open and has been written to
\* has presence; its rows may be recent or not.
CloseStale(l) ==
  /\ process[l] = "sweeps"
  /\ process' = [process EXCEPT ![l] = AfterSweep(l)]
  /\ \E recent \in SUBSET (presence \cap Open) :
       LET stale == (Open \ recent) \ Heartbeated IN
         /\ sessions' = Without(stale)
         /\ cause' = cause \cup (IF watched \in stale THEN {"stale"} ELSE {})
                          \cup (IF watched \in recent THEN {"spared"} ELSE {})
  /\ UNCHANGED <<presence, beat, services, tasks, bounds>>

\* start_session(.., None), the spawns, and the connection to the game.
OpenFirst(l) ==
  /\ process[l] = "opens"
  /\ process' = [process EXCEPT ![l] = "up"]
  /\ sessions' = Append(sessions, Session(l, FALSE))
  /\ current' = [current EXCEPT ![l] = Len(sessions')]
  /\ birth' = [birth EXCEPT ![l] = Len(sessions')]
  /\ UNCHANGED <<presence, beat, connected, first, limbo, tasks, bounds, cause>>

\* Services, but for what is being ended, is gone.
Reset(l) ==
  /\ birth' = [birth EXCEPT ![l] = NoSession]
  /\ current' = [current EXCEPT ![l] = NoSession]
  /\ connected' = [connected EXCEPT ![l] = FALSE]
  /\ first' = [first EXCEPT ![l] = TRUE]
  /\ limbo' = [limbo EXCEPT ![l] = FALSE]
  /\ inserts' = [inserts EXCEPT ![l] = 0]
  /\ stores' = [stores EXCEPT ![l] = {}]
  /\ namings' = [namings EXCEPT ![l] = {}]
  /\ queue' = [queue EXCEPT ![l] = {}]

\* An exit or a kill: memory goes, tables stay.  What is only asked of the
\* sessions of a running process is forgotten.
Down(l) ==
  /\ process' = [process EXCEPT ![l] = "down"]
  /\ Reset(l)
  /\ endings' = [endings EXCEPT ![l] = {}]
  /\ cause' = IF watched \in Of(l) THEN cause \cap {"spared", "undone"} ELSE cause

\* Killed, or left by one of the exits: the database connection ended, or
\* the game was out of reach for RECONNECT_EXIT_SECS.
Crash(l) ==
  /\ process[l] # "down"
  /\ Down(l)
  /\ UNCHANGED <<database, bounds>>

\* A statement of main fails: the first two are passed over, the third exits.
StartFails(l) ==
  /\ process[l] \in {"clears", "sweeps", "opens"}
  /\ troubles < MaxTroubles
  /\ CanOpen
  /\ troubles' = troubles + 1
  /\ \/ /\ process[l] = "clears"
        /\ process' = [process EXCEPT ![l] = "sweeps"]
        /\ Note("undone", {beat[l].session})
        /\ UNCHANGED <<services, tasks>>
     \/ /\ process[l] = "sweeps"
        /\ process' = [process EXCEPT ![l] = AfterSweep(l)]
        /\ Note("undone", Open)
        /\ UNCHANGED <<services, tasks>>
     \/ /\ process[l] = "opens"
        /\ Down(l)
  /\ UNCHANGED <<database, aspect, watched, starts>>

-----------------------------------------------------------------------------
(* Events of the game: what their handlers do before their first await     *)

Up(l) == process[l] = "up"

\* Bound: room for one more handler.
CanHandle(l) ==
  inserts[l] + Cardinality(stores[l]) + Cardinality(namings[l]) + Cardinality(endings[l])
    < MaxTasks

\* end_session(session()).  A second call while the first is under way does
\* the same again: it is left out.
BeginEnding(l) ==
  endings[l] \cup IF BeingEnded(l, current[l]) THEN {} ELSE {[id |-> current[l], at |-> 1]}

\* Event::Login: a session of its own for every connection but the first.
Login(l) ==
  /\ Up(l)
  /\ CanHandle(l)
  /\ ~connected[l]
  /\ connected' = [connected EXCEPT ![l] = TRUE]
  /\ first' = [first EXCEPT ![l] = FALSE]
  /\ \/ first[l] /\ UNCHANGED inserts
     \/ ~first[l] /\ CanOpen /\ inserts' = [inserts EXCEPT ![l] = @ + 1]
  /\ UNCHANGED <<database, process, birth, current, limbo, stores, namings, endings,
                 queue, bounds, cause>>

\* Event::Spawn: set_bot_username(session(), username); again not twice at once.
Spawn(l) ==
  /\ Up(l)
  /\ CanHandle(l)
  /\ connected[l]
  /\ \A n \in namings[l] : n.id # current[l]
  /\ namings' = [namings EXCEPT ![l] = @ \cup {[id |-> current[l], at |-> 1]}]
  /\ Note("raced", stores[l])
  /\ UNCHANGED <<database, process, services, inserts, stores, endings, queue, bounds>>

\* Mutant: a disconnect leaves the session open.
EndNothing(l) == endings[l]

EndOnDisconnect(l) == BeginEnding(l)

\* Event::Disconnect.  It comes for an attempt that never reached Login, too,
\* which matters as long as there is a session to end.
Disconnect(l) ==
  /\ Up(l)
  /\ CanHandle(l)
  /\ connected[l] \/ current[l] \in Open
  /\ connected' = [connected EXCEPT ![l] = FALSE]
  /\ endings' = [endings EXCEPT ![l] = EndOnDisconnect(l)]
  /\ Note("early", IF first[l] THEN {current[l]} ELSE {})
  /\ UNCHANGED <<database, process, birth, current, first, limbo, inserts, stores,
                 namings, queue, bounds>>

\* note_queue_limbo: the first line that looks like a queue.
EnterQueue(l) ==
  /\ Up(l)
  /\ CanHandle(l)
  /\ connected[l]
  /\ ~limbo[l]
  /\ limbo' = [limbo EXCEPT ![l] = TRUE]
  /\ endings' = [endings EXCEPT ![l] = BeginEnding(l)]
  /\ UNCHANGED <<database, process, birth, current, connected, first, inserts, stores,
                 namings, queue, bounds, cause>>

\* leave_queue_limbo: "connected to the server".  The flag outlives a
\* disconnect, so the session may have been opened by a Login since.
LeaveQueue(l) ==
  /\ Up(l)
  /\ CanHandle(l)
  /\ connected[l]
  /\ limbo[l]
  /\ CanOpen
  /\ limbo' = [limbo EXCEPT ![l] = FALSE]
  /\ inserts' = [inserts EXCEPT ![l] = @ + 1]
  /\ UNCHANGED <<database, process, birth, current, connected, first, stores, namings,
                 endings, queue, bounds, cause>>

\* Ctrl+C: end_session, then Quit.  What other tasks may still do before
\* the exit leaves nothing but what a crash leaves.
Shutdown(l) ==
  /\ Up(l)
  /\ CanHandle(l)
  /\ process' = [process EXCEPT ![l] = "quits"]
  /\ Reset(l)
  /\ endings' = [endings EXCEPT ![l] = BeginEnding(l)]
  /\ UNCHANGED <<database, bounds, cause>>

\* presence_note_join: a row for the writer, under the session of the moment.
\* Only the watched session has any.
See(l) ==
  /\ Up(l)
  /\ aspect = "rows"
  /\ current[l] = watched
  /\ connected[l]
  /\ ~limbo[l]
  /\ queue' = [queue EXCEPT ![l] = @ \cup {current[l]}]
  /\ UNCHANGED <<database, process, services, inserts, stores, namings, endings,
                 bounds, cause>>

-----------------------------------------------------------------------------
(* The statements of the handlers                                          *)

\* start_session's INSERT, with the name.
Insert(l) ==
  LET id == Len(sessions) + 1
      live == {i \in (stores[l] \cup {current[l]}) \cap Open : ~BeingEnded(l, i)}
  IN /\ inserts[l] > 0
     /\ inserts' = [inserts EXCEPT ![l] = @ - 1]
     /\ sessions' = Append(sessions, Session(l, TRUE))
     /\ stores' = [stores EXCEPT ![l] = @ \cup {id}]
     /\ cause' = cause
          \cup (IF watched = id /\ namings[l] # {} THEN {"raced"} ELSE {})
          \cup (IF watched \in live \/ (watched = id /\ stores[l] # {})
                  THEN {"doubled"} ELSE {})
  /\ UNCHANGED <<presence, beat, process, services, namings, endings,
                 queue, bounds>>

\* services.session_id.store(id)
Store(l) ==
  \E id \in stores[l] :
    /\ stores' = [stores EXCEPT ![l] = @ \ {id}]
    /\ current' = [current EXCEPT ![l] = id]
    /\ UNCHANGED <<database, process, birth, connected, first, limbo, inserts, namings,
                   endings, queue, bounds, cause>>

\* set_bot_username's statement n.at is done.
Named(l, n) ==
  namings' = [namings EXCEPT
    ![l] = (@ \ {n}) \cup (IF n.at < 3 THEN {[n EXCEPT !.at = @ + 1]} ELSE {})]

NameSession(l) ==
  \E n \in namings[l] :
    /\ n.at = 1
    /\ Named(l, n)
    /\ sessions' = [sessions EXCEPT ![n.id].named = TRUE]
    /\ UNCHANGED <<presence, beat, process, services, inserts, stores, endings,
                   queue, bounds, cause>>

SupersedeOthers(l) ==
  \E n \in namings[l] :
    /\ n.at = 2
    /\ Named(l, n)
    /\ sessions' = Without(Superseded(l, n.id))
    /\ cause' = (IF watched \in Of(l) \ {n.id} THEN cause \ {"doubled"} ELSE cause)
          \cup (IF watched \in Open \cap Superseded(l, n.id) THEN {"superseded"} ELSE {})
    /\ UNCHANGED <<presence, beat, process, services, inserts, stores, endings,
                   queue, bounds>>

\* What set_bot_username drops the presence of: ended rows of this name.
SupersededPresence(l) == {i \in Of(l) \ Open : sessions[i].named}

DropSuperseded(l) ==
  \E n \in namings[l] :
    /\ n.at = 3
    /\ Named(l, n)
    /\ presence' = presence \ SupersededPresence(l)
    /\ UNCHANGED <<sessions, beat, process, services, inserts, stores, endings,
                   queue, bounds, cause>>

\* end_session's statement e.at is done.  Its DELETE of 's' events, and that of
\* set_bot_username, find none: the writer no longer logs them.
Ended(l, e) ==
  endings' = [endings EXCEPT
    ![l] = (@ \ {e}) \cup (IF e.at = 1 THEN {[e EXCEPT !.at = 2]} ELSE {})]

EndSession(l) ==
  \E e \in endings[l] :
    /\ e.at = 1
    /\ Ended(l, e)
    /\ sessions' = Without({e.id})
    /\ Note("ended", {e.id} \cap Open)
    /\ UNCHANGED <<presence, beat, process, services, inserts, stores, namings,
                   queue, bounds>>

\* Mutant: presence is left to the next session.
PresenceLeft(id) == presence

\* DELETE FROM player_presence WHERE session_id
PresenceWithout(id) == presence \ {id}

DropPresence(l) ==
  \E e \in endings[l] :
    /\ e.at = 2
    /\ Ended(l, e)
    /\ presence' = PresenceWithout(e.id)
    /\ UNCHANGED <<sessions, beat, process, services, inserts, stores, namings,
                   queue, bounds, cause>>

\* After end_session, clear_heartbeat and exit(0); here also after the
\* end_session of a disconnect, if one is under way.
Quit(l) ==
  /\ process[l] = "quits"
  /\ endings[l] = {}
  /\ beat' = ClearedBeat(l)
  /\ Down(l)
  /\ UNCHANGED <<sessions, presence, bounds>>

\* A statement fails: its call returns and the handler prints the error.
TaskFails(l) ==
  /\ troubles < MaxTroubles
  /\ CanOpen
  /\ troubles' = troubles + 1
  /\ \/ /\ inserts[l] > 0
        /\ inserts' = [inserts EXCEPT ![l] = @ - 1]
        /\ Note("refused", {current[l]})
        /\ UNCHANGED <<process, services, stores, namings, endings, queue>>
     \/ \E n \in namings[l] :
          /\ namings' = [namings EXCEPT ![l] = @ \ {n}]
          /\ Note("undone", SupersededPresence(l))
          /\ UNCHANGED <<process, services, inserts, stores, endings, queue>>
     \/ \E e \in endings[l] :
          /\ endings' = [endings EXCEPT ![l] = @ \ {e}]
          /\ Note("undone", {e.id})
          /\ UNCHANGED <<process, services, inserts, stores, namings, queue>>
     \/ process[l] = "quits" /\ endings[l] = {} /\ Down(l)
  /\ UNCHANGED <<database, aspect, watched, starts>>

-----------------------------------------------------------------------------
(* The writer, the heartbeat and time                                      *)

\* Flusher::flush, as far as sessions go: rows are written whatever has
\* become of their session.
Flush(l) ==
  /\ queue[l] # {}
  /\ queue' = [queue EXCEPT ![l] = {}]
  /\ presence' = presence \cup queue[l]
  /\ Note("late", {i \in queue[l] \ Open : ~BeingDropped(l, i)})
  /\ UNCHANGED <<sessions, beat, process, services, inserts, stores, namings, endings,
                 bounds>>

\* standby::spawn's loop: Db::heartbeat with what the process is at.
Heartbeat(l) ==
  /\ Up(l)
  /\ aspect = "heartbeats"
  /\ beat' = [beat EXCEPT ![l] = [session |-> current[l], connected |-> connected[l],
                                  fresh |-> TRUE]]
  /\ Note("beaten", IF connected[l] THEN {current[l]} \cap Open ELSE {})
  /\ UNCHANGED <<sessions, presence, process, services, tasks, bounds>>

\* Two minutes without a heartbeat, which a process that is up never has.
GrowStale(l) ==
  /\ process[l] \notin {"up", "quits"}
  /\ beat[l].connected
  /\ beat[l].fresh
  /\ beat' = [beat EXCEPT ![l].fresh = FALSE]
  /\ UNCHANGED <<sessions, presence, process, services, tasks, bounds, cause>>

-----------------------------------------------------------------------------
Next == \E l \in Loggers :
  \/ Start(l) \/ ClearHeartbeat(l) \/ CloseStale(l) \/ OpenFirst(l)
  \/ Crash(l) \/ StartFails(l)
  \/ Login(l) \/ Spawn(l) \/ Disconnect(l) \/ EnterQueue(l) \/ LeaveQueue(l)
  \/ Shutdown(l) \/ See(l)
  \/ Insert(l) \/ Store(l)
  \/ NameSession(l) \/ SupersedeOthers(l) \/ DropSuperseded(l)
  \/ EndSession(l) \/ DropPresence(l) \/ Quit(l) \/ TaskFails(l)
  \/ Flush(l) \/ Heartbeat(l) \/ GrowStale(l)

Spec == Init /\ [][Next]_vars

-----------------------------------------------------------------------------
\* No handler is under way.
Settled(l) ==
  /\ Up(l)
  /\ inserts[l] = 0
  /\ stores[l] = {}
  /\ namings[l] = {}
  /\ endings[l] = {}

\* A logger in the game records under an open session, or online_now leaves
\* out everybody it sees (main.rs:57-60).  Its session is
\* closed only if: opening a new one failed; the session of the start was
\* ended by an attempt to connect that failed; the Spawn that named another
\* session overlapped with its opening; or a logger that started swept it
\* before a heartbeat had said that it is connected.
CurrentAccounted == \A l \in Loggers :
  /\ Settled(l)
  /\ connected[l]
  /\ ~limbo[l]
  /\ current[l] = watched
  /\ watched \notin Open
  => \/ "refused" \in cause
     \/ {"ended", "early"} \subseteq cause
     \/ {"superseded", "raced"} \subseteq cause
     \/ "stale" \in cause /\ "beaten" \notin cause

\* One live session per logger (db.rs:505-506): another one of this run is
\* open beside the current only if it was opened while that one was neither
\* ended nor about to be, or one of its statements failed; and the next
\* Spawn ends it.
LiveAccounted == \A l \in Loggers :
  /\ Settled(l)
  /\ watched \in Of(l) \cap Open
  /\ watched >= birth[l]
  /\ watched # current[l]
  => cause \cap {"doubled", "undone"} # {}

\* A start closes what earlier runs of the logger left open
\* (db.rs:234-239, main.rs:244-247), but for sessions with recent rows and
\* statements that failed, whatever row its last heartbeat had left.
LeftoversClosed == \A l \in Loggers :
  /\ Up(l)
  /\ watched \in Of(l) \cap Open
  /\ watched < birth[l]
  => cause \cap {"spared", "undone"} # {}

\* Presence is dropped with its session (db.rs:483-485): it outlives it only
\* if it was written afterwards, if the session was swept, or if a statement
\* failed.
PresenceDropped == \A l \in Loggers :
  /\ Settled(l)
  /\ watched \in (Of(l) \cap presence) \ Open
  /\ watched >= birth[l]
  => cause \cap {"late", "undone", "stale"} # {}

\* What a logger records under, and what it keeps open beside it.
SessionsAccounted == CurrentAccounted /\ LiveAccounted

\* What a session that is over leaves behind.
LeftoversAccounted == LeftoversClosed /\ PresenceDropped
=============================================================================
