----------------------------- MODULE LogWriter -----------------------------
(***************************************************************************)
(* From the tab list to the database: the logger's presence handlers put   *)
(* rows on the writer's channel, and the single writer task (spawn_writer, *)
(* Flusher) stores them in batches, one SQL statement at a time.  One      *)
(* session of one logger whose gate is open.                               *)
(*                                                                         *)
(* The tab list as the handlers keep it, tab, is the truth that            *)
(* player_presence should show.  Utc::now() is a clock that advances with  *)
(* every write, so that no two writes carry the same time.                 *)
(***************************************************************************)
EXTENDS Integers, Sequences, SequencesExt

CONSTANTS
  Players,      \* players other than the bot itself
  Modes,        \* TABLIST_JOINS settings to look at, see tabJoins
  MaxBatch,     \* FLUSH_MAX_ROWS
  MaxWrites,    \* bound: rows put on the channel by events and restarts
  MaxRestarts,  \* bound: restart countdowns
  MaxPasses,    \* bound: reconcile passes that race with events
  MaxFailures   \* bound: statements that fail

ASSUME LogWriterAssumption ==
  /\ Modes \subseteq BOOLEAN
  /\ MaxBatch \in Nat \ {0}
  /\ MaxWrites \in Nat
  /\ MaxRestarts \in Nat
  /\ MaxPasses \in Nat
  /\ MaxFailures \in Nat

VARIABLES
  tabJoins,   \* cfg.tablist_joins: are tab events the join/leave history
  clock,      \* Utc::now()
  tab,        \* Services.tab_online
  snapshot,   \* start_online_reconcile: the list it read, {} for none
  queue,      \* the writer's channel and pending, oldest first
  stage,      \* where write_batch is; idle between flushes
  batch,      \* the batch being written
  todo,       \* places in it of restarts, then of reconciles, still to be written
  log,        \* player_events_raw
  presence,   \* player_presence: present and at for each player seen
  restarts,   \* restart countdowns so far
  passes,     \* reconcile passes so far
  failures,   \* failed statements so far
  excused     \* history: players whose row something known has spoiled

gameVars == <<tabJoins, clock, tab, snapshot, restarts, passes>>
dbVars   == <<log, presence>>
logVars  == <<gameVars, queue, stage, batch, todo, dbVars, failures, excused>>

-----------------------------------------------------------------------------
Event(type, source, p, at) ==
  [kind |-> "event", type |-> type, source |-> source, player |-> p, at |-> at]
RestartAt(at)    == [kind |-> "restart", at |-> at]
OnlineAt(at, ps) == [kind |-> "online", at |-> at, players |-> ps]
Record(p, type, source, at) == [player |-> p, type |-> type, source |-> source, at |-> at]

IsRestart(w) == w.kind = "restart"
IsOnline(w)  == w.kind = "online"

\* What the batch adds to the log: 's' and 'p' are markers, not history.
Logged(b) ==
  {Record(w.player, w.type, w.source, w.at) :
     w \in {e \in ToSet(b) : e.kind = "event" /\ e.type \notin {"s", "p"}}}

\* The tab events of p in the batch; the last one decides.
Marks(b, p) == {w \in ToSet(b) : w.kind = "event" /\ w.source = "t" /\ w.player = p}

\* Mutant: a tab disappearance does not count as a departure.
PresentAfterMarker(type) == type # "l"

\* let present = et != "l" && et != "p"
PresentAfter(type) == type \notin {"l", "p"}

Latest(ws) == CHOOSE w \in ws : \A v \in ws : v.at <= w.at

Never == [present |-> FALSE, at |-> 0]

\* upsert_presence, one row: the guard player_presence.at <= EXCLUDED.at.
Upsert(p, present, at) ==
  IF presence[p].at <= at THEN [present |-> present, at |-> at] ELSE presence[p]

Present == {p \in Players : presence[p].present}

\* Mutant: everyone in the tab list is given a join.
MissedJoinsEveryone(ps) == ps

\* Players of a snapshot whose last join or leave in the log is not a join.
MissedJoins(ps) ==
  {p \in ps :
     LET seen == {r \in log : r.player = p} IN
       seen = {} \/ Latest(seen).type # "j"}

\* Players present whom a settled snapshot does not show.
Stale(ps) == Present \ ps

Matches == Present = tab

-----------------------------------------------------------------------------
PresenceInit ==
  /\ tabJoins \in Modes
  /\ clock = 1
  /\ tab = {}
  /\ snapshot = {}
  /\ queue = <<>>
  /\ stage = "idle"
  /\ batch = <<>>
  /\ todo = {}
  /\ log = {}
  /\ presence = [p \in Players |-> Never]
  /\ restarts = 0
  /\ passes = 0
  /\ failures = 0
  /\ excused = {}

Put(w) ==
  /\ clock <= MaxWrites
  /\ clock' = clock + 1
  /\ queue' = Append(queue, w)

\* presence_note_join: a new row of the tab list.  In the grace period after
\* the login, and wherever chat owns the joins, it is a snapshot row.
Arrive(p) ==
  /\ p \notin tab
  /\ tab' = tab \cup {p}
  /\ \E type \in {"s"} \cup IF tabJoins THEN {"j"} ELSE {} : Put(Event(type, "t", p, clock))
  /\ UNCHANGED <<tabJoins, snapshot, restarts, passes, stage, batch, todo, dbVars, failures, excused>>

\* presence_note_leave: removed, hidden, or found missing by the tick's check.
Depart(p) ==
  /\ p \in tab
  /\ tab' = tab \ {p}
  /\ Put(Event(IF tabJoins THEN "l" ELSE "p", "t", p, clock))
  /\ UNCHANGED <<tabJoins, snapshot, restarts, passes, stage, batch, todo, dbVars, failures, excused>>

\* handle_chat: the server announces a join or a leave that just happened.
Announce(p) ==
  /\ ~tabJoins
  /\ Put(Event(IF p \in tab THEN "j" ELSE "l", "c", p, clock))
  /\ UNCHANGED <<tabJoins, tab, snapshot, restarts, passes, stage, batch, todo, dbVars, failures, excused>>

\* handle_chat: a restart countdown has run out.
RestartCountdown ==
  /\ restarts < MaxRestarts
  /\ restarts' = restarts + 1
  /\ tab' = {}
  /\ Put(RestartAt(clock))
  /\ UNCHANGED <<tabJoins, snapshot, passes, stage, batch, todo, dbVars, failures, excused>>

\* The clock runs past the bound: from here on nothing happens in the game.
GoQuiet ==
  /\ clock <= MaxWrites
  /\ clock' = MaxWrites + 1
  /\ UNCHANGED <<tabJoins, tab, snapshot, restarts, passes, queue, stage, batch, todo,
                 dbVars, failures, excused>>

\* start_online_reconcile reads the list under its lock ..
ReadTab ==
  /\ snapshot = {}
  /\ tab # {}
  /\ passes < MaxPasses \/ (clock > MaxWrites /\ queue = <<>> /\ stage = "idle")
  /\ passes' = IF passes < MaxPasses THEN passes + 1 ELSE passes
  /\ snapshot' = tab
  /\ UNCHANGED <<tabJoins, clock, tab, restarts, queue, stage, batch, todo, dbVars, failures, excused>>

\* Mutant: a list that has not changed since it was read is not queued.
QueueOnlineIfChanged ==
  /\ snapshot # {}
  /\ queue' = IF snapshot = tab THEN queue ELSE Append(queue, OnlineAt(clock, snapshot))
  /\ clock' = IF clock <= MaxWrites THEN clock + 1 ELSE clock
  /\ snapshot' = {}
  /\ excused' = excused \cup (snapshot \ tab) \cup (tab \ snapshot)
  /\ UNCHANGED <<tabJoins, tab, restarts, passes, stage, batch, todo, dbVars, failures>>

\* .. and takes the time and queues it after the lock is gone.
QueueOnline ==
  /\ snapshot # {}
  /\ queue' = Append(queue, OnlineAt(clock, snapshot))
  /\ clock' = IF clock <= MaxWrites THEN clock + 1 ELSE clock
  /\ snapshot' = {}
  /\ excused' = excused \cup (snapshot \ tab) \cup (tab \ snapshot)
  /\ UNCHANGED <<tabJoins, tab, restarts, passes, stage, batch, todo, dbVars, failures>>

-----------------------------------------------------------------------------
(* The writer task.  Each stage of write_batch is one statement.           *)

\* The batch is finished with, written or not.
Done == stage' = "idle" /\ todo' = {} /\ batch' = <<>>

\* The stage after the events, given what the batch still holds.
Continue(rs, os) ==
  \/ rs # {} /\ stage' = "restart" /\ todo' = rs /\ UNCHANGED batch
  \/ rs = {} /\ os # {} /\ stage' = "mark" /\ todo' = os /\ UNCHANGED batch
  \/ rs = {} /\ os = {} /\ Done

Restarts == {i \in DOMAIN batch : IsRestart(batch[i])}
Onlines  == {i \in DOMAIN batch : IsOnline(batch[i])}

\* They are written in the order they came in: this one, then the others.
Due  == batch[Min(todo)]
Rest == todo \ {Min(todo)}

\* Rows are written by kind: events, then restarts, then reconciles.
Rank(w) == CASE w.kind = "event" -> 1 [] w.kind = "restart" -> 2 [] w.kind = "online" -> 3

\* Players for whom the batch holds a row written before an older one.
Overtaken(b) ==
  {p \in Players : \E w, v \in ToSet(b) :
     /\ v.at < w.at /\ Rank(w) < Rank(v)
     /\ w.kind = "event" => w.player = p}

\* flush: drain what has been received, and write it.
Flush ==
  /\ stage = "idle"
  /\ \E n \in 1..Len(queue) :
       /\ n <= MaxBatch
       /\ batch' = SubSeq(queue, 1, n)
       /\ queue' = SubSeq(queue, n + 1, Len(queue))
  /\ stage' = "log"
  /\ excused' = excused \cup Overtaken(batch')
  /\ UNCHANGED <<gameVars, todo, dbVars, failures>>

\* write_events: the log rows.  A batch without any returns before presence.
WriteEvents ==
  /\ stage = "log"
  /\ log' = log \cup Logged(batch)
  /\ IF Logged(batch) = {}
     THEN /\ Continue(Restarts, Onlines)
          /\ excused' = excused \cup {p \in Players : Marks(batch, p) # {}}
     ELSE stage' = "presence" /\ UNCHANGED <<todo, batch, excused>>
  /\ UNCHANGED <<gameVars, queue, presence, failures>>

\* write_events: the presence of everyone the batch's tab events name.
WritePresence ==
  /\ stage = "presence"
  /\ presence' = [p \in Players |->
       IF Marks(batch, p) = {} THEN presence[p]
       ELSE LET last == Latest(Marks(batch, p))
            IN Upsert(p, PresentAfter(last.type), last.at)]
  /\ Continue(Restarts, Onlines)
  /\ UNCHANGED <<gameVars, queue, log, failures, excused>>

\* write_restarts: a leave for everyone present ..
LogRestart ==
  /\ stage = "restart"
  /\ log' = log \cup {Record(p, "l", "r", Due.at) : p \in Present}
  /\ stage' = "clear"
  /\ UNCHANGED <<gameVars, queue, batch, todo, presence, failures, excused>>

\* .. and nobody is.
ClearPresence ==
  /\ stage = "clear"
  /\ presence' = [p \in Players |->
       IF p \in Present THEN [present |-> FALSE, at |-> Due.at] ELSE presence[p]]
  /\ Continue(Rest, Onlines)
  /\ UNCHANGED <<gameVars, queue, log, failures, excused>>

\* write_rejoins: everyone in the snapshot is present ..
MarkOnline ==
  /\ stage = "mark"
  /\ presence' = [p \in Players |->
       IF p \in Due.players THEN Upsert(p, TRUE, Due.at) ELSE presence[p]]
  /\ stage' = "rejoin"
  /\ UNCHANGED <<gameVars, queue, batch, todo, log, failures, excused>>

\* .. gets the join that was missed ..
LogRejoins ==
  /\ stage = "rejoin"
  /\ log' = log \cup {Record(p, "j", "r", Due.at) : p \in MissedJoins(Due.players)}
  /\ stage' = "leave"
  /\ UNCHANGED <<gameVars, queue, batch, todo, presence, failures, excused>>

\* .. everyone else who is present left unseen ..
LogMissedLeaves ==
  /\ stage = "leave"
  /\ log' = log \cup {Record(p, "l", "r", Due.at) : p \in Stale(Due.players)}
  /\ stage' = "retire"
  /\ UNCHANGED <<gameVars, queue, batch, todo, presence, failures, excused>>

\* .. and is not present any more.
RetireStale ==
  /\ stage = "retire"
  /\ presence' = [p \in Players |->
       IF p \in Stale(Due.players)
       THEN [present |-> FALSE, at |-> Due.at] ELSE presence[p]]
  /\ Continue({}, Rest)
  /\ UNCHANGED <<gameVars, queue, log, failures, excused>>

\* A statement fails: flush reports it and the rest of the batch is gone.
Fail ==
  /\ stage # "idle"
  /\ failures < MaxFailures
  /\ failures' = failures + 1
  /\ excused' = Players
  /\ Done
  /\ UNCHANGED <<gameVars, queue, dbVars>>

-----------------------------------------------------------------------------
Game ==
  \/ \E p \in Players : Arrive(p) \/ Depart(p) \/ Announce(p)
  \/ RestartCountdown
  \/ GoQuiet

Reconcile == ReadTab \/ QueueOnline

Write ==
  \/ Flush \/ WriteEvents \/ WritePresence
  \/ LogRestart \/ ClearPresence
  \/ MarkOnline \/ LogRejoins \/ LogMissedLeaves \/ RetireStale

PresenceStep == Game \/ Reconcile \/ Write \/ Fail

-----------------------------------------------------------------------------
(* Properties.                                                             *)

Settled == queue = <<>> /\ stage = "idle" /\ snapshot = {}

\* Once everything is written, player_presence (what online_now shows) is the
\* tab list, but for players with a row spoiled by one of: a batch of markers
\* only, an event that overtook a restart or a reconcile of its own batch, a
\* tab list that changed before the reconcile was queued, a failed statement.
PresenceAccounted ==
  Settled => \A p \in Players \ excused : presence[p].present <=> p \in tab

\* Two joins of p in the log with no leave between them.
DoubleJoin(p) ==
  \E r, s \in log :
    /\ r.player = p /\ s.player = p /\ r.type = "j" /\ s.type = "j" /\ r.at < s.at
    /\ ~\E t \in log : t.player = p /\ t.type = "l" /\ r.at <= t.at /\ t.at <= s.at

\* Reconciling never gives a player whose join is in the log a second one,
\* with the same exceptions ("keeps this from double counting", db.rs:1046).
JoinsAccounted == tabJoins => \A p \in Players \ excused : ~DoubleJoin(p)

\* "running it forever is cheap and self-correcting" (main.rs:420): whatever
\* was lost or reordered, presence ends up as the tab list.  The pass leaves
\* at once when the list is empty, so this is only so while somebody is on.
SelfCorrecting == <>[](tab # {} => Matches)

=============================================================================
