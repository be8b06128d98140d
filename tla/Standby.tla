------------------------------ MODULE Standby ------------------------------
(***************************************************************************)
(* Hot standby: several logger processes sit on one server, each upserts a *)
(* heartbeat row, and a standby writes only while it finds no primary row  *)
(* that is connected and fresh (standby.rs, Db::heartbeat,                 *)
(* Db::primary_is_live, Db::clear_heartbeat and the Writer's gate).        *)
(*                                                                         *)
(* Time passes in Tick alone and waits for every ticker that is due and    *)
(* every shutdown under way: the model has no scheduling delay and no slow *)
(* database, only statements that fail.  A process that stalls is one that *)
(* is killed and started again.                                            *)
(***************************************************************************)
EXTENDS Integers, FiniteSets

CONSTANTS
  Primaries,   \* loggers with LOGGER_ROLE=primary
  Standbys,    \* loggers with LOGGER_ROLE=standby
  Interval,    \* standby::Config.interval (HEARTBEAT_SECS)
  Takeover,    \* standby::Config.takeover_after (STANDBY_TAKEOVER_SECS)
  MaxErrors,   \* bound: statements the database fails in a behaviour
  MaxStarts    \* bound: process starts in a behaviour

ASSUME StandbyAssumption ==
  /\ Primaries \cap Standbys = {}
  /\ Interval \in Nat \ {0}
  /\ Takeover \in Nat
  /\ 2 * Interval <= Takeover   \* HEARTBEAT_SECS is clamped to takeover / 2
  /\ MaxErrors \in Nat
  /\ MaxStarts \in Nat

Loggers == Primaries \cup Standbys

VARIABLES
  process,     \* down, up, closing (Ctrl+C seen), cleared (clear_heartbeat done)
  connected,   \* Services.connected
  limbo,       \* Services.in_queue_limbo
  gate,        \* Writer.active
  step,        \* where the heartbeat loop is: waits, checks, beats
  due,         \* time since its ticker last fired
  snap,        \* Snapshot.connected, taken when the ticker fired
  row,         \* logger_heartbeats: connected, and age = now() - updated_at
  errors,      \* statements failed so far
  starts,      \* process starts so far
  overlap,     \* history: how long two loggers have been logging at once
  gap          \* history: how long nobody has, with a standby in the game

standbyVars == <<process, connected, limbo, gate, step, due, snap, row, errors, starts,
          overlap, gap>>

-----------------------------------------------------------------------------
Alive(l) == process[l] # "down"

\* What l sees in the game goes to the log: Writer.logging() and not
\* suppress_public_feed().
Logging(l) == Alive(l) /\ connected[l] /\ gate[l] /\ ~limbo[l]

\* Mutant: a row counts as fresh for a whole interval longer.
FreshTooLong(l) == row[l].age < Takeover + Interval

\* Mutant: a row is fresh only within one heartbeat interval.
FreshOneInterval(l) == row[l].age < Interval

\* updated_at > now() - make_interval(takeover)
Fresh(l) == row[l].age < Takeover

\* Db::primary_is_live.
LivePrimaries(l) == {p \in Primaries \ {l} : row[p].connected /\ Fresh(p)}

\* should_write
ShouldWrite(l) == snap[l] /\ LivePrimaries(l) = {}

\* The gate a writer is spawned with: !role.is_standby()
InitialGate(l) == l \in Primaries

-----------------------------------------------------------------------------
StandbyInit ==
  /\ process = [l \in Loggers |-> "down"]
  /\ connected = [l \in Loggers |-> FALSE]
  /\ limbo = [l \in Loggers |-> FALSE]
  /\ gate = [l \in Loggers |-> FALSE]
  /\ step = [l \in Loggers |-> "waits"]
  /\ due = [l \in Loggers |-> 0]
  /\ snap = [l \in Loggers |-> FALSE]
  /\ row = [l \in Loggers |-> [connected |-> FALSE, age |-> Takeover + Interval]]
  /\ errors = 0
  /\ starts = 0
  /\ overlap = 0
  /\ gap = 0

game == <<connected, limbo>>
loop == <<step, due, snap>>

\* main: the writer's gate starts closed for a standby; the ticker's first
\* tick is immediate.
Start(l) ==
  /\ process[l] = "down"
  /\ starts < MaxStarts
  /\ starts' = starts + 1
  /\ process' = [process EXCEPT ![l] = "up"]
  /\ gate' = [gate EXCEPT ![l] = InitialGate(l)]
  /\ step' = [step EXCEPT ![l] = "waits"]
  /\ due' = [due EXCEPT ![l] = Interval]
  /\ UNCHANGED <<game, snap, row, errors>>

\* Event::Login; in_queue_limbo stays as it is.
LoggerLogin(l) ==
  /\ process[l] = "up"
  /\ ~connected[l]
  /\ connected' = [connected EXCEPT ![l] = TRUE]
  /\ UNCHANGED <<process, limbo, gate, loop, row, errors, starts>>

\* note_queue_limbo: a chat line that looks like a queue message.
EnterQueue(l) ==
  /\ Alive(l)
  /\ connected[l]
  /\ ~limbo[l]
  /\ limbo' = [limbo EXCEPT ![l] = TRUE]
  /\ UNCHANGED <<process, connected, gate, loop, row, errors, starts>>

\* leave_queue_limbo
LeaveQueue(l) ==
  /\ Alive(l)
  /\ connected[l]
  /\ limbo[l]
  /\ limbo' = [limbo EXCEPT ![l] = FALSE]
  /\ UNCHANGED <<process, connected, gate, loop, row, errors, starts>>

\* Event::Disconnect; in_queue_limbo stays as it is.
LoggerDisconnect(l) ==
  /\ Alive(l)
  /\ connected[l]
  /\ connected' = [connected EXCEPT ![l] = FALSE]
  /\ UNCHANGED <<process, limbo, gate, loop, row, errors, starts>>

\* What a process leaves behind: its row, as it was.
Gone(l) ==
  /\ process' = [process EXCEPT ![l] = "down"]
  /\ connected' = [connected EXCEPT ![l] = FALSE]
  /\ limbo' = [limbo EXCEPT ![l] = FALSE]
  /\ gate' = [gate EXCEPT ![l] = FALSE]

\* Killed, its host lost, its database connection ended, or still offline
\* after RECONNECT_EXIT_SECS.
Kill(l) ==
  /\ Alive(l)
  /\ Gone(l)
  /\ UNCHANGED <<loop, row, errors, starts>>

\* Ctrl+C: end_session first ..
Interrupt(l) ==
  /\ process[l] = "up"
  /\ process' = [process EXCEPT ![l] = "closing"]
  /\ UNCHANGED <<game, gate, loop, row, errors, starts>>

\* .. then clear_heartbeat, while the heartbeat loop still runs ..
Clear(l) ==
  /\ process[l] = "closing"
  /\ process' = [process EXCEPT ![l] = "cleared"]
  /\ row' = [row EXCEPT ![l] = [connected |-> FALSE, age |-> 0]]
  /\ UNCHANGED <<game, gate, loop, errors, starts>>

\* .. then exit.
Exit(l) ==
  /\ process[l] = "cleared"
  /\ Gone(l)
  /\ UNCHANGED <<loop, row, errors, starts>>

-----------------------------------------------------------------------------
(* The heartbeat and takeover loop.                                        *)

\* ticker.tick() and snapshot().
Wake(l) ==
  /\ Alive(l)
  /\ step[l] = "waits"
  /\ due[l] >= Interval
  /\ due' = [due EXCEPT ![l] = 0]
  /\ snap' = [snap EXCEPT ![l] = connected[l]]
  /\ step' = [step EXCEPT ![l] = IF l \in Standbys THEN "checks" ELSE "beats"]
  /\ UNCHANGED <<process, game, gate, row, errors, starts>>

\* A standby asks for a live primary and moves its gate.
Check(l) ==
  /\ Alive(l)
  /\ step[l] = "checks"
  /\ gate' = [gate EXCEPT ![l] = ShouldWrite(l)]
  /\ step' = [step EXCEPT ![l] = "beats"]
  /\ UNCHANGED <<process, game, due, snap, row, errors, starts>>

\* The query fails: "keeping current state".
CheckFails(l) ==
  /\ Alive(l)
  /\ step[l] = "checks"
  /\ errors < MaxErrors
  /\ errors' = errors + 1
  /\ step' = [step EXCEPT ![l] = "beats"]
  /\ UNCHANGED <<process, game, gate, due, snap, row, starts>>

\* Db::heartbeat, with what the snapshot said.
Beat(l) ==
  /\ Alive(l)
  /\ step[l] = "beats"
  /\ row' = [row EXCEPT ![l] = [connected |-> snap[l], age |-> 0]]
  /\ step' = [step EXCEPT ![l] = "waits"]
  /\ UNCHANGED <<process, game, gate, due, snap, errors, starts>>

BeatFails(l) ==
  /\ Alive(l)
  /\ step[l] = "beats"
  /\ errors < MaxErrors
  /\ errors' = errors + 1
  /\ step' = [step EXCEPT ![l] = "waits"]
  /\ UNCHANGED <<process, game, gate, due, snap, row, starts>>

-----------------------------------------------------------------------------
\* A standby that could log.
Ready(l) == l \in Standbys /\ process[l] = "up" /\ connected[l] /\ ~limbo[l]

Several == \E l, m \in Loggers : l # m /\ Logging(l) /\ Logging(m)
Waits(l) == l \in Primaries /\ Alive(l) /\ connected[l] /\ limbo[l]

\* A primary that waits in the queue keeps the standby quiet by design of the
\* query; its silence is not counted here.
Missing ==
  /\ \E l \in Standbys : Ready(l)
  /\ ~\E l \in Loggers : Logging(l) \/ Waits(l)

\* Ages beyond the staleness window are not told apart.
Older(age) == IF age >= Takeover + Interval THEN age ELSE age + 1

Tick ==
  /\ \A l \in Loggers :
       Alive(l) => process[l] = "up" /\ step[l] = "waits" /\ due[l] < Interval
  /\ due' = [l \in Loggers |-> IF Alive(l) THEN due[l] + 1 ELSE due[l]]
  /\ row' = [l \in Loggers |-> [row[l] EXCEPT !.age = Older(@)]]
  /\ UNCHANGED <<process, game, gate, step, snap, errors, starts>>

\* Lengths are not measured past this.
Horizon == Takeover + (2 + MaxErrors) * Interval + 1

\* An overlap ends when one of the two stops, a gap when somebody logs or no
\* standby is there to do it; until then time lengthens it.
Measure(length, on, time) ==
  IF ~on THEN 0 ELSE IF length + time > Horizon THEN Horizon ELSE length + time

Act(l) ==
  \/ Start(l) \/ LoggerLogin(l) \/ EnterQueue(l) \/ LeaveQueue(l) \/ LoggerDisconnect(l)
  \/ Kill(l) \/ Interrupt(l) \/ Clear(l) \/ Exit(l)
  \/ Wake(l) \/ Check(l) \/ CheckFails(l) \/ Beat(l) \/ BeatFails(l)

StandbyNext ==
  \/ /\ \E l \in Loggers : Act(l)
     /\ overlap' = Measure(overlap, Several', 0)
     /\ gap' = Measure(gap, Missing', 0)
  \/ /\ Tick
     /\ overlap' = Measure(overlap, Several', 1)
     /\ gap' = Measure(gap, Missing', 1)

StandbySpec == StandbyInit /\ [][StandbyNext]_standbyVars

-----------------------------------------------------------------------------
(* Properties.                                                             *)

\* When a primary comes back both log until its heartbeat is out and the
\* standby has looked: two intervals, and one more for every statement that
\* fails.  "a blip talking to Postgres must not flip the gate" (standby.rs)
OverlapBounded == overlap <= (2 + errors) * Interval

\* However the primary went, the standby in the game logs once the last
\* heartbeat is stale and it has looked, and one interval later for every
\* statement that fails.
GapBounded == gap < Takeover + (1 + errors) * Interval

=============================================================================
