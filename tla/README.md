# Verification of mc-logger

mc-logger logs the chat, joins and leaves of Minecraft servers into PostgreSQL, fans the
same events out live over a TCP gateway, and shows them in Discord. This directory models
the parts of it whose correctness depends on the order in which concurrent things happen,
or on the order in which many cases are tried. The modules are checked with TLC on small
instances, and every safety property that the passing runs check, but one
(`RefusalsAccounted`), is also proved with TLAPS, for every instance. What else is left to
TLC alone is liveness.

Paths below are relative to the repository's root. `hub.rs` is
`terminal-client/src/hub.rs`, `lib.rs` is `mc-stream/src/lib.rs`, `main.rs`, `db.rs`,
`classify.rs`, `plugin_probe.rs`, `standby.rs` and `schema.sql` are in `azalea-bot/src`,
`bridge.rs` and `topic.rs` are in `mc-discord-bot/src/discord`, `chatbridge.rs` and
`command_channel.rs` in `mc-discord-bot/src/commands`, and `mod.rs` is
`mc-discord-bot/src/database/mod.rs`. The seeker's files are in `tools/server-seeker/src`.

## The system

    game server -- azalea-bot (logger) --+-- mc-stream --> terminal-client (gateway)
                                         |                     |  mc-stream
                                         v                     v
                                    PostgreSQL <---------- mc-discord-bot, mc-tail
                                                  SQL

    server-seeker -- the Internet          (a program and a database of its own)

| Component | State | Operations | Hard because | Module |
| --- | --- | --- | --- | --- |
| Gateway event stream (`hub.rs`, `lib.rs`, `bridge.rs`) | per key: sequence, ring of recent events, broadcast channel; per consumer: resume point, backfill, `last_sent`; at the other end `last_seq`, twice | ingest, backfill, subscribe, receive, lag and refill, deliver, break, restart | lock-free numbering, a bounded channel and a bounded ring, resuming by number after a break or a restart | `EventStream`, `Feed` |
| Gateway admission (`hub.rs`) | table of hubs, counters of a hub, idle time, each connection's state | accept, hello, limits, register, end, timeouts, maintain | checks and updates are separate steps of many tasks; peers die silently | `Gateway` |
| Say relay and stream publisher (`hub.rs`, `lib.rs`, `main.rs`) | queues on both sides of a connection, allowance, say channel, counted and subscribed loggers | say, relay, speak; publish, send, ingest; connect, cut, notice | each end learns later that the other is gone; counted before subscribed | `SayRelay` |
| Logger hot standby (`standby.rs`, `db.rs`, `main.rs`) | gate, heartbeat row, connected, queue limbo | heartbeat, take over, hand back, shutdown, crash | a lease in a database, timers, crashes, failed statements | `Standby` |
| Logger sessions (`db.rs`, `main.rs`) | sessions, presence, current id, limbo flag | start, name and supersede, end, sweep | handlers run at once, each holding the session id it read; other loggers sweep; restarts | `Sessions` |
| Logger game automation, plugin probe (`main.rs`, `plugin_probe.rs`) | where the bot is, walks, guards, timers, place in the queue, reported count, search state | login, spawn, disconnect, walk, guard, commands, probes, save | tasks outlive the connection they were started on, and await | `Game`, `LobbyWalk`, `QueueProbe`, `PluginProbe`, `GameSession` |
| Chat classifier (`classify.rs`, `main.rs`) | none | classify a line, write what it says | two dozen patterns in one order over texts of any server | `ChatLines` |
| Logger database writer (`db.rs`, `main.rs`) | channel, batch, caches; events, presence, names, players, totals | presence handlers, reconcile pass, batched statements, refresh | a batch is reordered by kind, statements fail half-way, caches of several writers, midnight | `LogWriter`, `PlayerBook`, `DayRollups`, `LoggerTables` |
| Archive (`schema.sql`) | live and archived rows of a day, partitions | count, copy, verify, delete, drop | loggers still insert; ids are not commit order; runs overlap | `DayArchive` |
| Discord bridge, polled (`bridge.rs`, `mod.rs`, commands) | three cursors, in memory and stored; rows remembered as posted | start, tick (feed and watchlist), commands, failures | ids commit out of order, commands and ticks share cursors, posting and storing are not one step | `PollFeed` |
| Discord bridge, live (`bridge.rs`, `topic.rs`, `mod.rs`, `chatbridge.rs`, `command_channel.rs`) | settings and routes, batches, the last topic, the link's notices, the command channel | batch, post, retry, edit, watch, announce, commands and panels | statements of commands and of the feed interleave; Discord fails, lags and answers late | `FeedRoutes`, `FeedBatches`, `FeedTopic`, `FeedLink`, `CommandGate`, `LiveBridge` |
| server-seeker (`tools/`) | rows of servers, permits, tasks | passes of masscan, domains, ranges; rescan | one failure ends a pass, a limit starves, duplicate rows | `Seeker` |
| Queries, embeds, `mc-tail`, scripts, one-off tools | none to speak of | text in, text out | not hard to test | |

What makes each of the modelled ones correct:

- **Stream**: a subscriber is handed each event at most once; an event is skipped only if
  it was delivered; what can be lost between two delivered events is known; a live
  connection gets what waits for it.
- **Admission**: counters are right however connections end; the limit of a key holds, but
  for admissions that overlap; producer and consumer of a key meet on one hub; dead peers
  and unused hubs go.
- **Relay**: a line asked for is spoken at most once by a logger, in order, and what loses
  it is known; a logger's events arrive in order, or a break lost them.
- **Standby**: the time in which two loggers write, and the time in which none does, are
  bounded.
- **Sessions**: a logger in the game records under an open session, and has one.
- **Game**: what a task does belongs to the connection it does it on; a plugin search is
  made once a connection, from its own answers.
- **Classifier and writer**: what was said is stored as said by who said it; presence ends
  up as the tab list; no join is recorded twice; a player has the row of their account; a
  closed day's totals are those of its rows.
- **Archive**: every row is in exactly one of the two tables.
- **Polled bridge**: no cursor passes a row nobody dealt with; no row is posted twice
  without a reason; feeds catch up.
- **Live bridge**: what a channel shows is what the settings say of the stream, in its
  order; one channel's trouble is its own; topic and notices come to be true.
- **Seeker**: every target of a pass is asked, only those that were consented to; a server
  is stored once; a watch comes back to every stored server.

## Modules

`Feed` is the abstract feed: events are published, and each consumer is handed published
events, one at a time, never one twice. `EventStream` implements it: `Abstract == INSTANCE
Feed WITH published <- Len(stamp), delivered <- got`, and `FeedSpec` is both checked
(`stream_two_producers`) and proved (`ImplementsFeed`).

**EventStream** models one server key. `Stamp`, `Buffer` and `Send` are the three parts of
`Hub::ingest` that other tasks can come between; `Connect`, `Snapshot`, `Subscribe`,
`WriteFill`, `Receive`, `Lag` and `Refill` are `handle_client` and `Hub::run_consumer` up
to each of their awaits; `Deliver` is the subscriber's read followed by the bridge's
`accept_stream_event`; `Break` and `Restart` end a connection and the gateway. The ring
and the broadcast channel are kept as their history with a position, as tokio keeps them.
Events are their order of stamping, and `stamp` holds the number each was given: these
differ as soon as the gateway has restarted or its clock stepped back.

**Gateway** models `Gateway::serve`, `handle_client`, `hub_for` and `maintain`. A
connection goes `hello`, `found` (it holds an `Arc<Hub>`), `greeting` (past the limit
check), then `producer` or `consumer` (its `ClientGuard` counts it). A peer is `live`,
`closed` or `gone`, the last being one that vanished silently.

**SayRelay** models what the two ends of a connection do while each thinks the other is
there. To its own end a connection is `up`, `cut` or `down`; a gateway's end that has not
noticed is a ghost, which is counted and swallows what is written to it. Says go from an
asker's outbox (`Offer`, `SendSay`) through the allowance and `relay_say` (`ReadSay`) to
every logger's channel, wire and ear (`WriteSay`, `HearSay`, `Speak`); events go from the
publisher's channel (`Publish`, `SendEvent`) to `Ingest`. A behaviour looks at one
direction.

**Standby** models the loggers' processes, `standby::spawn`'s loop (`Wake`, `Check`,
`Beat`), `Db::heartbeat`, `primary_is_live` and `clear_heartbeat`, and the events of the
game that change what a heartbeat says. `Tick` is the only action that takes time, and
waits for every ticker that is due. `overlap` and `gap` measure how long two loggers, or
none, have been writing.

**Sessions** models a logger's session rows: its start (`ClearHeartbeat`, `CloseStale`,
`OpenFirst`), the events of the game up to the first await of their handlers (`Login`,
`Spawn`, `Disconnect`, `EnterQueue`, `LeaveQueue`), and the statements the handlers then
send one by one (`Insert` and `Store` of `start_session`, `NameSession` to
`DropSuperseded` of `set_bot_username`, `EndSession` and `DropPresence` of `end_session`),
which interleave. A behaviour follows the history and the rows of one session, `watched`,
which is any; and it has rows or heartbeats, which meet only in the sweep's condition.

**GameSession** composes `LobbyWalk`, `QueueProbe` and `PluginProbe`, which share the
connections of `Game`: every login, spawn and disconnect is a step of all. `mode` is the
configuration a behaviour has. `LobbyWalk` has the portal walk (`StartWalk` to `EndWalk`),
the guard that keeps a bot in the lobby (`Judge`), the startup commands and the timer of a
disconnect (`StartTimer` once `end_session` has returned, `Expire`). Walk and guard know
only what the code looks at, which is `view`, the bot's height and whether a portal is in
sight, and the distance to a portal they saw; `where` the bot really is only the model
knows. `QueueProbe` has the handlers that read a place or a count and
await a statement (`ReadPlace`, `AnswerPlace`, `ReadCount`, `WriteCount`). `PluginProbe`
has the tick that asks for completions, asks in chat, and takes the state out to save it
(`ProbeTick`, `SaveScan`), and the packets that add to it.

**LoggerTables** composes what a logger does with a line and with the tables behind it; a
behaviour follows one part, since the parts write different tables:

- `ChatLines`: `classify`, whose patterns are an ordered tuple, and `handle_chat`. Every
  kind of line that the code can tell apart is an initial state, with what really
  happened, which only the properties look at.
- `LogWriter`: the presence handlers of `main.rs` and the writer task with one action for
  each SQL statement of `write_batch`. `tabJoins` chooses which of the two sources, tab
  list or chat, owns joins and leaves.
- `PlayerBook`: `resolve_names`, `touch_players` and `write_ranks` statement by statement,
  with the caches of each writer, for several writers, names that change hands, restarts
  and `RESET_DB`.
- `DayRollups`: `refresh_rollups` once a minute, over midnight.
- `DayArchive`: `archive_chat_day` and `drop_empty_partitions`, statement by statement,
  beside inserts that take an id and commit later, and other runs.

**PollFeed** models the bridge of a server without a gateway: `Start`, the tick of the
side loop split at each of its awaits (`Tick` .. `StorePresence` for `deliver_feed`,
`FetchHits` .. `StoreWatch` for `deliver_watchbridge`), the slash commands that change
settings and cursors, and the loggers' transactions. `send_embeds` is the same for both:
message after message is posted and answered so (`Post`), posted but answered with an error
and so tried again (`PostUnsure`), or given up with the rest of its channel (`PostFails`),
until none is left (`PostDone`). `TickFails`, `StoreFails`,
`SkipFails` and `Crash` are its error paths. The two halves of a tick share only the
tables, so a behaviour looks at one.

**LiveBridge** composes the bridge's parts in stream mode, of which again a behaviour
follows one:

- `FeedRoutes`: the row of settings and the routes, written by every command and by the
  panel (each a list of statements that commit one by one), by the start, and by the feed
  itself, which inserts what is missing before it reads.
- `FeedBatches`: `Take` to `MoveFeedCursor`, a batch of stream events from the channel to
  the messages, each of which is the set of its rows, shown in the stream's order, with
  Discord's permanent and passing errors and answers that are lost.
- `FeedTopic`: the updates of the side loop and of commands, one at a time by `Inner`'s
  lock, and Discord's edit.
- `FeedLink`: the watcher with its count of misses, and the announcement after a reconnect
  to Discord.
- `CommandGate`: the row and the variable of the command channel.

**Seeker** models the passes of each mode in the order of a cycle, the tasks of a pass
with its permits, both stores' way to save a row, and the rescan. `setup` is the
configuration; what is refused at the start (`Refused`) is part of it. A pass may end before
it has asked anybody (`CannotStart`, `MasscanFails`), a lookup that fails leaves the tasks
of its pass running as strays (`ResolveFails`), and the connection to PostgreSQL, once lost,
is lost (`LoseStore`).

The proofs are in `EventStreamProofs`, `GatewayProofs` (Gateway and SayRelay), `LoggerProofs`
(Standby and GameSession), `SessionsProofs`, `LoggerTablesProofs`, `PollFeedProofs`,
`LiveBridgeProofs` and `SeekerProofs`. `MCx` instantiates `x` for TLC.

### Histories and exceptions

Several properties hold only up to an exception, and the exception is a variable that
records exactly when the code allows it. They are the interesting part of the results, so
here they all are. They came from TLC's counterexamples to the properties without them.

Gateway and relay:

- `slipped` (`FeedAccounted`): an event broadcast between the backfill's snapshot
  (`hub.rs:782`) and the subscription (`hub.rs:838`) is in neither. `lib.rs:695` promises
  "no gap". It is closed only by a later resume.
- `Overtook` (`SkipsAccounted`): with two producers on a key an event can enter the ring
  or the channel after one with a larger number (`hub.rs:626-637`), and `run_consumer`
  then skips it. The same property allows for a gateway whose clock stepped back: the
  resume point is then ahead of everything new (`lib.rs:889-897` forgets it, but the hello
  carrying it has been sent). And it allows for an event that has left the ring while it
  waits in the channel, for which the ring has to be smaller than the channel, as it is by
  default (500 and 1024): a refill (`hub.rs:862`) then begins behind it. This last exception
  was found by the attempt to prove the property without it; TLC finds the behaviour with
  5 events and a ring of 2 or 3.
- `RefusalsAccounted`: the subscriber forgets its number when the gateway's new one is
  smaller, as it would "discard everything it sends as already seen" (`lib.rs:893-897`); the
  bridge's `last_seq` (`bridge.rs:997`) is never forgotten. After a restart with a clock that is behind, the
  bridge so refuses what the subscriber takes, until the numbers have caught up. Besides, it
  refuses only what a later event overtook inside `Hub::ingest`.
- `crowded` (`LimitAccounted`): the limit check (`hub.rs:359`) is not one step with
  `ClientGuard::new`, so clients that greet at once pass it together.
- `orphaned` (`OrphansAccounted`): `maintain` (`hub.rs:187`) may drop a hub between
  `hub_for` and the `ClientGuard` of the task that looked it up; producer and consumer of
  a key are then on different hubs until one reconnects.
- `excused` (`SaysKept`): says written to a connection that was cut or waiting on it,
  relayed when every logger was counted but none subscribed (`hub.rs:680`, `751`), beyond
  the allowance, pushed out of a full say channel, refused, or heard outside the game. The
  allowance is a window that starts over (`hub.rs:815-821`), per connection: `RateKept`
  bounds a minute by twice the allowance, while `terminal-client/README.md:100` has "Lines
  one client may relay into the game per minute".
- `dropped` (`UplinkKept`): events the publisher wrote, or took from its channel, before
  it noticed that its connection was gone (`lib.rs:651`).

Logger:

- `Waits` (`GapBounded`): the standby asks whether the primary is connected, not whether
  it writes (`db.rs:431` says "connected, logging"), so a primary in the queue's limbo
  keeps it quiet for as long as it waits. After a clean shutdown the bound is the
  staleness window too: a heartbeat under way can write the row back after
  `clear_heartbeat` (`main.rs:514`), while `db.rs:456-457` says a standby takes over
  "immediately".
- `excused` (`LogAccounted`): a player whose row was in a batch of markers only
  (`write_events` returns at `db.rs:936` before it writes presence, against
  `db.rs:920-921`), was overtaken in its batch by a row of another kind, changed between
  the reconcile's reading and its queueing, or was in a batch that failed. `db.rs:971`
  promises newest-wins and `db.rs:1045` no double counting.
- `cause` (`SessionsAccounted`, `LeftoversAccounted`): `main.rs:57-60` tells of a logger
  that recorded under a closed session, with `online_now` empty while it was connected. It
  still does if `start_session` fails after a reconnect; if an attempt to connect fails
  before the first login, since `Disconnect` ends the session only later logins would
  replace (`main.rs:585`, `702`); if a Spawn is handled while a session is being opened,
  since it then names the old row and supersedes the new (`db.rs:508-519`); and if another
  logger starts before the first heartbeat that says connected, since nothing yet shows
  the sweep that somebody uses it (`db.rs:270-273`). `db.rs:505-506` says "One live
  session per bot username"; after a disconnect in the queue there are two, as the limbo
  flag keeps `note_queue_limbo` from ending the second connection's session and
  `leave_queue_limbo` opens another (`main.rs:776`, `797`); the next Spawn ends it. Rows
  the writer still had, and sessions that were swept, keep their presence.
- `mark` (`TasksAccounted`): `in_main_world` is wrong for four reasons. A bot that is as
  high as the ground and sees no portal is taken to be in the main world already
  (`main.rs:1992-1997`), be it in a lobby whose chunks have not come or falling past that
  height. The portal was found from farther away than the distance that counts as having
  left ("Returns whether the bot is confirmed to have left", `main.rs:1985-1987`), or the
  bot came as far on its way to it; or it was seen in the main world, and the bot put into
  the lobby since (`main.rs:2030-2037`); `mark.saw` and `mark.portal` record these. And the
  server may have moved the bot back since (`mark.moved`), as only a disconnect takes
  `in_main_world` back. "Each command
  goes exactly once per session" (`main.rs:1907`) holds for the tasks of that session; one
  of an earlier connection goes on. The queue probe disconnects the connection it finds
  after its statement, not the one whose place it read (`main.rs:1022-1040`). The timer of
  an earlier disconnect may end a later one early (`main.rs:712`): `OfflineBounded` is an
  upper bound.
- `silenced`, `restarted` (`ScansAccounted`): the save of an earlier search marks the
  shared state as saved after an await (`main.rs:1714`), and so ends the search of a new
  connection; a spawn during a save, or after one that failed, starts a second one.
- `LinesAccounted` has its exceptions in its parts. Names with the proxy's star are
  accepted by the patterns and refused by `clean_named`; names made of the letters of
  colour codes are refused in lines that have some; chat that the server repeats as a
  system line may read like a death, a notice or a countdown. `classify.rs:569` says of
  the countdown that player chat cannot trigger it, which holds for player packets only.
  `Snatched`: the arrow pattern (`classify.rs:151-156`, `793`) takes whatever comes before a
  name for a rank, and is tried before the one for "Name: text", so that "Foo: Bar ➤ hi",
  typed by Foo, is stored as said by Bar; the same goes for a line in the arrow's own format
  and, if the name is refused there, in the cute one. The cute pattern misses a line of its
  own format without a rank whose text begins like "Name:". And a notice that is written
  like chat ("Shop » ...") is stored as said by whom it names.
- `spoiled` (`PlayersAccounted`): a writer that has not seen a player's uuid itself, be it
  a fresh process or a second logger, replaces the real row by a made-up one ("A real
  Mojang uuid wins", `db.rs:1238`; `schema.sql:70`), with its rank and first sighting; a
  row that replaces another has no rank until the rank changes, as the cache says it was
  written (`db.rs:1304`); a name that changes hands is known for good; two writers on one
  name, or one uuid under two names in a batch, make the statement fail; a reset database
  invalidates the ids other loggers hold.
- `unclosed` (`DaysAccounted`): "closed out exactly once after midnight" (`db.rs:694`)
  fails when everyone who was to close the day restarted, failed to or came a day late,
  and when a row is flushed after the day was closed.
- `late`, `beside` (`DaysAccounted`): `schema.sql:459-461` says that bounding the delete
  by the highest id seen protects what lands between the copy and the delete. It does not
  protect a row that has taken an earlier id and commits after the copy, nor one that
  commits between `drop_empty_partitions`' count and its DROP. Two runs side by side can
  pack a day twice, as no constraint forbids it (`schema.sql:657-658`: "safe to run from
  cron as often as you like"). A row that comes after its day was packed stays live for
  good, and keeps its month's partition.

Discord bot:

- `passed`, `late`, `lost`, `unread`, `replayable` (`CursorsAccounted`,
  `ReplaysAccounted`): rows that a command, a pause or the first start meant to skip; rows
  that committed after one with a higher id (the cursor is an id, ids are taken before the
  commit); rows whose post failed or that were left marked as posted, which is what a
  query that fails after `unique_presence` does (`bridge.rs:776`, `923`); hits written
  between reading the hits and moving the watchlist's cursor to the sequence's last value
  (`bridge.rs:851`, `878`); rows whose post no cursor survived.
- `unsure` (`ReplaysAccounted`): a message that was posted although the answer was an error
  is posted again by the next attempt of `send_embeds` (`bridge.rs:944-979`), so that its
  rows are shown twice with no cursor set back.
- `filled` (`SettingsAccounted`): `get_event_routes` inserts the missing routes, shown
  (`mod.rs:248`, `271`). After `/chatbridge remove`, a delivery under way or an open panel
  so decides for every kind, and `set`, which only inserts what is missing, leaves it so,
  against `.env.example:39-40`. `quiet`: "Nothing will post until `/chatbridge set`"
  (`chatbridge.rs:303`) ends with a restart that finds `BRIDGE_CHANNEL_ID`
  (`bridge.rs:180-194`).
- `raced` (`SettingsAccounted`): two administrators who set the command channel at once
  may leave the one's in the row and the other's in the variable
  (`command_channel.rs:42-48`).
- `off`, `failed`, `broken`, `repeats`, `unsure` (`BatchesAccounted`): batches that met a
  paused feed, batches that a query failed for (`bridge.rs:574`: they are gone, as they
  were taken from the channel), a channel Discord refused, repeated joins, and messages
  that were posted although Discord's answer was an error, which are posted again.
- `cachedFor` (`TopicAccounted`): the text of the last topic is kept without the channel
  it was set in (`topic.rs:142`), so that a feed that moves keeps its new channel's topic
  until the minute in the text has passed.
- `silenced`, `overtaken` (`FeedKeepsUp`): notices that came while the feed was paused are
  not made up for; the announcement after a reconnect to Discord may come after the notice
  of a later change (`bridge.rs:368-385`, `433`).

Seeker:

- `aborted` (`PassesAccounted`): a masscan pass ends where its configuration is missing,
  masscan does not start or exits with an error, whatever it has found by then, or a hit
  does not answer or cannot be saved (`masscan.rs:29-69`); a seed that does not resolve ends
  the domain pass (`domains.rs:57`); a range that does not parse, or a `SEEKER_LIMIT` that
  leaves none, ends the CIDR pass with nobody asked (`main.rs:406-409`, `490`), which
  `validate_config` has not looked at; and a rescan ends if `list_servers` fails
  (`rescanner.rs:31`). The other passes of the cycle are run all the same.
- `lookups` (`PassesAccounted`): the tasks that a failed lookup leaves running have the
  permits of their own pass. The cycle and the interval wait for none of them
  (`main.rs:263`), so that each further lookup that fails may add as many.
- `RowsAccounted` makes an exception for SQLite without queries: `matched_query` is NULL,
  NULLs are distinct in its UNIQUE constraint, and every save inserts another row. The model
  keeps the first and the last of a host's rows without a query.
- `Stalled` (`RescanReaches`): what does not answer, matches no query any more or is an
  IPv6 address in brackets stays at the head of the list; as many of these as the limit
  keep the rest from being asked ever again (`db.rs:53-71` of the seeker). So does, in
  SQLite, the first of a host's rows without a query, whose age is the host's.
- `lost` (`RescanReaches`): the client of PostgreSQL is made once (`pg.rs:19-23`). When its
  connection breaks, the watch goes on, but every rescan fails from then on and nothing is
  stored.

## Runs

| Run | Question | Bounds |
| --- | --- | --- |
| `stream_single` | One producer, ring larger than the channel: are skips sound, does the bridge show all it gets, is loss accounted for, is what waits delivered? | 4 events, ring 3, channel 2, replay 2, one restart |
| `stream_two_producers` | Interleaved ingest and a clock behind: at most once, skips accounted for, what the bridge refuses, the refinement of `Feed`, and the inductive invariant of the proofs | 3 events, ring 2, channel 1, one restart, skew 1 |
| `stream_lag_refill` | finding | ring and channel 2, 5 events |
| `gateway` | Counters, the limit of a key, orphans; dead peers released, unused hubs dropped | 2 connections, 3 keys of which 2 are allowed, 1 key, 1 connection a key, 2 hubs |
| `relay` | What becomes of says and events over connections that break; order, rate, progress | a logger and an asker, 3 says or events, allowance and say channel 1, a minute of 2 ticks, 2 breaks |
| `standby_bounds` | How long do two loggers write, or none? | a primary and a standby, interval 2, staleness 4, one failed statement, 3 process starts |
| `sessions` | When is the session in use closed, when are there two, what does a restart or an end leave behind? | a logger and one that only sweeps, 3 sessions less failures, 2 starts, 1 failed statement, 2 handlers at once |
| `game` | What do the tasks of one connection do to the next? | 7 configurations, 2 connections, 2 spawns, one approach of a walk, 2 commands, 2 handlers, one failure |
| `writer` | Lines, presence and joins, players, totals and archive: what do the tables say in the end? | 2 players, 4 rows, batches of 3, one restart, pass and failure; 2 writers, 2 names, 2 uuids, 3 rows, one trouble; 3 days, 2 rows; 2 connections, 2 packing runs, 3 rows, one failure |
| `poll` | Loss, replay and progress of the polled feeds | 2 writers, one chat row, 2 events, pages of 1, one trouble, which may be a lost answer |
| `bridge` | Settings under concurrent commands, batches, topic and notices under Discord's errors | 2 administrators, 2 commands and one trouble; 2 events, 2 channels, batches of 2, 1 row a message, 2 attempts; 3 misses |
| `seeker` | Who is asked, what is stored, who is asked again? | 4 hosts (two private, one IPv6, one that matches no query, two stored before), every mode, both stores, one query, no limit or 2, 2 seeds, 2 permits, one trouble, one failed lookup |

Why the bounds are enough to be interesting: in the stream's runs the ring evicts and the
channel lags (more events than either holds), a refill and a reconnect both happen with
events waiting, and a restart leaves a resume point behind. In `gateway` the limit of a key
is reached and passed over, the table is full, the same socket is reused, and a key is
dropped and made again.
In `relay` two windows meet within a minute, the say channel overflows, and the second
break cuts the connection that replaced the first. In `standby_bounds` the interval is two
ticks, so a primary may change between two heartbeats, and the staleness window is the
smallest the configuration allows. In `writer` a batch can hold all three kinds of row;
two rows of one player can be with different writers, or in one batch; a refresh can begin
on one day and end on the next; three rows are what it takes for one to be copied, one
late and one behind the bound. In `game` a second connection is enough for a task to
outlive its own. In `poll` the two events commit in either order around every step, and
the page is full or empty at will. In `bridge` two commands interleave with a batch and a
restart. In `seeker` two hosts are stored before and the limit is two: the passes store
others, so that the list is longer than the limit, and one miss alone does not stall it. A
stray of the failed lookup meets every later pass, of its own cycle and of the next.

A "trouble" is one command, failed query, failed post, lost answer, failed cursor, lost
connection or crash. One per
behaviour is enough for each of them to meet every step and every order; in `poll`, two
were checked without the liveness property while the model was made and found nothing
more.

In `sessions`, two handlers at once cover every pair of a Login, a Spawn, a Disconnect and
the queue's two ends; three sessions are what the queue's case takes. A logger outside
`Active` stops after its sweep, the only thing it does to others' sessions. Three handlers
at once were checked with one start and no failure.

The compositions `LoggerTables`, `LiveBridge` and `GameSession` let a behaviour follow one
part. The parts of the first two read nothing of each other's state, and in the third they
share the events of the connection, so nothing is lost but the product of their states.

`CHECK_DEADLOCK FALSE` is set where a behaviour may end. In `gateway` every hub may be
used up and a v1 consumer whose peer vanished is never noticed; in `relay`, `writer`,
`poll`, `game`, `bridge` and `sessions` the outside world stops at the bound, and nothing
is left to be done; a seeker that refuses its configuration, or has made its one pass,
exits. The stream's and the standby's runs check deadlock.

### Fairness

- EventStream: `Hub::ingest` has no await, and tokio runs tasks that are ready, so the
  rest of an ingest, each consumer task and each subscriber loop are weakly fair.
  Producing, connecting, breaking and restarting are not.
- Gateway: tasks and timers (hello, ping, idle) fire, and housekeeping ticks every 30
  seconds (`terminal-client/src/main.rs:102`). What clients do is not fair.
- SayRelay: tasks that are ready run and the publisher connects for ever; breaks, says and
  events need not come. `Speak` is fair, as the bot takes what it hears in the game.
- LoggerTables: the flush ticker and the reconcile timer run for ever. `GoQuiet` is fair,
  which restricts `SelfCorrecting` to behaviours in which the game settles: presence
  cannot be right while the list keeps changing.
- GameSession: a disconnect that was requested takes effect, guards and handlers run, and
  the server sends its texts again and again. Logins, spawns and moves are not fair.
- PollFeed: the poll interval, a command's own steps, and the 15-second retry of
  `BridgeSet::start_all`. Loggers are bounded, so the feed can catch up.
- LiveBridge: tasks go on and every query and every request to Discord is answered, as
  both have timeouts. Strong fairness, where a lock or a failure can come between:
  `Inner`'s lock is tokio's, which is handed on in order; some reads of the numbers
  succeed; Discord takes some edits within the minute they are made in.
- Seeker: passes and pings go on; a ping has a timeout. What fails fails finitely often,
  but for a lost connection, which stays lost.
- Sessions has none: it has no liveness property, as nothing makes a player spawn.
- Standby has no fairness: its properties are bounds on time and `Tick` cannot pass a
  ticker that is due.

## Findings

- `stream_lag_refill`: with `buffer_cap` no larger than the broadcast channel, a lagging
  consumer's refill jumps `last_sent` over events still in its receiver, and the filter at
  `hub.rs:850` drops them as delivered. `SkipsOnlyDelivered` passes in `stream_single`,
  where the ring is larger than the channel.

The other disagreements between the code and what its comments say are the exceptions
above, with which the properties hold. Besides, and not modelled: `/chatbridge test` posts
even when the feed is paused; `BRIDGE_KINDS=goal` is dropped by `canonical_route_kind`;
the fallback of `route_channel` to the default kinds (`bridge.rs:43-47`) is never reached;
and the domain pass of the seeker runs without queries, so that its `seed:` branch is
never taken.

## Proofs

**EventStreamProofs**, from `StreamAssumption` (capacities are positive, the first
sequence number is positive), for any producers, consumers, capacities, clock skew and
bounds:

- `InvariantHolds`: `IInv` is invariant. `IInv` is `TypeOK`, `HubInv` (an event enters the
  ring once and the channel only after it; numbers do not exceed `seq`) and `ConsumerInv`
  (the resume point, `since` and `last_sent` each bound every event of this run that the
  consumer was handed, and what is still to be written from a backfill is neither on the
  wire nor handed over). "At most once" alone is not inductive: it says nothing about what
  is in the backfill, and a resume is only safe because `lastSeq` bounds what was handed
  over.
- `AtMostOnce` (`NoDuplicates`) and `TypeCorrect` follow.
- `ImplementsFeed`: the initial states and every step map to `Feed`'s.

- `SkipsAreDelivered` (`SkipsOnlyDelivered`) and `FeedIsAccounted` (`FeedAccounted`), for one
  producer (`OneProducer`) and a clock that does not step back (`ClockSkew = 0`). Neither
  holds without these: two loggers of one key race between number and ring, and a hub that
  restarts behind its consumers makes every new event look old; `SkipsAreAccounted` is what
  holds in those cases. `SkipsAreDelivered` also takes a ring larger than the channel. The
  default ring, 500 against a channel of 1024, does not have that, which is the finding of
  `stream_lag_refill`; `FeedIsAccounted` holds for any two sizes.
  The invariant is `OneInv`, beside `IInv`. `InOrder`: numbers, ring and channel have the
  events of this run in one order, at most one event is in the ring and not in the channel,
  and an eviction leaves a full ring. `InStep(c)`: the numbers that c goes by have been given
  out, none to an event that is still to enter the ring, and the wire is in order beyond the
  resume point. `Kept(c)`, the heart of it: whatever of the ring c's task is past, by number
  or by the channel, c has, or will be written from the vector, or it is excused (it slipped
  between snapshot and subscription, or is older than all that c has). `FillNewer(c)` is what
  keeps `Kept` through a backfill: a vector is newer than what was written, and leaves out
  only what the channel brought, or what was evicted.

- `SkipsAreAccounted` (`SkipsAccounted`), for any number of producers, any clock and any two
  sizes. Its last exception, that the event had left the ring, is not needed where the ring is
  larger than the channel by what the producers can have in hand at once; it is stated
  without that condition, as the defaults do not meet it. The invariant is `ManyInv`, beside
  `IInv`. The property speaks of what the receiver still has to bring, `ManyInv` of the ring,
  since a backfill and a refill take the ring and not the channel: what a task is past by its
  number, while its receiver is not, and the ring still has, the consumer has, or it was
  `Overtaken` by a larger number, or will be by one that waits before the channel (`Behind`),
  or is older than all that the consumer has (`Oldest`). `Marked(c)` says that the number a
  task goes by came from an event of this run, if the consumer has any of this run, and that
  what is out of order in a backfill or on the wire was overtaken. `Whole(c)` keeps the
  invariant through a backfill: it leaves out nothing of the ring before an event that it
  brings. `Numbered` has numbers in the order of stamping, within a run.

The proofs have one lemma for each action, and under it one step for each conjunct the
action can disturb.

**GatewayProofs**, from `GatewayAssumption` (finitely many connections and keys, allowed
keys are keys, limits are natural numbers):

- `GatewayTypeCorrect`, `PlacesCounted` and `LimitHolds`. They are proved
  together, from `GInv`: that a counter never goes below zero needs `Counted`; that a
  limit is only passed by overlapping admissions needs `RoomInv`, by which a hub that is
  not `crowded` keeps a place for the connection between the check and its guard. The
  lemmas `RunningSame`, `RunningGains` and `RunningLoses` say how the set counted changes
  when one connection moves.
- `OrphansExplained` (`OrphansAccounted`). It rests on `PlacesCounted`: a hub that maintain
  may drop counts nobody, so no connection runs on it, and those that hold it are being
  admitted; they are what `orphaned` records.

and of SayRelay, from `RelayAssumption`, for any loggers, subscribers, capacities,
allowance, window and bounds:

- `EventsKept` (`UplinkKept`), from `UplinkInv`: the events of a logger are in one order
  along its whole way (gateway, connection, queue), every stage ahead of the next, since an
  event that moves on is only in order at its new place if it was so at the old one.
- `RateLimited` (`RateKept`), from `RateInv`. The property looks at a sliding minute, the
  code at windows that begin with the first message after the last one has run out. `RateInv`
  therefore says where in the list of relays this window begins, and that of the relays before
  it all but `Allowance` are a minute older than its beginning.
- `SaysOnTheWay` (`SaysKept`), from `SaysInv` and `RateInv`: the lines of one subscriber are in
  order along the way to each logger, and each is on its way, spoken or excused. It needs
  `RateInv` because a line that is refused is excused only where the allowance was really
  used in the last minute, which is a fact about the window.

**LoggerProofs**, of Standby, from `StandbyAssumption`:

- `StandbyTypes`, for any primaries and standbys: types, and what each step of a monitor or
  a shutdown implies about the mode its process is in.
- `OverlapIsBounded` (`OverlapBounded`) and `GapIsBounded` (`GapBounded`), for one primary and
  one standby, which is how the code is deployed, and any interval, takeover time, number of
  starts, crashes and failed statements. `PairInv` bounds the measure by the clocks of the
  two loops: how long ago each has looked, and how old the primary's row is, with
  `Delay = errors * Interval` for the looks that failed. An overlap is then at most the age
  of the primary's start or heartbeat and the time the standby has not looked; a gap begins
  when the last heartbeat was already as old as the row is now.

and of GameSession, from the assumptions of its parts, for any number of connections, any
timings and bounds. `GameInv` has a part for each thing the tasks do:

- `OfflineIsBounded` (`OfflineBounded`), from `OfflineInv`: there may be timers of many
  disconnects, and one of them is as old as the last.
- `TasksKept` (`TasksAccounted`). `SayInv`: a connection's list of commands has one task, and
  whatever that task has said is behind where it is, so that nothing is said twice by one
  task. `PlaceInv`: while a connection lasts its place only becomes smaller, so that a handler
  of this connection that read a place of at most `LeaveAt` bounds the present one; one of an
  earlier connection does not, which is the exception. `MainInv` ties `in_main_world` to
  how the walk that set it ended, where the bot and the portal were then, and to the moves
  since.
- `ScansKept` (`ScansAccounted`), from `ProbeInv`. `Searching` says what is true of the present
  connection's search: it is under way from the login, and its clock is the connection's
  own, or it was taken and only a spawn starts another, or it is silenced. The searches that
  are being saved belong to connections that have been counted.

**SessionsProofs**, for any loggers on one database and any bounds:

- `SessionsKept` (`SessionsAccounted`) and `LeftoversKept` (`LeftoversAccounted`). The
  properties speak of a logger without a handler under way, and of one session, the
  watched one. `SessionInv` says what holds of it in between. `Closed`: a logger whose
  current session is closed, or is going to be, is about to have another (`Giving`: an
  insert or a store is under way, or the limbo or the next Login will start one), or a
  cause the property names has happened. `Beside`: what is open is current, is about to be
  stored, or an ending that will close it is under way; a session without its user's name is
  the current one of a start. `Dropped` and `Left` are the same for presence and for what an
  earlier run left. That a sweep spares a session needs the heartbeat: a session it has
  named connected (`beaten`) is protected as long as it is current.

**LoggerTablesProofs**, from `LogWriterAssumption`, `RollupAssumption` and
`ArchiveAssumption` (the bounds are natural numbers) and `MadeUpAssumption` (a uuid made up
from a name is of version 5, `db.rs:1386-1392`, an account's is not), for any writers, connections, packing
runs, players, days and rows. A step of the composition is one of a part's and leaves the
other parts alone (`PartsStep`), so each part has an invariant of its own.

- `DaysKept` (`DaysAccounted`): what a day leaves for good is right, but for the exceptions
  under "Histories and exceptions".
- `RollupsInv`: that totals are right or will be refreshed is not inductive alone, since a
  refresh looks at the clock in one step and rebuilds in another, with midnight between.
  `RefreshUnderWay` adds that a refresh began today or earlier, and starts with yesterday
  when it is its writer's first on a new day: what it does not reach, the next one does.
- `ArchiveInv`: `RowsArchivedOnce` speaks of committed runs, `ArchiveInv` of what a run holds
  before it commits: what it deletes it has copied or it came too late (`Copied`,
  `Covered`, `Emptied`), what it has copied and is still live it deletes (`Deletes`), and a
  run with the day in hand is alone and finds it unpacked (`Alone`, `Unpacked`), or it is
  one of the exceptions.
- `LogKept` (`LogAccounted`). The property speaks of a writer with nothing to do,
  `PresenceInv` of what is on its way. `Chain`: the rows of a player that are queued or not
  yet written lead from what presence shows to what the tab list shows, and each event among
  them changes what was shown before it; a row that is put adds a link (`ChainPut`), a row
  that is written takes the first away (`ChainWritten`, `ChainDue`). That the row written
  is the first is `DueFirst` and `MarksFirst`, which rest on the order of the queue
  (`InOrder`) and on nothing of the batch being written before an older row (`Orderly`):
  a player of whom that is not true is excused. The log is one statement ahead of presence
  or behind it, so `LogOf` speaks of what its statements have shown (`LoggedPresent`): a
  join is only written for somebody who was not shown, and that is why no other is open.
- `PlayersKept` (`PlayersAccounted`). The property speaks of idle writers, `BookInv` of what
  a cache and a row under way stand for. `IdsAgree`: an id that a writer remembers is the
  dictionary's, and once a batch is past its first statement all its names have one.
  `WornSoon`: whose name is in the book has it in `player_names`, or a writer is between the
  two statements. `UuidsRight`: a uuid in a row is that of the account that plays under the
  name and under no other, a writer that remembers a name as real has stored that row, and
  every name that was met with a uuid is stored or has a row with one on its way.
  `RankAlone` and `RanksRight`: one writer at most has ranks of a player in hand, the last
  of them is the latest shown, and a rank that is on nobody's way is in the book.
  `OnlySubject` says what a choice of `subject` leaves out, which the parts rest on. The parts
  hold of every name that is not `spoiled`.
- `LinesKept` (`LinesAccounted`). ChatLines has no constants and TLC explores all of it; the
  proof says why the order of the patterns is right. `LinesInv`: the rows are what
  `handle_chat` makes of one line. What `classify` makes of it is the first pattern of
  `Order` that fits (`ByFirstPattern`), and of every kind of line it is enough to know which
  patterns before it can fit: chat in angle brackets comes first (`TypedFacts`,
  `SpeechHandled`), and of the other formats only the arrow's names somebody whom the line
  quotes, so that nobody speaks for another unless it is tried before the line's own
  (`NobodyElse`); an announcement is read by
  its own pattern or is refused for its name (`AnnouncedFacts`, `HappeningHandled`); a notice
  names nobody (`NoticeFacts`, `NoticeHandled`).

**PollFeedProofs**, from `PollFeedAssumption`, for any number of loggers' connections, any
page sizes and bounds:

- `CursorsKept` (`CursorsAccounted`), from `LossInv`. The property speaks of rows, but a
  cursor is an id, and ids below it may belong to rows that are still to be committed. So
  the invariant speaks of ids: `Passable(f)` are those that are accounted for, will never be
  rows, or will be rows behind one that is there already, and this set only grows
  (`PassableGrows`), which is what survives crashes, commands and other transactions.
  `Stands`: all ids up to a cursor, in memory or stored, are passable. `Reads`: up to the
  place where a tick is going to move a cursor, ids are passable or among the rows it is
  about to post. It needs `PageReads`, by which a page holds every row before its last, and
  for the watchlist, whose cursor moves to the table's latest id, `ShortPage`, by which a
  page that is not full has all there is.
- `ReplaysExplained` (`ReplaysAccounted`), from `ReplayInv`: what is posted ahead of the
  cursor a feed goes on from (the stored one while the process is down) is replayable,
  except between a post and the move of its cursor (`Moving`), and then the move settles
  it; what a tick reads again is replayable by the time it is posted. A message that was
  posted and is tried again is in the page still, and its rows are `unsure` by then.

**LiveBridgeProofs**, from the assumptions of the composed modules, for any commands,
administrators, panels, updaters and channels:

- `SettingsKept` (`SettingsAccounted`), from `RoutesInv` and `GateInv`. A command is several
  statements, and what its end owes depends on what the others did since. So `Jobs` says
  which commands are under way and `Beside` that one without company knows of any other;
  `Inserted`, `Written` and `Cleared` say how far a command that is still alone has come:
  the missing rows are there, its value is in the row, the feed is off. `GoingToBe` covers a
  value that is asked for while its row may still be missing. `Silent` says that a feed that
  is quiet has no channel, so no reader can take one. `GateInv`: what is not yet stored
  equals the row, unless two administrators overlapped.
- `BatchesKept` (`BatchesAccounted`), from `BatchesInv`. `RowsInv`: the rows of a batch are later
  than all that was routed before, and than the join that is remembered. `FateInv` says,
  for each stage of a batch, which of its events still wait and that the others are shown or
  excused; what waits in a channel's outbox was routed there. `PostInv`: what a channel shows
  is earlier than what its outbox has left, or it is the very message that comes next, whose
  post was answered with an error. That a message takes the earliest rows of those that are
  left, however many they are, is `MessageFirst`: a row after which an earlier one stays
  would have as many before it as that one has, and one more.
- `TopicIsTrue` (`TopicAccounted`), an action property, from `TopicInv`: Inner's lock has one
  holder, who finds a cached text that is out of date (`OneEditor`), and a cached text that
  is current is shown in the channel it was set in, unless somebody has touched that
  channel's topic (`CachedIsShown`).

**SeekerProofs**, from `SeekerAssumption`, for any hosts, queries, seeds, limits and permits:

- `PassesKept` (`PassesAccounted`) and `ConsentKept` (`ConsentAccounted`), from `PassesInv`
  (`PassesInvariant`). The property looks at the end of a cycle, `Covered` at the pass under
  way: a target of it is asked or is still in `todo`, and those of the passes before it have
  been asked, unless the pass was cut short. `Permitted`: a task belongs to the pass under way
  or is a stray of a lookup that failed, and of the tasks of one pass there are at most as
  many as permits: a failed lookup makes a group of its own of those of its pass
  (`PermitsOf`), and no group gains a member but that of the pass under way. Nothing is
  assumed of how long strays last.
  `AskedByPasses` with `PassesAllowed` gives consent: who is asked is asked by a configured
  pass, and without consent only those that need none are entered.
- `RowsKept` (`RowsAccounted`), from `RowsInv`, which adds that no named host loses its row. A
  save moves a row to the end, so that the positions of the others change: `MovedFacts` and
  `UpsertedCases` say where each row of the new table was in the old one.

Only model-checked are `RefusalsAccounted`, which the bridge's number takes an invariant of
its own for, and the liveness properties: `LiveDelivery`, `PlacesReleased`, `RelayMoves`,
`SelfCorrecting`, `CatchesUp`, `GameMovesOn`, `RescanReaches` and `FeedKeepsUp`. The latter rest on
fairness and ENABLED, which the prover does not handle. The finding of `stream_lag_refill` is
TLC's too.

## Abstractions

- Contents of events, chat lines, embeds and SQL rows other than the fields the properties
  are about are left out.
- EventStream does not model pings and write timeouts, which end a connection (`Break`),
  and starts where an event has reached `Hub::ingest`; SayRelay ends there.
- Gateway's status listing and rate counters only read.
- SayRelay has one gateway task per connection end, and a say is a number; a connection
  that is cut loses what is on it in both directions.
- Standby has no slow database: a statement takes no time or fails.
- Sessions: a heartbeat is one step (Standby has its awaits); a row is recent or not at a
  sweep's choice; what a killed process had sent but the database had not run is not run;
  azalea's way of running each handler as a task of its own is an assumption about code
  outside the repository, as are a Login for every connection and a Disconnect also for an
  attempt without Login.
- GameSession: where the bot is and what the server sends is any; block coordinates are
  "near", "far" and "main"; timeouts are ticks. `enable_connection_msgs` and the anti-AFK
  movement are left out.
- ChatLines: a line is the format it was typed in, the set of patterns that match it, and a
  few flags; which texts a
  regular expression matches, and the templates of `custom_deaths.json`, are not modelled.
- LogWriter has the gate open, and no chat rows; PlayerBook has those.
- DayArchive follows the rows of one day, of which the archive has one bucket;
  `archive_events_day` is the same function over another table. Statements run in
  PostgreSQL's READ COMMITTED: each sees what is committed when it begins.
- PollFeed takes a row for its id and gives every event a player of its own, so that
  `unique_presence` can only drop a row it has seen; the time window of the queries (an
  hour behind the cursor's time) is left out, and the seeding of the cursors at the start
  is one step because a start that fails is repeated. In stream mode only the watchlist
  half runs.
- FeedRoutes follows one kind, since no statement but the DELETE of `remove` touches two;
  style and rainbow are left out. FeedTopic knows a text by its age.
- Seeker leaves out the rate limiter, which only delays, the order in which a pass asks its
  targets, the order newest first, masscan's own limit, the parsing of answers and the
  filter of addresses that comes after the limit. Of a host's rows in SQLite without a query
  it keeps the first and the last. `SEEKER_RESCAN_LIMIT=0`, which asks nobody, is left
  out: a limit of 0 in the model is none.

## Not modelled

- Queries, embeds and formatting of the Discord bot, `mc-tail` and `discord-scrape`: one
  request, one answer, over tables or a stream whose writing is modelled. What could be
  wrong in them is wording and layout, or a SQL expression over data TLA+ has no better
  notation for.
- Backfill, reclassify and discover: sequential one-off scripts over a finished log;
  `backfill.rs` calls itself not usable against the current schema.
- The views over live and archived rows (`schema.sql`): pure queries.
- The copies of `db.rs`, `plugin_probe.rs` and `schema.sql` beside `azalea-bot/src`, which
  nothing builds, and the scripts in TypeScript and Python.

## Plan

Done: every module and every proof above. Possible next steps, in this order: the status
listing and rate counters of the gateway, the seeker's `--limit` and rate limiter, and the
views over live and archived rows.
