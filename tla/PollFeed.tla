------------------------------ MODULE PollFeed ------------------------------
(***************************************************************************)
(* The Discord bridge of a server without an event gateway: every tick it  *)
(* reads the rows behind its cursors from the loggers' tables, posts them  *)
(* and moves the cursors, in memory and in discord_bridge_state; then it   *)
(* does the same for the watchlist.  Slash commands and the loggers run    *)
(* beside it.                                                              *)
(*                                                                         *)
(* A row is its id.  Every row is of a kind that is routed somewhere, and  *)
(* every event is a join or leave, of a player of its own, who is watched; *)
(* ids that are not rows of these kinds are transactions that roll back.   *)
(* The two halves of a tick have cursors of their own and share nothing    *)
(* but the tables they read, so a behaviour looks at one of them.          *)
(***************************************************************************)
EXTENDS Integers, FiniteSets, FiniteSetsExt

CONSTANTS
  Writers,          \* loggers' connections that insert rows
  RowsPerPoll,      \* config.bridge.max_rows_per_poll
  HitsPerTick,      \* WATCHBRIDGE_HITS_PER_TICK
  StartFromLatest,  \* config.bridge.start_from_latest
  MaxId,            \* bound: ids taken from each table's sequence
  MaxTroubles       \* bound: commands, failed queries and posts, lost answers, crashes

ASSUME PollFeedAssumption ==
  /\ RowsPerPoll \in Nat \ {0}
  /\ HitsPerTick \in Nat \ {0}
  /\ StartFromLatest \in BOOLEAN
  /\ MaxId \in [{"chat", "events"} -> Nat]
  /\ MaxTroubles \in Nat

Tables == {"chat", "events"}
Feeds  == {"chat", "presence", "watch"}
Polled == {"chat", "presence"}       \* the feeds of deliver_feed
Table(f) == IF f = "chat" THEN "chat" ELSE "events"

VARIABLES
  half,       \* the half of the tick looked at: feed or watch
  \* the loggers' database
  last,       \* the sequences: last id taken
  writing,    \* what each writer has inserted and not yet committed
  rows,       \* committed ids
  \* discord_bridge_state and discord_watchbridge_state
  enabled,    \* enabled, with a channel
  watching,   \* the watchlist has a channel
  stored,     \* the stored cursors
  \* Bridge
  bot,        \* is the process running
  cursor,     \* Inner: cursor, presence_cursor, event_cursor
  recent,     \* Inner.recent_presence and recent_watchbridge
  tick,       \* where the side loop's tick is
  active,     \* the settings it read: enabled
  fetched,    \* the rows it read and has not yet posted, for each feed
  goal,       \* where it will move each cursor, 0 for nowhere
  command,    \* where a command's skip_to_latest is
  latest,     \* the latest ids it read
  \* bounds and history
  troubles,   \* commands, failures and crashes so far
  posted,     \* rows posted, for each feed
  twice,      \* rows posted more than once
  passed,     \* rows somebody decided not to post
  late,       \* rows that committed after a row with a higher id
  lost,       \* rows whose post failed, or that a failure left marked as posted
  unsure,     \* rows posted by a request that was answered with an error
  unread,     \* events the watchlist's cursor passed without reading them
  replayable  \* rows whose post no cursor survived

dbVars      == <<last, writing, rows>>
settings    == <<half, enabled, watching>>
tickVars    == <<tick, active, fetched, goal>>
commandVars == <<command, latest>>
history     == <<posted, twice, passed, late, lost, unsure, unread, replayable>>
vars == <<dbVars, settings, stored, bot, cursor, recent, tickVars, commandVars, troubles, history>>

-----------------------------------------------------------------------------
NoRows == [f \in Feeds |-> {}]
NoGoal == [f \in Feeds |-> 0]
NoId   == [table |-> "chat", id |-> 0]
Upto(n) == 1..n

\* The first n of the ids in s.
First(n, s) == {i \in s : Cardinality({j \in s : j < i}) < n}

\* Mutant: the row a cursor stands on is fetched again.
FetchNewInclusive(f, n) == First(n, {i \in rows[Table(f)] : i >= cursor[f]})

\* fetch_new_messages, fetch_new_presence_as_chat, fetch_watchbridge_hits:
\* rows behind the cursor in the order of their ids, at most n.
FetchNew(f, n) == First(n, {i \in rows[Table(f)] : i > cursor[f]})

\* Mutant: a delivery moves its cursor to the newest row of the table.
AfterLatest(f) == last[Table(f)]

\* Where a delivery moves its cursor: to the last row it read.
After(f) == IF fetched[f] = {} THEN 0 ELSE Max(fetched[f])

\* The last hit of a full page, 0 if the page is not full.
PageEnd(hits) == IF Cardinality(hits) = HitsPerTick THEN Max(hits) ELSE 0

\* Mutant: a full page of hits is taken for all there is.
WatchGoalLatest == last["events"]

\* Where deliver_watchbridge moves its cursor: behind a full page to its last
\* hit, otherwise to the table's latest id.
WatchGoal == IF goal["watch"] # 0 THEN goal["watch"] ELSE last["events"]

\* unique_presence: the rows not taken for a repetition of what is remembered.
Fresh(f, kept) == IF f = "chat" THEN fetched[f] ELSE fetched[f] \ kept

\* The write lock of Inner is held from the first cursor's update to the last.
Locked == tick = "store presence"

\* The hits were read, and what commits now is not among them, though the
\* cursor will go by it.
Overlooking == tick \in {"watch mark", "watch post", "watch latest"} /\ goal["watch"] = 0

\* Rows that were posted and that cursors c would fetch again.
Behind(c) == [f \in Feeds |-> replayable[f] \cup {i \in posted[f] : i > c[f]}]

Trouble == troubles < MaxTroubles /\ troubles' = troubles + 1

-----------------------------------------------------------------------------
Init ==
  /\ half \in {"feed", "watch"}
  /\ last = [t \in Tables |-> 0]
  /\ writing = [w \in Writers |-> NoId]
  /\ rows = [t \in Tables |-> {}]
  /\ enabled = TRUE
  /\ watching \in {FALSE, half = "watch"}
  /\ stored = NoGoal
  /\ bot = FALSE
  /\ cursor = NoGoal
  /\ recent = NoRows
  /\ tick = "waits"
  /\ active = FALSE
  /\ fetched = NoRows
  /\ goal = NoGoal
  /\ command = "none"
  /\ latest = NoGoal
  /\ troubles = 0
  /\ posted = NoRows
  /\ twice = NoRows
  /\ passed = NoRows
  /\ late = [t \in Tables |-> {}]
  /\ lost = NoRows
  /\ unsure = NoRows
  /\ unread = {}
  /\ replayable = NoRows

-----------------------------------------------------------------------------
(* The loggers.                                                            *)

\* An INSERT takes the next id of the table's sequence ..
Insert(w) ==
  /\ writing[w] = NoId
  /\ \E t \in IF half = "feed" THEN Tables ELSE {"events"} :
       /\ last[t] < MaxId[t]
       /\ last' = [last EXCEPT ![t] = @ + 1]
       /\ writing' = [writing EXCEPT ![w] = [table |-> t, id |-> last[t] + 1]]
  /\ UNCHANGED <<rows, settings, stored, bot, cursor, recent, tickVars, commandVars, troubles, history>>

\* .. and its row is seen when it commits.
Commit(w) ==
  /\ writing[w] # NoId
  /\ LET t == writing[w].table
         i == writing[w].id
     IN /\ rows' = [rows EXCEPT ![t] = @ \cup {i}]
        /\ late' = IF \E j \in rows[t] : j > i THEN [late EXCEPT ![t] = @ \cup {i}] ELSE late
        /\ unread' = IF t = "events" /\ Overlooking THEN unread \cup {i} ELSE unread
  /\ writing' = [writing EXCEPT ![w] = NoId]
  /\ UNCHANGED <<last, settings, stored, bot, cursor, recent, tickVars, commandVars, troubles,
                 posted, twice, passed, lost, unsure, replayable>>

\* .. or its id is gone: a conflict, a rollback, or a row of no interest.
RollBack(w) ==
  /\ writing[w] # NoId
  /\ writing' = [writing EXCEPT ![w] = NoId]
  /\ UNCHANGED <<last, rows, settings, stored, bot, cursor, recent, tickVars, commandVars, troubles, history>>

-----------------------------------------------------------------------------
(* Bridge::start and the end of the process.                               *)

\* The feeds that start at the latest row because no cursor is stored.
SeededFromLatest ==
  {f \in Feeds : stored[f] = 0 /\ (f = "chat" => StartFromLatest)}

FirstCursor(f) == IF f \in SeededFromLatest THEN last[Table(f)] ELSE stored[f]

Start ==
  /\ ~bot
  /\ bot' = TRUE
  /\ cursor' = [f \in Feeds |-> FirstCursor(f)]
  /\ stored' = cursor'
  /\ passed' = [f \in Feeds |-> IF f \in SeededFromLatest
                                THEN passed[f] \cup Upto(last[Table(f)]) ELSE passed[f]]
  /\ UNCHANGED <<dbVars, settings, recent, tickVars, commandVars, troubles,
                 posted, twice, late, lost, unsure, unread, replayable>>

\* The process ends, and with it what it held in memory.
Crash ==
  /\ bot
  /\ Trouble
  /\ bot' = FALSE
  /\ cursor' = NoGoal
  /\ recent' = NoRows
  /\ tick' = "waits"
  /\ active' = FALSE
  /\ fetched' = NoRows
  /\ goal' = NoGoal
  /\ command' = "none"
  /\ latest' = NoGoal
  /\ replayable' = Behind(stored)
  /\ UNCHANGED <<dbVars, settings, stored, posted, twice, passed, late, lost, unsure, unread>>

-----------------------------------------------------------------------------
(* tick: deliver_feed, then deliver_watchbridge.                           *)

\* The settings are read; a paused feed only asks for the latest rows.
Tick ==
  /\ bot
  /\ tick = "waits"
  /\ active' = enabled
  /\ tick' = IF half = "watch" THEN "watch" ELSE IF enabled THEN "fetch" ELSE "latest"
  /\ UNCHANGED <<dbVars, settings, stored, bot, cursor, recent, fetched, goal, commandVars, troubles, history>>

\* latest_chat_cursor and latest_presence_cursor.
ReadLatest ==
  /\ tick = "latest"
  /\ goal' = [f \in Feeds |-> IF f \in Polled THEN last[Table(f)] ELSE 0]
  /\ tick' = "store chat"
  /\ UNCHANGED <<dbVars, settings, stored, bot, cursor, recent, active, fetched, commandVars, troubles, history>>

\* The cursors are copied and the rows behind them read.
Fetch ==
  /\ tick = "fetch"
  /\ fetched' = [f \in Feeds |-> IF f \in Polled THEN FetchNew(f, RowsPerPoll) ELSE {}]
  /\ tick' = IF \A f \in Polled : fetched'[f] = {} THEN "waits" ELSE "mark"
  /\ active' = (tick' = "mark")
  /\ UNCHANGED <<dbVars, settings, stored, bot, cursor, recent, goal, commandVars, troubles, history>>

\* deliver_routed_rows: repetitions within PRESENCE_DEDUP are dropped, the
\* rest is remembered ..
Mark ==
  /\ tick = "mark"
  /\ \E kept \in SUBSET recent["presence"] :
       /\ fetched' = [f \in Feeds |-> Fresh(f, kept)]
       /\ recent' = [recent EXCEPT !["presence"] = kept \cup fetched["presence"]]
  /\ goal' = [f \in Feeds |-> After(f)]
  /\ tick' = IF fetched' = NoRows THEN "post" ELSE "routes"
  /\ UNCHANGED <<dbVars, settings, stored, bot, cursor, active, commandVars, troubles, history>>

\* .. the routes are read ..
ReadRoutes ==
  /\ tick = "routes"
  /\ tick' = "post"
  /\ UNCHANGED <<dbVars, settings, stored, bot, cursor, recent, active, fetched, goal, commandVars,
                 troubles, history>>

\* .. and the rows posted, some of them to a message.
Posting == tick \in {"post", "watch post"}

Messages ==
  {m \in [Feeds -> SUBSET UNION {fetched[f] : f \in Feeds}] :
     m # NoRows /\ \A f \in Feeds : m[f] \subseteq fetched[f]}

Sent(m) ==
  /\ posted' = [f \in Feeds |-> posted[f] \cup m[f]]
  /\ twice' = [f \in Feeds |-> twice[f] \cup (m[f] \cap posted[f])]

Settled(m) == fetched' = [f \in Feeds |-> fetched[f] \ m[f]]

\* send_embeds: a message is posted, and answered so.
Post ==
  /\ Posting
  /\ \E m \in Messages : Sent(m) /\ Settled(m)
  /\ UNCHANGED <<dbVars, settings, stored, bot, cursor, recent, tick, active, goal, commandVars,
                 troubles, passed, late, lost, unsure, unread, replayable>>

\* A message is posted and yet answered with an error: it is not done with,
\* and its next attempt posts it once more.
PostUnsure ==
  /\ Posting
  /\ Trouble
  /\ \E m \in Messages :
       /\ Sent(m)
       /\ unsure' = [f \in Feeds |-> unsure[f] \cup m[f]]
  /\ UNCHANGED <<dbVars, settings, stored, bot, cursor, recent, tickVars, commandVars,
                 passed, late, lost, unread, replayable>>

\* An error that is permanent, or follows the last attempt, gives up the rest
\* of the message's channel and leaves the cursors alone.
PostFails ==
  /\ Posting
  /\ Trouble
  /\ \E m \in Messages :
       /\ lost' = [f \in Feeds |-> lost[f] \cup m[f]]
       /\ Settled(m)
  /\ UNCHANGED <<dbVars, settings, stored, bot, cursor, recent, tick, active, goal, commandVars,
                 posted, twice, passed, late, unsure, unread, replayable>>

\* Every message was posted or given up.
PostDone ==
  /\ Posting
  /\ fetched = NoRows
  /\ tick' = IF tick = "post" THEN "store chat" ELSE "watch latest"
  /\ UNCHANGED <<dbVars, settings, stored, bot, cursor, recent, active, fetched, goal, commandVars,
                 troubles, history>>

\* A delivery sets its cursors to where it got; catching up and the watchlist
\* never go back.
Moves(f) == goal[f] > IF active /\ f # "watch" THEN 0 ELSE cursor[f]

\* Cursor f moves in memory and then, unless that fails, in the database.
MoveCursor(f, saved) ==
  /\ cursor' = [cursor EXCEPT ![f] = IF Moves(f) THEN goal[f] ELSE @]
  /\ stored' = [stored EXCEPT ![f] = IF Moves(f) /\ saved THEN goal[f] ELSE @]
  /\ passed' = [passed EXCEPT ![f] = IF active \/ f = "watch" THEN @ ELSE @ \cup Upto(goal[f])]
  /\ replayable' = IF saved THEN [replayable EXCEPT ![f] = Behind(cursor')[f]] ELSE Behind(cursor')

\* The tick is over.
Rest == tick' = "waits" /\ active' = FALSE /\ fetched' = NoRows /\ goal' = NoGoal

StoreChat ==
  /\ tick = "store chat"
  /\ MoveCursor("chat", TRUE)
  /\ tick' = "store presence"
  /\ UNCHANGED <<dbVars, settings, bot, recent, active, fetched, goal, commandVars, troubles,
                 posted, twice, late, lost, unsure, unread>>

StorePresence ==
  /\ tick = "store presence"
  /\ MoveCursor("presence", TRUE)
  /\ Rest
  /\ UNCHANGED <<dbVars, settings, bot, recent, commandVars, troubles, posted, twice, late, lost, unsure, unread>>

\* deliver_watchbridge: the hits are read, without a channel none ..
FetchHits ==
  /\ tick = "watch"
  /\ LET hits == IF watching THEN FetchNew("watch", HitsPerTick) ELSE {}
     IN /\ fetched' = [NoRows EXCEPT !["watch"] = hits]
        /\ goal' = [NoGoal EXCEPT !["watch"] = PageEnd(hits)]
        /\ tick' = IF hits = {} THEN "watch latest" ELSE "watch mark"
  /\ passed' = IF watching THEN passed
               ELSE [passed EXCEPT !["watch"] = @ \cup Upto(last["events"])]
  /\ UNCHANGED <<dbVars, settings, stored, bot, cursor, recent, active, commandVars, troubles,
                 posted, twice, late, lost, unsure, unread, replayable>>

\* .. repetitions are dropped, and the rest is posted like the feed's rows ..
MarkHits ==
  /\ tick = "watch mark"
  /\ \E kept \in SUBSET recent["watch"] :
       /\ fetched' = [f \in Feeds |-> Fresh(f, kept)]
       /\ recent' = [recent EXCEPT !["watch"] = kept \cup fetched["watch"]]
  /\ tick' = "watch post"
  /\ UNCHANGED <<dbVars, settings, stored, bot, cursor, active, goal, commandVars, troubles, history>>

\* .. and the cursor's new place is looked up, unless the page was full.
ReadLatestEvent ==
  /\ tick = "watch latest"
  /\ goal' = [NoGoal EXCEPT !["watch"] = WatchGoal]
  /\ unread' = IF Overlooking
               THEN unread \cup {writing[w].id : w \in {v \in Writers : writing[v].table = "events"}}
               ELSE unread
  /\ tick' = "store watch"
  /\ UNCHANGED <<dbVars, settings, stored, bot, cursor, recent, active, fetched, commandVars, troubles,
                 posted, twice, passed, late, lost, unsure, replayable>>

StoreWatch ==
  /\ tick = "store watch"
  /\ MoveCursor("watch", TRUE)
  /\ Rest
  /\ UNCHANGED <<dbVars, settings, bot, recent, commandVars, troubles,
                 posted, twice, late, lost, unsure, unread>>

\* A query fails and the tick is given up.  Rows that were marked before
\* get_event_routes failed stay marked.
TickFails ==
  /\ tick \in {"latest", "fetch", "routes", "watch", "watch latest"}
  /\ tick = "watch latest" => Overlooking
  /\ Trouble
  /\ lost' = IF tick = "routes"
             THEN [lost EXCEPT !["presence"] = @ \cup fetched["presence"]] ELSE lost
  /\ Rest
  /\ replayable' = Behind(cursor)
  /\ UNCHANGED <<dbVars, settings, stored, bot, cursor, recent, commandVars,
                 posted, twice, passed, late, unsure, unread>>

\* A cursor fails to be stored after it has moved in memory, and the tick is
\* given up: the cursors after it do not move.
StoreFails ==
  /\ Trouble
  /\ \/ tick = "store chat" /\ MoveCursor("chat", FALSE)
     \/ tick = "store presence" /\ MoveCursor("presence", FALSE)
     \/ tick = "store watch" /\ MoveCursor("watch", FALSE)
  /\ Rest
  /\ UNCHANGED <<dbVars, settings, bot, recent, commandVars,
                 posted, twice, late, lost, unsure, unread>>

-----------------------------------------------------------------------------
(* Commands.                                                               *)

\* /chatbridge pause and resume.
SetEnabled ==
  /\ bot
  /\ half = "feed"
  /\ Trouble
  /\ enabled' = ~enabled
  /\ UNCHANGED <<dbVars, half, watching, stored, bot, cursor, recent, tickVars, commandVars, history>>

\* /watchbridge set
SetWatch ==
  /\ bot
  /\ half = "watch"
  /\ ~watching
  /\ watching' = TRUE
  /\ UNCHANGED <<dbVars, half, enabled, stored, bot, cursor, recent, tickVars, commandVars, troubles, history>>

\* /chatbridge set, reset or remove, then skip_to_latest ..
SkipToLatest ==
  /\ bot
  /\ half = "feed"
  /\ command = "none"
  /\ Trouble
  /\ enabled' \in BOOLEAN
  /\ command' = "latest"
  /\ UNCHANGED <<dbVars, half, watching, stored, bot, cursor, recent, tickVars, latest, history>>

\* .. which reads the latest ids ..
SkipRead ==
  /\ command = "latest"
  /\ latest' = [f \in Feeds |-> last[Table(f)]]
  /\ command' = "memory"
  /\ UNCHANGED <<dbVars, settings, stored, bot, cursor, recent, tickVars, troubles, history>>

\* .. sets both cursors under the lock ..
SkipMove ==
  /\ command = "memory"
  /\ ~Locked
  /\ cursor' = [f \in Feeds |-> IF f \in Polled THEN latest[f] ELSE cursor[f]]
  /\ passed' = [f \in Feeds |-> IF f \in Polled THEN passed[f] \cup Upto(latest[f]) ELSE passed[f]]
  /\ replayable' = [f \in Feeds |-> IF f \in Polled THEN Behind(latest)[f] ELSE replayable[f]]
  /\ command' = "chat"
  /\ UNCHANGED <<dbVars, settings, stored, bot, recent, tickVars, latest, troubles,
                 posted, twice, late, lost, unsure, unread>>

\* .. and stores them after it.
SkipStore ==
  /\ command \in Polled
  /\ stored' = [stored EXCEPT ![command] = latest[command]]
  /\ command' = IF command = "chat" THEN "presence" ELSE "none"
  /\ latest' = IF command = "chat" THEN latest ELSE NoGoal
  /\ UNCHANGED <<dbVars, settings, bot, cursor, recent, tickVars, troubles, history>>

\* A statement of it fails; the command ignores that.
SkipFails ==
  /\ command # "none"
  /\ command' = "none"
  /\ latest' = NoGoal
  /\ UNCHANGED <<dbVars, settings, stored, bot, cursor, recent, tickVars, troubles, history>>

-----------------------------------------------------------------------------
Log == \E w \in Writers : Insert(w) \/ Commit(w) \/ RollBack(w)

Deliver ==
  \/ Tick \/ ReadLatest \/ Fetch \/ Mark \/ ReadRoutes \/ StoreChat \/ StorePresence
  \/ FetchHits \/ MarkHits \/ ReadLatestEvent \/ StoreWatch
  \/ Post \/ PostDone

Skip == SkipRead \/ SkipMove \/ SkipStore

Command == SetEnabled \/ SetWatch \/ SkipToLatest \/ Skip \/ SkipFails

Next ==
  \/ Log \/ Start \/ Crash \/ Deliver \/ Command
  \/ TickFails \/ StoreFails \/ PostUnsure \/ PostFails

Spec == Init /\ [][Next]_vars

\* The poll interval ticks, a task that has been answered goes on, and a
\* bridge that failed to start is started again every 15 seconds.
FairSpec == Spec /\ WF_vars(Deliver) /\ WF_vars(Start) /\ WF_vars(Skip)

-----------------------------------------------------------------------------
(* Properties.                                                             *)

\* Rows of a feed that were dealt with: posted, meant not to be, committed
\* behind a row that was there before, or lost to a failure.
Dealt(f) == posted[f] \cup passed[f] \cup late[Table(f)] \cup lost[f]

\* No cursor, in memory or stored, ever passes a row of its feed that was
\* not dealt with, whatever commands, failures and restarts come between
\* reading the rows and moving it: "a failure here must not block the cursor
\* advance" (bridge.rs:791) loses what failed and nothing else.
LossAccounted ==
  \A f \in Polled : \A i \in rows[Table(f)] :
    i <= cursor[f] \/ i <= stored[f] => i \in Dealt(f)

\* The same of the watchlist, whose cursor moves to the table's latest id:
\* it also passes what was written after its hits were read (bridge.rs:851
\* and 877), and nothing else.
HitsAccounted ==
  \A i \in rows["events"] :
    i <= cursor["watch"] \/ i <= stored["watch"] => i \in Dealt("watch") \cup unread

\* No cursor of either half passes a row that was not dealt with.
CursorsAccounted == LossAccounted /\ HitsAccounted

\* "old rows replay into Discord" (mod.rs:1952) only when a cursor was set
\* back behind a post: by a process that ended or a statement that failed
\* before the cursor was stored, or by skip_to_latest with an older reading.
\* Otherwise a row is in Discord twice only when a request that did post it
\* was answered with an error, and the retry (bridge.rs:956) posted it again.
ReplaysAccounted == \A f \in Feeds : twice[f] \subseteq replayable[f] \cup unsure[f]

\* The feeds of the half looked at.
Observed == IF half = "feed" THEN Polled ELSE {"watch"}

\* Every row a logger commits is dealt with in the end, on every feed: when
\* the loggers pause, as they must after MaxId rows, the feeds catch up.
CatchesUp ==
  []<>(\A f \in Observed : rows[Table(f)] \subseteq Dealt(f) \cup unread)

=============================================================================
