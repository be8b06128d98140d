----------------------------- MODULE FeedBatches -----------------------------
(***************************************************************************)
(* How the Discord bot posts what it receives from the event gateway       *)
(* (mc-discord-bot/src/discord/bridge.rs): it takes the events that wait   *)
(* as a batch, reads the feed's settings, drops repeated joins and leaves, *)
(* reads the routes, and posts the rows channel by channel in messages of  *)
(* a few rows, trying a message again when Discord does not take it.       *)
(*                                                                         *)
(* What the settings and the routes say is FeedRoutes' subject: here a     *)
(* batch meets a feed that is on or off, and a row goes to any channel or  *)
(* is hidden.  The joins and leaves are those of one player on one host;   *)
(* lines carry ids, in the order of the stream, and a join is in the       *)
(* stream as a line and as an event.  An event is named by its place in    *)
(* the stream, and a message by the set of its rows, which it shows in     *)
(* that order.                                                             *)
(***************************************************************************)
EXTENDS Integers, Sequences, FiniteSets

CONSTANTS
  FeedChannels,  \* where rows are posted
  Hidden,        \* a kind that is shown nowhere
  Cap,           \* most events of a batch
  RowsPerPost,   \* config.bridge.embeds_per_message or lines_per_message
  Attempts,      \* DISCORD_RETRY_ATTEMPTS
  MaxEvents      \* bound: events received

ASSUME BatchesAssumption ==
  /\ Hidden \notin FeedChannels
  /\ Cap \in Nat \ {0} /\ RowsPerPost \in Nat \ {0} /\ Attempts \in Nat \ {0}
  /\ MaxEvents \in Nat

VARIABLES
  events,    \* received: "line" of chat, "join line" (or leave), "join" event without an id
  taken,     \* how many of them were taken out of the queue
  feed,      \* on_stream_events: "idle", "settings", "unique", "routes", "post", "cursor"
  rows,      \* the rows of the batch
  outbox,    \* by_channel: the rows that are left to post
  channel,   \* the channel being posted to
  attempt,   \* failed attempts at its next message
  recent,    \* recent_presence: the join it was filled by, or 0
  locked,    \* is Inner's write lock held for the channel topic
  cursor,    \* Inner.cursor
  \* history
  batchOf,   \* the batch of every taken event, named by its last event
  sentTo,    \* where a row was routed
  shown,     \* what every channel shows, message by message
  repeats,   \* <<e, f>>: e was dropped as a repetition of f
  off,       \* batches that met a feed that was off
  failed,    \* batches that a query failed for
  broken,    \* <<batch, channel>>: posting there failed
  unsure     \* messages whose post was answered with an error

feedVars  == <<feed, rows, outbox, channel, attempt>>
batchHistory   == <<batchOf, sentTo, shown, repeats, off, failed, broken, unsure>>
batchVars == <<events, taken, feedVars, recent, locked, cursor, batchHistory>>

NoPosts == [c \in FeedChannels |-> {}]

BatchesInit ==
  /\ events = <<>> /\ taken = 0
  /\ feed = "idle" /\ rows = {} /\ outbox = NoPosts /\ channel = Hidden /\ attempt = 0
  /\ recent = 0 /\ locked = FALSE /\ cursor = 0
  /\ batchOf = [e \in {} |-> 0] /\ sentTo = [e \in {} |-> Hidden]
  /\ shown = [c \in FeedChannels |-> <<>>] /\ repeats = {} /\ off = {} /\ failed = {} /\ broken = {} /\ unsure = {}

-----------------------------------------------------------------------------
Arrive ==
  /\ Len(events) < MaxEvents
  /\ \E e \in {"line", "join line", "join"} : events' = Append(events, e)
  /\ UNCHANGED <<taken, feedVars, recent, locked, cursor, batchHistory>>

\* Everything that waits is taken, up to the cap.
Take ==
  /\ feed = "idle" /\ taken < Len(events)
  /\ taken' = IF Len(events) - taken < Cap THEN Len(events) ELSE taken + Cap
  /\ rows' = taken + 1 .. taken'
  /\ batchOf' = [e \in 1..taken' |-> IF e <= taken THEN batchOf[e] ELSE taken']
  /\ feed' = "settings"
  /\ UNCHANGED <<events, outbox, channel, attempt, recent, locked, cursor,
                 sentTo, shown, repeats, off, failed, broken, unsure>>

\* A feed without a channel, or paused, drops the batch and moves the cursor.
ReadSettings ==
  /\ feed = "settings"
  /\ \/ feed' = "unique" /\ UNCHANGED <<rows, off>>
     \/ feed' = "cursor" /\ rows' = {} /\ off' = off \cup {taken}
  /\ UNCHANGED <<events, taken, outbox, channel, attempt, recent, locked, cursor,
                 batchOf, sentTo, shown, repeats, failed, broken, unsure>>

\* A query fails: the batch is given up, and the cursor stays.
QueryFails ==
  /\ feed \in {"settings", "routes"}
  /\ feed' = "idle" /\ rows' = {}
  /\ failed' = failed \cup {taken}
  /\ UNCHANGED <<events, taken, outbox, channel, attempt, recent, locked, cursor,
                 batchOf, sentTo, shown, repeats, off, broken, unsure>>

Joins(S) == {e \in S : events[e] # "line"}

\* unique_presence for every row: a join that is remembered is dropped, and a
\* join that is not is remembered whatever becomes of its row.
DropRepeats ==
  /\ feed = "unique" /\ ~locked
  /\ LET first == IF recent # 0 THEN recent
                  ELSE IF Joins(rows) = {} THEN 0 ELSE CHOOSE e \in Joins(rows) : \A f \in Joins(rows) : e <= f
         Dropped == Joins(rows) \ {first}
     IN /\ recent' = first
        /\ rows' = rows \ Dropped
        /\ repeats' = repeats \cup (Dropped \X {first})
  /\ feed' = IF rows' = {} THEN "cursor" ELSE "routes"
  /\ UNCHANGED <<events, taken, outbox, channel, attempt, locked, cursor,
                 batchOf, sentTo, shown, off, failed, broken, unsure>>

\* PRESENCE_DEDUP is over.
Forget ==
  /\ recent # 0
  /\ recent' = 0
  /\ UNCHANGED <<events, taken, feedVars, locked, cursor, batchHistory>>

\* render: the rows are cut into messages of RowsPerPost, the earliest first.
Message(S) == {e \in S : Cardinality({f \in S : f < e}) < RowsPerPost}

\* The routes are read, and every row is put with those of its channel.
ReadRoutes ==
  /\ feed = "routes"
  /\ \E to \in [rows -> FeedChannels \cup {Hidden}] :
       /\ outbox' = [c \in FeedChannels |-> {e \in rows : to[e] = c}]
       /\ sentTo' = [e \in DOMAIN sentTo \cup rows |-> IF e \in rows THEN to[e] ELSE sentTo[e]]
  /\ rows' = {}
  /\ feed' = "post"
  /\ UNCHANGED <<events, taken, channel, attempt, recent, locked, cursor,
                 batchOf, shown, repeats, off, failed, broken, unsure>>

-----------------------------------------------------------------------------
(* send_embeds.                                                            *)

Unposted(c) == outbox[c] # {}

\* The channels are taken in no order, but one by one.
PickChannel ==
  /\ feed = "post" /\ channel = Hidden
  /\ \E c \in FeedChannels : Unposted(c) /\ channel' = c
  /\ UNCHANGED <<events, taken, feed, rows, outbox, attempt, recent, locked, cursor, batchHistory>>

SendUnchanged ==
  UNCHANGED <<events, taken, feed, rows, recent, locked, cursor,
              batchOf, sentTo, repeats, off, failed>>

\* The rows that are left of channel c; with none, another one is taken.
Left(c, S) ==
  /\ outbox' = [outbox EXCEPT ![c] = S]
  /\ channel' = IF S = {} THEN Hidden ELSE c
  /\ attempt' = 0

\* The channel shows its next message.
Shown == shown' = [shown EXCEPT ![channel] = Append(@, Message(outbox[channel]))]

Sent ==
  /\ channel # Hidden
  /\ Shown
  /\ Left(channel, outbox[channel] \ Message(outbox[channel]))
  /\ UNCHANGED <<broken, unsure>> /\ SendUnchanged

\* Mutant: a message that cannot be posted ends the whole delivery.
GiveUpAll ==
  /\ outbox' = NoPosts
  /\ channel' = Hidden /\ attempt' = 0
  /\ broken' = broken \cup {<<taken, channel>>}

\* "break": what is left for this channel is given up, the others are not.
GiveUp ==
  /\ Left(channel, {})
  /\ broken' = broken \cup {<<taken, channel>>}

\* Mutant: the attempts are not counted.
TryForever == FALSE

\* Was that the last attempt?
LastAttempt == attempt + 1 >= Attempts

\* An error: the message may have been posted all the same.  Another attempt
\* follows unless it is one that no attempt mends, or was the last.
SendFails ==
  /\ channel # Hidden
  /\ \E posted, permanent \in BOOLEAN :
       /\ permanent => ~posted
       /\ IF posted
          THEN Shown /\ unsure' = unsure \cup {<<channel, Message(outbox[channel])>>}
          ELSE UNCHANGED <<shown, unsure>>
       /\ IF permanent \/ LastAttempt
          THEN GiveUp
          ELSE attempt' = (attempt + 1) % Attempts /\ UNCHANGED <<outbox, channel, broken>>
  /\ SendUnchanged

AllPosted ==
  /\ feed = "post" /\ \A c \in FeedChannels : ~Unposted(c)
  /\ feed' = "cursor"
  /\ UNCHANGED <<events, taken, rows, outbox, channel, attempt, recent, locked, cursor, batchHistory>>

\* The batch's last chat line.
LatestChat ==
  LET chat == {e \in 1..taken : batchOf[e] = taken /\ events[e] # "join"}
  IN IF chat = {} THEN 0 ELSE CHOOSE e \in chat : \A f \in chat : f <= e

\* The cursor only moves forward.  (It is stored then; in a feed that reads
\* the stream nobody reads the stored one.)
MoveFeedCursor ==
  /\ feed = "cursor" /\ (LatestChat = 0 \/ ~locked)
  /\ cursor' = IF LatestChat > cursor THEN LatestChat ELSE cursor
  /\ feed' = "idle"
  /\ UNCHANGED <<events, taken, rows, outbox, channel, attempt, recent, locked, batchHistory>>

-----------------------------------------------------------------------------
(* The side loop's tick and /chatbridge topic edit the channel's topic     *)
(* without giving the lock up.  It matters to a feed that wants the lock,  *)
(* so that it is only taken before one that does.                          *)

LockForTopic ==
  /\ ~locked /\ feed \in {"unique", "cursor"}
  /\ locked' = TRUE
  /\ UNCHANGED <<events, taken, feedVars, recent, cursor, batchHistory>>

TopicDone ==
  /\ locked
  /\ locked' = FALSE
  /\ UNCHANGED <<events, taken, feedVars, recent, cursor, batchHistory>>

-----------------------------------------------------------------------------
FeedSends == Sent \/ SendFails

FeedSteps ==
  \/ Take \/ ReadSettings \/ QueryFails \/ DropRepeats \/ ReadRoutes
  \/ PickChannel \/ FeedSends \/ AllPosted \/ MoveFeedCursor

BatchesStep == FeedSteps \/ Arrive \/ Forget \/ LockForTopic \/ TopicDone

-----------------------------------------------------------------------------
(* Properties.                                                             *)

Shows(c, e) == \E i \in DOMAIN shown[c] : e \in shown[c][i]

Reached(e) == sentTo[e] # Hidden /\ Shows(sentTo[e], e)

\* What became of an event that nothing shows.
Excused(e) ==
  \/ batchOf[e] \in off \cup failed
  \/ e \in DOMAIN sentTo /\ (sentTo[e] = Hidden \/ <<batchOf[e], sentTo[e]>> \in broken)
  \/ \E f \in 1..e : <<e, f>> \in repeats

\* Every event of the batches that are through is in the channel it was routed
\* to, and nothing else is there; the exceptions: the feed was off or the row
\* hidden, a query failed for the batch, Discord refused that very channel, or
\* the row repeats one that the feed took earlier.  One channel's trouble takes
\* nothing from another (bridge.rs:788-794), every channel shows the stream's
\* order, and what it shows twice was answered with an error before.
BatchesAccounted ==
  /\ \A e \in 1..taken : batchOf[e] # taken \/ feed = "idle" =>
       (e \in DOMAIN sentTo /\ Reached(e)) \/ Excused(e)
  /\ \A c \in FeedChannels : \A i, j \in DOMAIN shown[c] :
       /\ \A e \in shown[c][i] : sentTo[e] = c
       /\ i < j => \/ \A e \in shown[c][i], f \in shown[c][j] : e < f
                   \/ shown[c][i] = shown[c][j] /\ <<c, shown[c][i]>> \in unsure

\* A batch is through some day, whatever Discord answers and however often the
\* topic is edited: the feed never stands still behind a message.
BatchesMoveOn == []<>(feed = "idle")
=============================================================================
