------------------------------ MODULE FeedTopic ------------------------------
(***************************************************************************)
(* The topic of a server's feed channel (mc-discord-bot/src/discord/       *)
(* topic.rs).  The side loop's tick edits it every few minutes, and the    *)
(* commands /chatbridge set and topic at once; each reads the feed's       *)
(* channel first and then takes Inner's write lock, which it holds while   *)
(* it reads the numbers and while Discord edits the channel.               *)
(*                                                                         *)
(* A text is known by its age: its last part is the minute it was made in  *)
(* (topic.rs:37), so that a text made this minute is current, and one made *)
(* in an earlier minute is not repeated.                                   *)
(***************************************************************************)
EXTENDS FiniteSets

CONSTANTS
  TopicAdmins,
  TopicChannels,
  NoChannel

Tick == "tick"
Updaters == TopicAdmins \cup {Tick}

VARIABLES
  feedChannel,  \* the feed's channel in the settings
  topic,        \* the topic each channel shows: "other", "old", "current"
  cached,       \* last_text, which is "other" at first
  due,          \* has the interval passed since last_run_at
  update,       \* "idle", "set", "waits", "edits" for everyone who updates
  target,       \* the channel he has read
  text,         \* the age of the text he sends
  \* history
  cachedFor,    \* the channel last_text was set in
  touched       \* channels whose topic somebody else has set since

updateVars == <<update, target, text>>
topicVars  == <<feedChannel, topic, cached, due, updateVars, cachedFor, touched>>

TopicInit ==
  /\ feedChannel \in TopicChannels \cup {NoChannel}
  /\ topic = [c \in TopicChannels |-> "other"]
  /\ cached = "other" /\ due = TRUE
  /\ update = [u \in Updaters |-> "idle"]
  /\ target = [u \in Updaters |-> NoChannel]
  /\ text = [u \in Updaters |-> "other"]
  /\ cachedFor = NoChannel /\ touched = {}

\* The write lock of Inner.
TopicLocked == \E u \in Updaters : update[u] = "edits"

-----------------------------------------------------------------------------
(* The world.                                                              *)

\* The next minute begins, and the interval may be over.
Aged(age) == IF age = "current" THEN "old" ELSE age

MinutePasses ==
  /\ topic' = [c \in TopicChannels |-> Aged(topic[c])]
  /\ cached' = Aged(cached)
  /\ text' = [u \in Updaters |-> Aged(text[u])]
  /\ due' \in {due, TRUE}
  /\ UNCHANGED <<feedChannel, update, target, cachedFor, touched>>

\* Somebody edits a channel's topic in Discord.
SomebodyEdits ==
  /\ \E c \in TopicChannels : topic' = [topic EXCEPT ![c] = "other"] /\ touched' = touched \cup {c}
  /\ UNCHANGED <<feedChannel, cached, due, updateVars, cachedFor>>

-----------------------------------------------------------------------------
\* /chatbridge set, reset and remove; each updates the topic then.
SetFeedChannel(a) ==
  /\ update[a] = "idle"
  /\ feedChannel' \in TopicChannels \cup {NoChannel}
  /\ update' = [update EXCEPT ![a] = "set"]
  /\ UNCHANGED <<topic, cached, due, target, text, cachedFor, touched>>

\* tick and refresh_topic read the settings.
ReadFeedChannel(u) ==
  /\ update[u] \in {"idle", "set"}
  /\ update' = [update EXCEPT ![u] = "waits"]
  /\ target' = [target EXCEPT ![u] = feedChannel]
  /\ UNCHANGED <<feedChannel, topic, cached, due, text, cachedFor, touched>>

\* The lock is taken; a tick goes on if the interval is over (maybe_update).
Runs(u) == update[u] = "waits" /\ ~TopicLocked /\ (u = Tick => due)

NotDue ==
  /\ update[Tick] = "waits" /\ ~TopicLocked /\ ~due
  /\ update' = [update EXCEPT ![Tick] = "idle"]
  /\ UNCHANGED <<feedChannel, topic, cached, due, target, text, cachedFor, touched>>

\* Mutant: a text is the one cached whatever the minute.
SameNumbers == cached # "other"

Same == cached = "current"

\* update: without a channel, without the numbers, or with the text that was
\* sent last, that was it until the interval is over again.
EndsEarly(u) ==
  /\ update' = [update EXCEPT ![u] = "idle"]
  /\ UNCHANGED <<text, cached, cachedFor>>

NoTopic(u) == Runs(u) /\ target[u] = NoChannel /\ EndsEarly(u)
NumbersFail(u) == Runs(u) /\ target[u] # NoChannel /\ EndsEarly(u)
UpToDate(u) == Runs(u) /\ target[u] # NoChannel /\ Same /\ EndsEarly(u)

\* Mutant: the text is cached when it is sent.
CacheFirst(c) == cached' = "current" /\ cachedFor' = c

CacheLater(c) == UNCHANGED <<cached, cachedFor>>

BeginEdit(u) ==
  /\ Runs(u) /\ target[u] # NoChannel /\ ~Same
  /\ update' = [update EXCEPT ![u] = "edits"]
  /\ text' = [text EXCEPT ![u] = "current"]
  /\ CacheLater(target[u])

Update(u) ==
  /\ NoTopic(u) \/ NumbersFail(u) \/ UpToDate(u) \/ BeginEdit(u)
  /\ due' = FALSE
  /\ UNCHANGED <<feedChannel, topic, target, touched>>

Edited(u) ==
  /\ update[u] = "edits"
  /\ topic' = [topic EXCEPT ![target[u]] = text[u]]
  /\ cached' = text[u] /\ cachedFor' = target[u]
  /\ touched' = touched \ {target[u]}
  /\ update' = [update EXCEPT ![u] = "idle"]
  /\ UNCHANGED <<feedChannel, due, target, text>>

\* Forbidden, or another error, after which the channel may be edited all the
\* same.
EditFails(u) ==
  /\ update[u] = "edits"
  /\ topic' \in {topic, [topic EXCEPT ![target[u]] = text[u]]}
  /\ update' = [update EXCEPT ![u] = "idle"]
  /\ UNCHANGED <<feedChannel, cached, due, target, text, cachedFor, touched>>

-----------------------------------------------------------------------------
TopicStep ==
  \/ MinutePasses \/ SomebodyEdits \/ NotDue
  \/ \E a \in TopicAdmins : SetFeedChannel(a)
  \/ \E u \in Updaters : ReadFeedChannel(u) \/ Update(u) \/ Edited(u) \/ EditFails(u)

-----------------------------------------------------------------------------
(* Properties.                                                             *)

\* "Topic already up to date" (chatbridge.rs:208) is true of the channel that
\* was asked about, or its topic was set by hand; the exception is a feed that
\* has moved to another channel: last_text does not say where it was set
\* (topic.rs:142), and a feed that moves within the minute of an edit keeps
\* its new channel's topic until the next one.
TopicAccounted ==
  [][\A u \in Updaters : UpToDate(u) =>
       target[u] # cachedFor \/ target[u] \in touched \/ topic[target[u]] = "current"]_topicVars

\* A channel that stays the feed's has a current topic again and again,
\* whoever edits it in between and however often edits fail.
TopicFollows ==
  \A c \in TopicChannels : <>[](feedChannel = c) => []<>(topic[c] = "current")
=============================================================================
