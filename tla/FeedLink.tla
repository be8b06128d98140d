------------------------------ MODULE FeedLink ------------------------------
(***************************************************************************)
(* What a feed channel is told of the link to the event gateway: the       *)
(* watcher (Bridge::watch_feed_link) announces it on startup and when it   *)
(* changes, and a bot that was away from Discord says how it found the     *)
(* link (announce_bot_reconnect).  Both post through post_feed_notice,     *)
(* which says nothing while the feed is paused or without a channel.       *)
(***************************************************************************)
EXTENDS Integers

CONSTANT LossAfter  \* LOSS_AFTER

ASSUME LossAfterAssumption == LossAfter \in Nat \ {0}

VARIABLES
  link,      \* the subscriber's flag
  heard,     \* is the feed on, with a channel
  watcher,   \* "grace", "checks", "reads settings", "posts"
  up,        \* what the watcher takes the link for
  misses,    \* checks in a row that found it down
  herald,    \* announce_bot_reconnect: "idle", "reads settings", "posts"
  says,      \* what it found
  noticed,     \* the last notice in the channel: "none", "up", "down"
  \* history
  silenced,  \* the watcher's last notice was not posted
  overtaken  \* an announcement that the watcher did not share was posted since

linkVars == <<link, heard, watcher, up, misses, herald, says, noticed, silenced, overtaken>>

Word(x) == IF x THEN "up" ELSE "down"

LinkInit ==
  /\ link = FALSE /\ heard \in BOOLEAN
  /\ watcher = "grace" /\ up = FALSE /\ misses = 0
  /\ herald = "idle" /\ says = FALSE
  /\ noticed = "none" /\ silenced = FALSE /\ overtaken = FALSE

-----------------------------------------------------------------------------
LinkChanges ==
  /\ link' = ~link
  /\ UNCHANGED <<heard, watcher, up, misses, herald, says, noticed, silenced, overtaken>>

\* /chatbridge pause and resume, set and remove.
HearingChanges ==
  /\ heard' = ~heard
  /\ UNCHANGED <<link, watcher, up, misses, herald, says, noticed, silenced, overtaken>>

-----------------------------------------------------------------------------
(* watch_feed_link.                                                        *)

WatchUnchanged == UNCHANGED <<link, heard, herald, says, noticed, silenced, overtaken>>

\* The first notice comes when the link is up, or after STARTUP_GRACE.
GraceEnds ==
  /\ watcher = "grace"
  /\ up' = link
  /\ watcher' = "reads settings"
  /\ UNCHANGED misses /\ WatchUnchanged

\* Mutant: the loss is announced and not remembered.
StillUp == up

\* What the watcher takes the link for after it has announced the loss.
AfterLoss == FALSE

\* A check, every five seconds.
CheckUp ==
  /\ watcher = "checks" /\ link
  /\ misses' = 0
  /\ up' = TRUE
  /\ watcher' = IF up THEN "checks" ELSE "reads settings"
  /\ WatchUnchanged

CheckDown ==
  /\ watcher = "checks" /\ ~link /\ up
  /\ IF misses + 1 >= LossAfter
     THEN misses' = 0 /\ up' = AfterLoss /\ watcher' = "reads settings"
     ELSE misses' = misses + 1 /\ UNCHANGED <<up, watcher>>
  /\ WatchUnchanged

-----------------------------------------------------------------------------
(* post_feed_notice: the settings are read, and the notice posted unless   *)
(* the feed is silent, the query fails or Discord refuses it for good.     *)

WatcherReads ==
  /\ watcher = "reads settings"
  /\ \/ heard /\ watcher' = "posts" /\ UNCHANGED silenced
     \/ watcher' = "checks" /\ silenced' = TRUE
  /\ UNCHANGED <<link, heard, up, misses, herald, says, noticed, overtaken>>

WatcherPosts ==
  /\ watcher = "posts"
  /\ watcher' = "checks"
  /\ \/ noticed' = Word(up) /\ silenced' = FALSE /\ overtaken' = FALSE
     \/ silenced' = TRUE /\ UNCHANGED <<noticed, overtaken>>
  /\ UNCHANGED <<link, heard, up, misses, herald, says>>

-----------------------------------------------------------------------------
(* announce_bot_reconnect, when Discord greets the bot again.              *)

Announce ==
  /\ herald = "idle"
  /\ herald' = "reads settings"
  /\ says' = link
  /\ UNCHANGED <<link, heard, watcher, up, misses, noticed, silenced, overtaken>>

HeraldReads ==
  /\ herald = "reads settings"
  /\ herald' \in IF heard THEN {"posts", "idle"} ELSE {"idle"}
  /\ UNCHANGED <<link, heard, watcher, up, misses, says, noticed, silenced, overtaken>>

HeraldPosts ==
  /\ herald = "posts"
  /\ herald' = "idle"
  /\ \/ noticed' = Word(says) /\ overtaken' = (says # up)
     \/ UNCHANGED <<noticed, overtaken>>
  /\ UNCHANGED <<link, heard, watcher, up, misses, says, silenced>>

-----------------------------------------------------------------------------
LinkStep ==
  \/ LinkChanges \/ HearingChanges
  \/ GraceEnds \/ CheckUp \/ CheckDown \/ WatcherReads \/ WatcherPosts
  \/ Announce \/ HeraldReads \/ HeraldPosts

-----------------------------------------------------------------------------
(* Properties.                                                             *)

\* A link that stays as it is for long enough is what the channel was told
\* last.  There are two exceptions.  A notice that came while the feed was
\* silent is not made up for when it speaks again.  And an announcement says
\* what the link was when it was begun, not what the watcher takes it for:
\* it may come after the notice of a later change, or tell of a loss that is
\* over before the watcher counts it, and nothing corrects it until the next
\* change (bridge.rs:368-385, 433).
NoticesSettle ==
  \A x \in BOOLEAN :
    <>[](link = x) => <>[](up = x /\ (noticed = Word(x) \/ silenced \/ overtaken))
=============================================================================
