----------------------------- MODULE FeedRoutes -----------------------------
(***************************************************************************)
(* What the Discord bot keeps of a server's feed in its database, the row  *)
(* of discord_bridge_state and the rows of discord_event_routes, and who   *)
(* writes and reads them: the slash commands and the panel of              *)
(* mc-discord-bot/src/commands/chatbridge.rs, Bridge::start, and the live  *)
(* feed (discord/bridge.rs), which reads both for every batch it posts.    *)
(* Every statement commits on its own: a command is the sequence of its    *)
(* statements, and all of them take theirs in any order.                   *)
(*                                                                         *)
(* No statement but the DELETE of /chatbridge remove touches the rows of   *)
(* two kinds, so that a behaviour follows the row of one kind.  Style and  *)
(* rainbow, which are written outright and read when a row is rendered,    *)
(* are left out; skip_to_latest is PollFeed's.                             *)
(***************************************************************************)
EXTENDS Integers, Sequences, FiniteSets

CONSTANTS
  Admins,
  PanelAdmins,     \* bound: those who open panels
  Channels,
  EnvChannel,      \* config.discord.bridge_channel_id
  None,            \* no channel
  Defaults,        \* BRIDGE_KINDS: may it name the kind that is followed
  MaxCommands,     \* bound: commands and clicks that write
  MaxRouteTroubles \* bound: failed statements, and crashes

ASSUME RoutesAssumption ==
  /\ PanelAdmins \subseteq Admins /\ Defaults \subseteq BOOLEAN
  /\ None \notin Channels /\ EnvChannel \in Channels \cup {None}
  /\ MaxCommands \in Nat /\ MaxRouteTroubles \in Nat

VARIABLES
  default,   \* is the kind in BRIDGE_KINDS (config.bridge.kinds)
  settings,  \* discord_bridge_state: [channel, enabled]
  route,     \* the kind's row of discord_event_routes: [row, on, channel]
  work,      \* the statements that everyone has before him
  panel,     \* administrators' panels: "closed", "opening", "home", "routing", "picked"
  start,     \* Bridge::start: "down", "begun", "up"
  got,       \* what the feed read of the settings for its batch
  commands, routeTroubles,
  \* history
  intent,    \* what a command under way means the row to be
  overlap,   \* commands that another ran beside
  asked,     \* what the row may be by the commands
  filled,    \* the row was inserted by somebody reading the routes
  quiet      \* the feed was removed and nobody has given it a channel since

history   == <<intent, overlap, asked, filled, quiet>>
routeVars == <<default, settings, route, work, panel, start, got, commands, routeTroubles, history>>

Feed  == "feed"    \* the live feed's task
Start == "start"   \* Bridge::start
Procs == Admins \cup {Feed, Start}

NoRow == [row |-> FALSE, on |-> FALSE, channel |-> None]
Row(on, c) == [row |-> TRUE, on |-> on, channel |-> c]
NotRead == [channel |-> None, quiet |-> FALSE]

\* What the row says, and what it says by default.
Value   == IF ~route.row THEN "none" ELSE IF route.on THEN "on" ELSE "off"
Default == IF default THEN "on" ELSE "off"

\* A bot that has been started; main has run ensure_bridge_state.
RoutesInit ==
  /\ default \in Defaults
  /\ settings = [channel |-> None, enabled |-> TRUE]
  /\ route = Row(default, None)
  /\ work = [p \in Procs |-> <<>>]
  /\ panel = [a \in Admins |-> "closed"]
  /\ start = "down"
  /\ got = NotRead
  /\ commands = 0 /\ routeTroubles = 0
  /\ intent = [p \in Procs |-> {}]
  /\ overlap = [p \in Procs |-> FALSE]
  /\ asked = {Default} /\ filled = FALSE /\ quiet = FALSE

Trouble == routeTroubles < MaxRouteTroubles /\ routeTroubles' = routeTroubles + 1

-----------------------------------------------------------------------------
(* Statements.                                                             *)

\* A statement is a tuple: its name and, if it has one, its argument.
Op(s) == s[1]

\* ensure_event_routes inserts what is missing: the kinds of BRIDGE_KINDS are
\* shown.  get_event_routes and the set_event_route_ functions call it without
\* kinds, and then every kind is shown.
Ensure == <<"insert">>
Fill   == <<"fill">>
Read   == <<"read">>     \* get_bridge_settings; for the feed, the routes

SetChannel(c)  == <<"channel", c>>
SetEnabled(on) == <<"enabled", on>>
Show(on)       == <<"show", on>>
Send(c)        == <<"send", c>>
Reset          == <<"reset">>
Clear          == <<"clear">>
Delete         == <<"delete">>

SetBridge(c) == <<SetChannel(c), SetEnabled(TRUE), Ensure>>

\* Mutant: a reset inserts what is missing, and nothing else.
ResetMissing == <<Ensure, SetEnabled(TRUE)>>

\* reset_event_routes
ResetRoutes == <<Ensure, Reset, SetEnabled(TRUE)>>

\* Mutant: clear_bridge only pauses the feed.
PauseBridge == <<SetEnabled(FALSE), Delete>>

ClearBridge == <<Clear, Delete>>

RouteAfter(s) ==
  CASE Op(s) = "insert" -> IF route.row THEN route ELSE Row(default, None)
    [] Op(s) = "fill"   -> IF route.row THEN route ELSE Row(TRUE, None)
    [] Op(s) = "show"   -> Row(s[2], route.channel)
    [] Op(s) = "send"   -> Row(TRUE, s[2])
    [] Op(s) = "reset"  -> Row(default, None)
    [] Op(s) = "delete" -> NoRow
    [] OTHER           -> route

SettingsAfter(s) ==
  CASE Op(s) = "channel" -> [settings EXCEPT !.channel = s[2]]
    [] Op(s) = "enabled" -> [settings EXCEPT !.enabled = s[2]]
    [] Op(s) = "clear"   -> [channel |-> None, enabled |-> FALSE]
    [] OTHER            -> settings

Reading(p) == work[p] # <<>> /\ Op(Head(work[p])) = "read"

-----------------------------------------------------------------------------
\* p sets out to execute the statements, meaning the row to be one of want;
\* {"missing"} means whatever it is, or the default.
Begin(p, statements, want) ==
  /\ work[p] = <<>>
  /\ work' = [work EXCEPT ![p] = statements]
  /\ intent' = [intent EXCEPT ![p] = want]
  /\ overlap' = [q \in Procs |-> IF q = p THEN want # {} /\ \E r \in Procs \ {p} : intent[r] # {}
                                 ELSE overlap[q] \/ (want # {} /\ intent[q] # {})]
  /\ asked' = asked \cup (want \ {"missing"})
       \cup IF "none" \in asked \cup want /\ \E q \in Procs : intent'[q] = {"missing"}
            THEN {Default} ELSE {}

\* p is done; if no other command ran beside it, the row is what it meant.
End(p) ==
  /\ work' = [work EXCEPT ![p] = <<>>]
  /\ intent' = [intent EXCEPT ![p] = {}]
  /\ overlap' = [overlap EXCEPT ![p] = FALSE]
  /\ asked' = IF overlap[p] \/ intent[p] = {} THEN asked
              ELSE IF intent[p] = {"missing"} THEN asked \ {"none"}
              ELSE intent[p]

\* A remove that no command ran beside, at its last statement.
Removed(p) == intent[p] = {"none"} /\ ~overlap[p] /\ Len(work[p]) = 1

\* The next statement of p is executed.
Execute(p) ==
  /\ work[p] # <<>>
  /\ LET s == Head(work[p])
     IN /\ Op(s) # "read"
        /\ route' = RouteAfter(s)
        /\ settings' = SettingsAfter(s)
        /\ filled' = (route'.row /\ IF Op(s) = "fill" THEN filled \/ ~route.row
                                    ELSE filled /\ Op(s) \notin {"show", "send", "reset"})
        /\ quiet' = (Op(s) # "channel" /\ (quiet \/ Removed(p)))
  /\ IF Len(work[p]) = 1 THEN End(p)
     ELSE work' = [work EXCEPT ![p] = Tail(@)] /\ UNCHANGED <<intent, overlap, asked>>
  /\ UNCHANGED <<default, panel, start, got, commands, routeTroubles>>

\* It fails, and what p was doing ends there: an administrator's command with
\* its panel, the feed's batch, and a start, which is tried again.
Fail(p) ==
  /\ work[p] # <<>>
  /\ Trouble
  /\ work' = [work EXCEPT ![p] = <<>>]
  /\ intent' = [intent EXCEPT ![p] = {}]
  /\ overlap' = [overlap EXCEPT ![p] = FALSE]
  /\ panel' = [a \in Admins |-> IF a = p THEN "closed" ELSE panel[a]]
  /\ start' = IF p = Start THEN "down" ELSE start
  /\ got' = IF p = Feed THEN NotRead ELSE got
  /\ UNCHANGED <<default, settings, route, commands, asked, filled, quiet>>

\* The bot ends and is started again.
Crash ==
  /\ start # "down"
  /\ Trouble
  /\ work' = [p \in Procs |-> <<>>]
  /\ intent' = [p \in Procs |-> {}]
  /\ overlap' = [p \in Procs |-> FALSE]
  /\ panel' = [a \in Admins |-> "closed"]
  /\ start' = "down"
  /\ got' = NotRead
  /\ UNCHANGED <<default, settings, route, commands, asked, filled, quiet>>

-----------------------------------------------------------------------------
(* Slash commands.                                                         *)

Command(a, statements, want) ==
  /\ commands < MaxCommands
  /\ commands' = commands + 1
  /\ Begin(a, statements, want)
  /\ UNCHANGED <<default, settings, route, start, got, routeTroubles, filled, quiet>>

Slash(a, statements, want) ==
  panel[a] = "closed" /\ Command(a, statements, want) /\ UNCHANGED panel

SetFeed(a)   == \E c \in Channels : Slash(a, SetBridge(c), {"missing"})
Pause(a)     == Slash(a, <<SetEnabled(FALSE)>>, {})
Resume(a)    == Slash(a, <<SetEnabled(TRUE)>>, {})
ResetFeed(a) == Slash(a, ResetRoutes, {Default})
RemoveFeed(a) == Slash(a, ClearBridge, {"none"})

-----------------------------------------------------------------------------
(* /chatbridge customize.                                                  *)

Open(a) == panel[a] \in {"home", "routing", "picked"} /\ work[a] = <<>>

PanelUnchanged == UNCHANGED <<default, settings, route, start, got, commands, routeTroubles, filled, quiet>>

Customize(a) ==
  /\ a \in PanelAdmins
  /\ panel[a] = "closed"
  /\ Begin(a, <<Ensure, Read>>, {"missing"})
  /\ panel' = [panel EXCEPT ![a] = "opening"]
  /\ PanelUnchanged

\* Without a main channel the panel does not open; otherwise the routes are read.
PanelOpens(a) ==
  /\ Reading(a)
  /\ IF settings.channel = None
     THEN End(a) /\ panel' = [panel EXCEPT ![a] = "closed"]
     ELSE /\ work' = [work EXCEPT ![a] = <<Fill>>]
          /\ panel' = [panel EXCEPT ![a] = "home"]
          /\ UNCHANGED <<intent, overlap, asked>>
  /\ PanelUnchanged

\* What there is to click: everything about routing is behind a button.
HomeControls == {"style", "rainbow", "routing"}
RoutingControls(picked) == {"toggle", "pick", "back"} \cup IF picked THEN {"channel"} ELSE {}
Controls(view) == IF view = "home" THEN HomeControls ELSE RoutingControls(view = "picked")

ViewAfter(click) ==
  CASE click = "pick" -> "picked" [] click \in {"style", "rainbow", "back"} -> "home" [] OTHER -> "routing"

\* Clicks that write nothing of the row.  The routes are read again after
\* every click.
Navigate(a) ==
  /\ Open(a)
  /\ \E click \in Controls(panel[a]) \ {"toggle", "channel"} :
       panel' = [panel EXCEPT ![a] = ViewAfter(click)]
  /\ Begin(a, <<Fill>>, {})
  /\ PanelUnchanged

\* Mutant: the selected kinds are shown, the others left as they are.
ShowSelected(on) == IF on THEN <<Fill, Show(TRUE), Fill>> ELSE <<Fill>>

\* Every kind is written, after an ensure_event_routes for each.
ShowOnly(on) == <<Fill, Show(on), Fill>>

\* The kinds to show are selected.
Toggle(a) ==
  /\ Open(a) /\ "toggle" \in Controls(panel[a])
  /\ \E on \in BOOLEAN : Command(a, ShowOnly(on), {IF on THEN "on" ELSE "off"})
  /\ panel' = [panel EXCEPT ![a] = ViewAfter("toggle")]

\* The picked kind gets a channel, or the main one, and is shown.
ChooseChannel(a) ==
  /\ Open(a) /\ "channel" \in Controls(panel[a])
  /\ \E c \in Channels \cup {None} :
       Command(a, <<Fill, Send(c), Fill, Show(TRUE), Fill>>, {"on"})
  /\ panel' = [panel EXCEPT ![a] = ViewAfter("channel")]

\* Five minutes without a click.
PanelTimesOut(a) ==
  /\ Open(a)
  /\ panel' = [panel EXCEPT ![a] = "closed"]
  /\ UNCHANGED <<work, intent, overlap, asked>> /\ PanelUnchanged

-----------------------------------------------------------------------------
(* Bridge::start and the feed.                                             *)

StartUnchanged ==
  UNCHANGED <<default, settings, route, panel, got, commands, routeTroubles, filled, quiet>>

\* start_all, and again every 15 seconds while it fails.
BeginStart ==
  /\ start = "down"
  /\ Begin(Start, <<Ensure, Read>>, {"missing"})
  /\ start' = "begun"
  /\ StartUnchanged

\* A feed that is on and has no channel takes BRIDGE_CHANNEL_ID.
StartReads ==
  /\ Reading(Start)
  /\ IF settings.channel = None /\ settings.enabled /\ EnvChannel # None
     THEN work' = [work EXCEPT ![Start] = <<SetChannel(EnvChannel)>>] /\ UNCHANGED <<intent, overlap, asked>>
     ELSE End(Start)
  /\ UNCHANGED start
  /\ StartUnchanged

Started ==
  /\ start = "begun" /\ work[Start] = <<>>
  /\ start' = "up"
  /\ UNCHANGED <<work, intent, overlap, asked>> /\ StartUnchanged

\* A batch has arrived, and the settings are read for it: a feed that is
\* paused or without a channel posts nothing.
FeedReadsSettings ==
  /\ start = "up" /\ work[Feed] = <<>>
  /\ got.channel = None
  /\ settings.enabled /\ settings.channel # None
  /\ got' = [channel |-> settings.channel, quiet |-> quiet]
  /\ Begin(Feed, <<Fill, Read>>, {})
  /\ UNCHANGED <<default, settings, route, panel, start, commands, routeTroubles, filled, quiet>>

\* route_channel: where the kind's rows go, by default to the feed's channel.
RouteChannel == IF route.channel = None THEN got.channel ELSE route.channel

\* The routes are read; rows of a hidden kind are left out.
FeedReadsRoutes ==
  /\ Reading(Feed)
  /\ End(Feed)
  /\ got' = IF route.on THEN [got EXCEPT !.channel = RouteChannel] ELSE NotRead
  /\ UNCHANGED <<default, settings, route, panel, start, commands, routeTroubles, filled, quiet>>

\* The rows are posted, or that fails.
Posting == got.channel # None /\ work[Feed] = <<>>

Post ==
  /\ Posting
  /\ got' = NotRead
  /\ UNCHANGED <<default, settings, route, work, panel, start, commands, routeTroubles, history>>

-----------------------------------------------------------------------------
RoutesStep ==
  \/ \E p \in Procs : Execute(p) \/ Fail(p)
  \/ \E a \in Admins :
       \/ SetFeed(a) \/ Pause(a) \/ Resume(a) \/ ResetFeed(a) \/ RemoveFeed(a)
       \/ Customize(a) \/ PanelOpens(a) \/ Navigate(a) \/ Toggle(a) \/ ChooseChannel(a)
       \/ PanelTimesOut(a)
  \/ BeginStart \/ StartReads \/ Started \/ Crash
  \/ FeedReadsSettings \/ FeedReadsRoutes \/ Post

-----------------------------------------------------------------------------
(* Properties.                                                             *)

\* A kind's row is what the commands asked for: what the last one wrote, or
\* one of those that ran beside each other did.  The exception is a row that
\* get_event_routes inserts, shown whatever the kind (database/mod.rs:271):
\* after a remove, or within the set that follows it, whoever reads the routes
\* first, a delivery or an open panel, decides for the kinds that BRIDGE_KINDS
\* leaves out, and set, which inserts only what is missing, leaves it so.
RoutesAccounted == Value \in asked \/ filled

\* "Nothing will post until `/chatbridge set`" (chatbridge.rs:303): what is
\* posted after a remove had read its settings before, unless the bot's own
\* start has given the feed its channel back (bridge.rs:180-194).
RemovedIsSilent == Posting /\ quiet => ~got.quiet
=============================================================================
