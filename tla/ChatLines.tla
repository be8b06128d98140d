----------------------------- MODULE ChatLines ------------------------------
(***************************************************************************)
(* What a logger makes of a line in the game's chat: classify tries the    *)
(* patterns in a fixed order, and handle_chat decides from the result      *)
(* which row is written, whether a join or leave is recorded, and whether  *)
(* everyone is marked offline.                                             *)
(*                                                                         *)
(* A line is what the code can tell apart of it, and, for the properties,  *)
(* what really happened.  Most servers send what a player typed as a       *)
(* system line in a format of their own, which one of the patterns Spoken  *)
(* is meant for; other patterns may fit it too.  A name stands for its     *)
(* kind: clean_named refuses a name with the proxy's star, and one made of *)
(* the letters of colour codes in a line that has any.                     *)
(***************************************************************************)
EXTENDS Naturals, Sequences, FiniteSets

NoName == "none"

\* A name that a player typed, of somebody else.
Another == "another"

\* The patterns of classify in the order in which they are tried.  Join and
\* leave have several spellings, one of them without a name.
AnglePattern == <<"angle">>
EventPatterns == <<"join", "leave", "advancement", "death">>
LatePatterns == <<"cute", "tagged", "rempolon", "prefixed", "colon", "nametag">>

\* Mutant: what a player typed in angle brackets may be read as an event.
EventsFirst == EventPatterns \o AnglePattern \o LatePatterns

Order == AnglePattern \o EventPatterns \o LatePatterns

Happenings == {"join", "leave", "advancement", "death"}
Spoken == {Order[i] : i \in 1..Len(Order)} \ Happenings
NameKinds == {"ordinary", "starred", "codes", "plugin", "self"}

\* What the game may send.  A template that puts the killer first begins with
\* anything, so that what a player typed may fit it too.  junk is what
\* is_bridge_spam knows, in the line or only in what the pattern takes for the
\* content.
OwnLines ==
  [truth : {"typed"}, from : {"player"}, whisper : BOOLEAN, name : NameKinds, format : {"none"},
   quotes : {FALSE}, fits : {{}}, codes : {FALSE}, junk : {"no", "content"}, countdown : BOOLEAN]

\* The patterns that find the speaker of a line in another's format as well.
Beside(format) ==
  CASE format = "angle"                          -> {"tagged", "prefixed"}
    [] format = "tagged"                         -> {"prefixed", "nametag"}
    [] format = "rempolon"                       -> {"prefixed"}
    [] format = "nametag"                        -> {"tagged"}
    [] format \in {"cute", "prefixed", "colon"} -> {}

\* The formats whose lines the arrow pattern also fits when the player typed
\* "Name > text" with its arrow: it takes whatever comes before for a rank.
Quoting == {"angle", "cute", "tagged", "rempolon", "colon"}

\* The cute pattern misses its own format when there is no rank and the player
\* typed "Name: text".
Readings(format, quotes) ==
  LET quoted == IF quotes THEN {"rempolon"} ELSE {}
      spoken == {{format} \cup s \cup quoted : s \in SUBSET Beside(format)}
                  \cup (IF format = "cute" /\ ~quotes THEN {{}} ELSE {})
  IN {p \cup e : p \in spoken, e \in SUBSET {"death"}}

InFormat(format, quotes) ==
  [truth : {"typed"}, from : {"system", "disguised"}, whisper : BOOLEAN, name : NameKinds,
   format : {format}, quotes : {quotes}, fits : Readings(format, quotes), codes : BOOLEAN,
   junk : {"no", "line", "content"}, countdown : BOOLEAN]

Formats == {InFormat(f, FALSE) : f \in Spoken} \cup {InFormat(f, TRUE) : f \in Quoting}

FormattedLines == UNION Formats

Typed == OwnLines \cup FormattedLines

Announcement(h, e, name, codes) ==
  [truth |-> h, from |-> "system", whisper |-> FALSE, name |-> name, format |-> "none",
   quotes |-> FALSE, fits |-> {h} \cup e, codes |-> codes, junk |-> "no", countdown |-> FALSE]

Named ==
  {Announcement(h, e, n, c) : h \in Happenings, e \in SUBSET {"death"}, n \in NameKinds, c \in BOOLEAN}
Nameless == {Announcement(h, {}, NoName, TRUE) : h \in {"join", "leave"}}

Announced == Named \cup Nameless

\* A notice may be written like chat: "Shop: text".
NoticeReadings == {p \cup e : p \in {{}} \cup {{q} : q \in Spoken}, e \in SUBSET {"death"}}

Notices ==
  [truth : {"notice"}, from : {"system"}, whisper : {FALSE}, name : NameKinds, format : {"none"},
   quotes : {FALSE}, fits : NoticeReadings, codes : BOOLEAN, junk : {"no", "line"},
   countdown : BOOLEAN]

Lines == Typed \cup Announced \cup Notices

-----------------------------------------------------------------------------
\* clean_named: the name as it is stored, if it can be one.
Clean(name, codes) ==
  IF name = "starred" \/ (name = "codes" /\ codes) THEN NoName ELSE name

Result(kind, sender, about) == [kind |-> kind, sender |-> sender, about |-> about]
Of(kind) == Result(kind, NoName, NoName)

\* Who a pattern takes for the speaker.
Captured(l, p) == IF p = "rempolon" /\ l.quotes THEN Another ELSE l.name

\* Who a happening is taken to be about; in a line of chat it is the message
\* that tells of a death.
Subject(l) == IF l.format = "none" THEN l.name ELSE Another

\* chat_from_capture and the two patterns that do the same in place.  Its
\* text has lost the colour codes, so that only three patterns ask for them.
FromCapture(l, p) ==
  LET name == Clean(Captured(l, p), l.codes /\ p \in {"cute", "colon"})
  IN CASE Captured(l, p) = "plugin" -> Of(IF l.junk = "content" /\ p # "colon" THEN "u" ELSE "s")
       [] Captured(l, p) # "plugin" /\ l.junk = "content" -> Of("u")
       [] Captured(l, p) # "plugin" /\ l.junk # "content" ->
            IF name = NoName THEN Of("s") ELSE Result("c", name, NoName)

\* A bracket pattern whose name is refused leaves the line to the others.
Tried(l, p) ==
  p \in l.fits /\ (p = "cute" => l.name = "plugin" \/ l.junk = "content"
                                   \/ Clean(l.name, l.codes) # NoName)

ByPattern(l) ==
  LET fitting == {i \in 1..Len(Order) : Tried(l, Order[i])}
      p == Order[CHOOSE i \in fitting : \A j \in fitting : i <= j]
      about == Clean(Subject(l), l.codes)
  IN CASE fitting = {} -> Of("s")
       [] fitting # {} /\ p \in Spoken -> FromCapture(l, p)
       [] fitting # {} /\ p \in {"join", "leave"} ->
            Result(IF p = "join" THEN "j" ELSE "l", NoName, about)
       [] fitting # {} /\ p = "advancement" -> Result("a", NoName, about)
       [] fitting # {} /\ p = "death" ->
            IF about = NoName THEN Of("u") ELSE Result("d", NoName, about)

\* classify
Classify(l) ==
  CASE l.whisper -> Of("w")
    [] ~l.whisper /\ l.from = "player" -> Of("c")
    [] ~l.whisper /\ l.from # "player" ->
         IF l.junk = "line" THEN Of("u") ELSE ByPattern(l)

-----------------------------------------------------------------------------
VARIABLES
  announces,  \* ~cfg.tablist_joins: chat owns the joins and leaves
  line,       \* history: the line handled last
  row,        \* its row in chat_messages_raw
  event,      \* its row in player_events_raw
  cleared     \* it has emptied tab_online and queued a ServerRestart

lineVars == <<announces, line, row, event, cleared>>

NoLine == [truth |-> "notice", from |-> "system", whisper |-> FALSE, name |-> "plugin",
           format |-> "none", quotes |-> FALSE, fits |-> {}, codes |-> FALSE, junk |-> "line",
           countdown |-> FALSE]
NoRow == [kind |-> "none", sender |-> NoName, about |-> NoName, real |-> FALSE]

\* A player packet names its sender, another line what classify found.
Sender(l) == IF l.from = "player" THEN Clean(l.name, FALSE) ELSE Classify(l).sender

\* What handle_chat returns from before it does anything.
Dropped(l) ==
  LET spam == \/ l.junk = "line"
              \/ l.junk = "content" /\ l.from = "player"
              \/ Classify(l).kind = "u"
      plugin == Sender(l) = "plugin"
      player == l.from = "player" /\ Sender(l) \notin {NoName, "plugin"}
  IN \/ (spam \/ plugin) /\ ~player
     \/ l.from = "player" /\ Sender(l) = NoName

ChatRowOf(l) ==
  IF Classify(l).kind \in {"j", "l"} THEN NoRow
  ELSE [kind |-> Classify(l).kind, sender |-> Sender(l), about |-> Classify(l).about,
        real |-> l.from = "player"]

\* Mutant: chat that came as a player's own counts too.
AnyCountdown(l) == l.countdown

\* restart_countdown_secs of a line that is no player packet has run out.
RunsOut(l) == l.countdown /\ l.from # "player"

EventOf(l) ==
  IF announces /\ Classify(l).kind \in {"j", "l"} /\ Classify(l).about \notin {NoName, "self"}
  THEN Classify(l) ELSE Of("none")

LinesInit ==
  /\ announces \in BOOLEAN
  /\ line = NoLine
  /\ row = NoRow
  /\ event = Of("none")
  /\ cleared = FALSE

\* handle_chat
HandleChat ==
  /\ line = NoLine
  /\ \E l \in Lines \ {NoLine} :
       /\ line' = l
       /\ row' = IF Dropped(l) THEN NoRow ELSE ChatRowOf(l)
       /\ event' = IF Dropped(l) THEN Of("none") ELSE EventOf(l)
       /\ cleared' = (~Dropped(l) /\ RunsOut(l))
  /\ UNCHANGED announces

\* Nothing of a line is kept for the next one.
LineHandled ==
  /\ line # NoLine
  /\ line' = NoLine /\ row' = NoRow /\ event' = Of("none") /\ cleared' = FALSE
  /\ UNCHANGED announces

LinesStep == HandleChat \/ LineHandled

-----------------------------------------------------------------------------
(* Properties.                                                             *)

\* The arrow pattern is tried before the line's own, or that one has refused
\* the name.
Snatched(l) ==
  /\ l.quotes
  /\ l.format \in {"cute", "rempolon", "colon"}
  /\ l.format = "cute" => Clean(l.name, l.codes) = NoName

\* What a player said is stored as theirs, unless the name has the proxy's
\* star or is a plugin's, or it came as a system line and reads like a death
\* (but in angle brackets) or like what is_bridge_spam drops, is a whisper,
\* whose sender only its text names, has colour codes in one of the two
\* formats where a name like "bob" is then taken for more of them, quotes
\* another in the arrow format, or is missed by the cute pattern.
SpeechStored ==
  line.truth = "typed" =>
    \/ row.sender = line.name /\ row.kind \in {"c", "w"}
    \/ line.name \in {"starred", "plugin"}
    \/ line.from # "player" /\ (line.junk # "no" \/ line.whisper)
    \/ "death" \in line.fits /\ "angle" \notin line.fits
    \/ line.name = "codes" /\ line.codes /\ line.fits \cap {"cute", "colon"} # {}
    \/ Snatched(line)
    \/ line.format = "cute" /\ "cute" \notin line.fits

\* Nobody speaks for another, but for a player whose message quotes somebody
\* in the arrow format where that pattern comes first (classify.rs:793).
NobodySpeaksForAnother ==
  line.truth = "typed" => row.sender \in {line.name, NoName} \/ Snatched(line)

\* Nothing that only the server said is stored as said by a player, unless it
\* is written like chat.
NobodyMisquoted ==
  line.truth # "typed" => row.sender = NoName \/ line.fits \cap Spoken # {}

\* What happened to a player is recorded once: a join or a leave as an event
\* where chat owns them, a death or an advancement as a row about the player,
\* unless the name is refused or, for an event, the bot's own.
HappeningsStored ==
  line.truth \in Happenings =>
    \/ row.about = line.name /\ line.truth \in {"advancement", "death"}
    \/ event.about = line.name /\ line.truth \in {"join", "leave"}
    \/ line.truth \in {"join", "leave"} /\ (~announces \/ line.name = "self")
    \/ Clean(line.name, line.codes) = NoName

\* Only a countdown takes everyone offline.  "Only ever called on system
\* lines, so player chat about restarts cannot trigger it" (classify.rs:569)
\* holds for player packets: what a player typed in a system line does.  A
\* notice does not that is taken for the death of a name that is refused.
OnlyCountdownsClear ==
  /\ cleared => line.countdown /\ line.from # "player"
  /\ line.truth = "notice" /\ line.countdown /\ line.junk = "no" =>
       cleared \/ ("death" \in line.fits /\ Clean(line.name, line.codes) = NoName)

\* What became of the line that was handled last, in row, event and cleared.
LinesAccounted ==
  /\ SpeechStored /\ NobodySpeaksForAnother /\ NobodyMisquoted
  /\ HappeningsStored /\ OnlyCountdownsClear
=============================================================================
