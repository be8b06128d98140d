------------------------------ MODULE SayRelay ------------------------------
(***************************************************************************)
(* The two directions of a logger's connection to the gateway, for one     *)
(* server key: its events go up (StreamPublisher, mc-stream/src/lib.rs),   *)
(* and says come down: lines somebody asks it to speak in the game, handed *)
(* by a subscriber to its own connection, by the gateway to every logger   *)
(* of the key (Hub::relay_say, terminal-client/src/hub.rs), and spoken by  *)
(* relay_discord_says (azalea-bot/src/main.rs).                            *)
(*                                                                         *)
(* A connection has two ends, and each learns only later that the other is *)
(* gone.  To the end of a logger or of an asker it is "down", "up", or     *)
(* "cut": it has lost the gateway's end, and has not noticed.  The         *)
(* gateway's end of a logger that it has not noticed to be gone is a       *)
(* ghost: it is counted, and what is written to it is lost.                *)
(*                                                                         *)
(* The two directions share only the connections, so a behaviour looks at  *)
(* one of them (aspect).                                                   *)
(***************************************************************************)
EXTENDS Integers, Sequences, FiniteSets, SequencesExt

CONSTANTS Loggers,    \* producers of the key
          Askers,     \* subscribers that relay says: a bridge, an mc-tail
          Allowance,  \* GatewayConfig.say_per_min
          Minute,     \* the say window, in ticks
          SayCap,     \* capacity of the say channel
          Aspects,    \* the directions looked at: "says", "events"
          MaxSays, MaxEvents, MaxBreaks, MaxTicks   \* bounds of the model

ASSUME RelayAssumption ==
  /\ Allowance \in Nat \ {0} /\ Minute \in Nat \ {0} /\ SayCap \in Nat \ {0}
  /\ Aspects \subseteq {"says", "events"}
  /\ MaxSays \in Nat /\ MaxEvents \in Nat /\ MaxBreaks \in Nat /\ MaxTicks \in Nat

VARIABLES
  aspect,
  link,      \* link[x]: the connection as its logger or asker sees it
  gw,        \* gw[x]: the gateway's end of a connection that is up
  ghost,     \* ghost[l]: the gateway still counts a connection l has lost
  \* says
  flag,      \* flag[a]: StreamSubscriber.connected
  outbox,    \* outbox[a]: the say channel of the subscriber
  rising,    \* rising[a]: says written and not read by the gateway
  age, used, \* of the say window of a's connection
  sayq,      \* sayq[l]: the receiver of say_tx of l's connection
  falling,   \* falling[l]: says written and not read by the logger
  heard,     \* heard[l]: the channel relay_discord_says takes from
  inGame,    \* inGame[l]: bot_handle holds a client
  \* events
  queue,     \* queue[l]: the publisher's channel
  wire,      \* wire[l]: events written and not read by the gateway
  \* histories
  asked,     \* number of says, which are 1 .. asked
  asker,     \* asker[s]: who asked for s
  spoken,    \* spoken[l]: the says l spoke, in order
  excused,   \* says lost where the code can lose them
  relays,    \* relays[a]: when the says of a's connection were relayed
  published, \* published[l]: number of events, which are 1 .. published[l]
  ingested,  \* ingested[l]: the events of l the hub took, in order
  dropped,   \* dropped[l]: events lost where the code can lose them
  breaks, ticks

ends  == <<link, gw, ghost>>
asking  == <<flag, outbox, rising, age, used, relays>>
speaking == <<sayq, falling, heard, inGame, spoken>>
saying == <<asking, speaking, asked, asker, excused>>
events == <<queue, wire, published, ingested, dropped>>
bounds == <<breaks, ticks>>
vars == <<aspect, ends, saying, events, bounds>>

Says == 1 .. asked

Init ==
  /\ aspect \in Aspects
  /\ link = [x \in Loggers \cup Askers |-> "down"]
  /\ gw = [x \in Loggers \cup Askers |-> "none"]
  /\ ghost = [l \in Loggers |-> FALSE]
  /\ flag = [a \in Askers |-> FALSE]
  /\ outbox = [a \in Askers |-> <<>>] /\ rising = [a \in Askers |-> <<>>]
  /\ age = [a \in Askers |-> 0] /\ used = [a \in Askers |-> 0]
  /\ relays = [a \in Askers |-> <<>>]
  /\ sayq = [l \in Loggers |-> <<>>] /\ falling = [l \in Loggers |-> <<>>]
  /\ heard = [l \in Loggers |-> <<>>] /\ inGame = [l \in Loggers |-> TRUE]
  /\ spoken = [l \in Loggers |-> <<>>]
  /\ asked = 0 /\ asker = <<>> /\ excused = {}
  /\ queue = [l \in Loggers |-> <<>>] /\ wire = [l \in Loggers |-> <<>>]
  /\ published = [l \in Loggers |-> 0] /\ ingested = [l \in Loggers |-> <<>>]
  /\ dropped = [l \in Loggers |-> {}]
  /\ breaks = 0 /\ ticks = 0

-----------------------------------------------------------------------------
(* Connections.                                                            *)

\* The loggers a gateway's connection counts: the ClientGuard comes before
\* the subscription, and outlives a peer that vanished.
CountedLoggers == {l \in Loggers : ghost[l] \/ gw[l] \in {"counted", "subscribed"}}
Subscribed == {l \in Loggers : gw[l] = "subscribed"}

\* Mutant: a link that broke once is given up.
ConnectOnce(x) ==
  /\ link[x] = "down" /\ breaks = 0
  /\ aspect = "events" => x \in Loggers
  /\ link' = [link EXCEPT ![x] = "up"]
  /\ gw' = [gw EXCEPT ![x] = "greeting"]
  /\ UNCHANGED <<aspect, ghost, saying, events, bounds>>

\* run_producer and run_consumer of lib.rs: connect and write the hello.
Connect(x) ==
  /\ link[x] = "down"
  /\ aspect = "events" => x \in Loggers
  /\ link' = [link EXCEPT ![x] = "up"]
  /\ gw' = [gw EXCEPT ![x] = "greeting"]
  /\ UNCHANGED <<aspect, ghost, saying, events, bounds>>

\* handle_client accepts a logger: its guard counts it ...
Count(l) ==
  /\ gw[l] = "greeting"
  /\ gw' = [gw EXCEPT ![l] = "counted"]
  /\ UNCHANGED <<aspect, link, ghost, saying, events, bounds>>

\* ... and then it subscribes to the says.
SubscribeSays(l) ==
  /\ gw[l] = "counted"
  /\ gw' = [gw EXCEPT ![l] = "subscribed"]
  /\ UNCHANGED <<aspect, link, ghost, saying, events, bounds>>

\* handle_client accepts an asker, and starts the task that reads its says
\* with a say window of its own.
Admit(a) ==
  /\ gw[a] = "greeting"
  /\ gw' = [gw EXCEPT ![a] = "running"]
  /\ age' = [age EXCEPT ![a] = 0] /\ used' = [used EXCEPT ![a] = 0]
  /\ relays' = [relays EXCEPT ![a] = <<>>]
  /\ UNCHANGED <<aspect, link, ghost, flag, outbox, rising, speaking, asked,
                 asker, excused, events, bounds>>

\* The subscriber reads the ready frame.
ReadReady(a) ==
  /\ link[a] = "up" /\ gw[a] = "running" /\ ~flag[a]
  /\ flag' = [flag EXCEPT ![a] = TRUE]
  /\ UNCHANGED <<aspect, ends, outbox, rising, age, used, relays, speaking, asked,
                 asker, excused, events, bounds>>

\* What a logger's and an asker's connection takes with it when it is cut.
\* What the gateway had written to a logger can still arrive if it was the
\* gateway that ended the connection.
CutLoggers(S, arrives) ==
  /\ sayq' = [l \in Loggers |-> IF l \in S THEN <<>> ELSE sayq[l]]
  /\ falling' = [l \in Loggers |-> IF l \in S /\ ~arrives THEN <<>> ELSE falling[l]]
  /\ wire' = [l \in Loggers |-> IF l \in S THEN <<>> ELSE wire[l]]
  /\ dropped' = [l \in Loggers |-> IF l \in S THEN dropped[l] \cup ToSet(wire[l])
                                              ELSE dropped[l]]

CutAskers(S) ==
  rising' = [a \in Askers |-> IF a \in S THEN <<>> ELSE rising[a]]

LostWith(S, arrives) ==
  (UNION {ToSet(sayq[l]) \cup (IF arrives THEN {} ELSE ToSet(falling[l])) : l \in S \cap Loggers})
    \cup (UNION {ToSet(rising[a]) : a \in S \cap Askers})

Cut(S, arrives) ==
  /\ breaks < MaxBreaks
  /\ breaks' = breaks + 1
  /\ link' = [x \in DOMAIN link |-> IF x \in S THEN "cut" ELSE link[x]]
  /\ gw' = [x \in DOMAIN gw |-> IF x \in S THEN "none" ELSE gw[x]]
  /\ CutLoggers(S \cap Loggers, arrives) /\ CutAskers(S \cap Askers)
  /\ excused' = excused \cup LostWith(S, arrives)
  /\ UNCHANGED <<aspect, flag, outbox, age, used, relays, heard, inGame, spoken,
                 asked, asker, queue, published, ingested, ticks>>

\* The network loses a connection; the gateway keeps its end of a logger's
\* for producer_idle.
NetworkCut(x) ==
  /\ link[x] = "up"
  /\ Cut({x}, FALSE)
  /\ ghost' = [l \in Loggers |-> ghost[l] \/ (l = x /\ gw[l] \in {"counted", "subscribed"})]

\* The gateway restarts, and every end it had is gone.
GatewayRestart ==
  /\ Cut({x \in DOMAIN link : link[x] = "up"}, TRUE)
  /\ ghost' = [l \in Loggers |-> FALSE]

\* The gateway refuses a hello (reject), or its idle timeout ends a ghost.
Reject(x) ==
  /\ gw[x] = "greeting"
  /\ Cut({x}, TRUE)
  /\ UNCHANGED ghost

GhostEnds(l) ==
  /\ ghost[l]
  /\ ghost' = [ghost EXCEPT ![l] = FALSE]
  /\ UNCHANGED <<aspect, link, gw, saying, events, bounds>>

\* An end notices: an asker reads the end of the file, a logger's keepalive
\* fails or its reader finds an error frame.  spawn_with and build store
\* false in the flag and sleep.
Notice(x) ==
  /\ link[x] = "cut"
  /\ link' = [link EXCEPT ![x] = "down"]
  /\ flag' = [a \in Askers |-> IF a = x THEN FALSE ELSE flag[a]]
  /\ UNCHANGED <<aspect, gw, ghost, outbox, rising, age, used, relays, speaking,
                 asked, asker, excused, events, bounds>>

-----------------------------------------------------------------------------
(* Says.                                                                   *)

\* Bridge::say, or mc-tail's --say: only with the link's flag up.
Say(a) ==
  /\ aspect = "says" /\ asked < MaxSays
  /\ flag[a]
  /\ asked' = asked + 1
  /\ asker' = Append(asker, a)
  /\ outbox' = [outbox EXCEPT ![a] = Append(@, asked')]
  /\ UNCHANGED <<aspect, ends, flag, rising, age, used, relays, speaking, excused,
                 events, bounds>>

\* Mutant: a say that could not be written goes back to the end of the queue.
SendSayAgain(a) ==
  /\ link[a] # "down" /\ outbox[a] # <<>>
  /\ outbox' = [outbox EXCEPT ![a] = Tail(@) \o IF link[a] = "up" THEN <<>> ELSE <<Head(@)>>]
  /\ rising' = [rising EXCEPT ![a] = IF link[a] = "up" THEN Append(@, Head(outbox[a])) ELSE @]
  /\ UNCHANGED <<aspect, ends, flag, age, used, relays, speaking, asked, asker, excused,
                 events, bounds>>

\* run_consumer of lib.rs takes a say and writes it, whatever has become of
\* the other end.
SendSay(a) ==
  /\ link[a] # "down" /\ outbox[a] # <<>>
  /\ outbox' = [outbox EXCEPT ![a] = Tail(@)]
  /\ IF link[a] = "up"
     THEN /\ rising' = [rising EXCEPT ![a] = Append(@, Head(outbox[a]))]
          /\ UNCHANGED excused
     ELSE /\ excused' = excused \cup {Head(outbox[a])}
          /\ UNCHANGED rising
  /\ UNCHANGED <<aspect, ends, flag, age, used, relays, speaking, asked, asker,
                 events, bounds>>

\* Mutants: the window is never renewed; renewing it does not count the say.
NeverRenewed(a) == FALSE
UsedBefore(a) == IF age[a] >= Minute THEN 0 ELSE used[a] + 1

\* The window is renewed by the first say after it.
Renewed(a) == age[a] >= Minute

UsedNow(a) == IF Renewed(a) THEN 1 ELSE used[a] + 1

\* How many relays the last Minute ticks have seen.
RelayedLately(a) == Cardinality({i \in 1 .. Len(relays[a]) : relays[a][i] + Minute > ticks})

\* A broadcast channel keeps the newest SayCap says for a receiver.
Offer(q, s) == IF Len(q) < SayCap THEN Append(q, s) ELSE Append(Tail(q), s)

\* Hub::relay_say.
RelaySay(s) ==
  IF CountedLoggers = {}
  THEN UNCHANGED sayq
  ELSE sayq' = [l \in Loggers |-> IF l \in Subscribed THEN Offer(sayq[l], s) ELSE sayq[l]]

\* The reader task of Hub::run_consumer takes a line and relays it, or drops
\* it when the connection has used its allowance.
ReadSay(a) ==
  /\ gw[a] = "running" /\ rising[a] # <<>>
  /\ LET s == Head(rising[a])
     IN /\ rising' = [rising EXCEPT ![a] = Tail(@)]
        /\ age' = [age EXCEPT ![a] = IF Renewed(a) THEN 0 ELSE @]
        /\ used' = [used EXCEPT ![a] = UsedNow(a)]
        /\ IF UsedNow(a) > Allowance
           THEN /\ excused' = IF RelayedLately(a) >= Allowance THEN excused \cup {s} ELSE excused
                /\ UNCHANGED <<relays, sayq>>
           ELSE /\ relays' = [relays EXCEPT ![a] = Append(@, ticks)]
                /\ RelaySay(s)
                /\ excused' = excused
                     \cup (IF Subscribed = {} THEN {s} ELSE {})
                     \cup {Head(sayq[l]) : l \in {k \in Subscribed : Len(sayq[k]) = SayCap}}
  /\ UNCHANGED <<aspect, ends, flag, outbox, falling, heard, inGame, spoken, asked,
                 asker, events, bounds>>

\* The say task of Hub::run_producer writes a say to the logger.
WriteSay(l) ==
  /\ gw[l] = "subscribed" /\ sayq[l] # <<>>
  /\ falling' = [falling EXCEPT ![l] = Append(@, Head(sayq[l]))]
  /\ sayq' = [sayq EXCEPT ![l] = Tail(@)]
  /\ UNCHANGED <<aspect, ends, asking, heard, inGame, spoken, asked, asker, excused,
                 events, bounds>>

\* The reader task of the publisher's connection hands it on.
HearSay(l) ==
  /\ falling[l] # <<>>
  /\ heard' = [heard EXCEPT ![l] = Append(@, Head(falling[l]))]
  /\ falling' = [falling EXCEPT ![l] = Tail(@)]
  /\ UNCHANGED <<aspect, ends, asking, sayq, inGame, spoken, asked, asker, excused,
                 events, bounds>>

\* relay_discord_says: a blank line or a command is refused; a line is spoken
\* when the minimum gap has passed, or dropped outside the game.
RefuseSay(l) ==
  /\ heard[l] # <<>>
  /\ heard' = [heard EXCEPT ![l] = Tail(@)]
  /\ excused' = excused \cup {Head(heard[l])}
  /\ UNCHANGED <<aspect, ends, asking, sayq, falling, inGame, spoken, asked, asker,
                 events, bounds>>

\* Mutant: outside the game a line waits for the next client.
SpeakInGame(l) ==
  /\ heard[l] # <<>> /\ inGame[l]
  /\ heard' = [heard EXCEPT ![l] = Tail(@)]
  /\ spoken' = [spoken EXCEPT ![l] = Append(@, Head(heard[l]))]
  /\ UNCHANGED <<aspect, ends, asking, sayq, falling, inGame, asked, asker, excused,
                 events, bounds>>

Speak(l) ==
  /\ heard[l] # <<>>
  /\ heard' = [heard EXCEPT ![l] = Tail(@)]
  /\ IF inGame[l]
     THEN /\ spoken' = [spoken EXCEPT ![l] = Append(@, Head(heard[l]))]
          /\ UNCHANGED excused
     ELSE /\ excused' = excused \cup {Head(heard[l])}
          /\ UNCHANGED spoken
  /\ UNCHANGED <<aspect, ends, asking, sayq, falling, inGame, asked, asker,
                 events, bounds>>

\* The logger's client leaves the game or comes back (bot_handle).
LeaveOrJoin(l) ==
  /\ aspect = "says" /\ breaks < MaxBreaks
  /\ breaks' = breaks + 1
  /\ inGame' = [inGame EXCEPT ![l] = ~@]
  /\ UNCHANGED <<aspect, ends, asking, sayq, falling, heard, spoken, asked, asker,
                 excused, events, ticks>>

Tick ==
  /\ aspect = "says" /\ ticks < MaxTicks
  /\ ticks' = ticks + 1
  /\ age' = [a \in Askers |-> IF age[a] < Minute THEN age[a] + 1 ELSE age[a]]
  /\ UNCHANGED <<aspect, ends, flag, outbox, rising, used, relays, speaking, asked,
                 asker, excused, events, breaks>>

-----------------------------------------------------------------------------
(* Events.                                                                 *)

\* StreamPublisher::publish.
Publish(l) ==
  /\ aspect = "events" /\ published[l] < MaxEvents
  /\ published' = [published EXCEPT ![l] = @ + 1]
  /\ queue' = [queue EXCEPT ![l] = Append(@, published'[l])]
  /\ UNCHANGED <<aspect, ends, saying, wire, ingested, dropped, bounds>>

\* run_producer of lib.rs takes an event and writes it.
SendEvent(l) ==
  /\ link[l] = "up" /\ queue[l] # <<>>
  /\ wire' = [wire EXCEPT ![l] = Append(@, Head(queue[l]))]
  /\ queue' = [queue EXCEPT ![l] = Tail(@)]
  /\ UNCHANGED <<aspect, ends, saying, published, ingested, dropped, bounds>>

\* Mutant: an event that could not be written goes back to the end of the queue.
SendAgain(l) ==
  /\ link[l] = "cut" /\ queue[l] # <<>>
  /\ queue' = [queue EXCEPT ![l] = Append(Tail(@), Head(@))]
  /\ link' = [link EXCEPT ![l] = "down"]
  /\ UNCHANGED <<aspect, gw, ghost, saying, wire, published, ingested, dropped, bounds>>

\* It does the same when the other end is gone: the write succeeds or fails,
\* and the event is lost either way.
SendIntoVoid(l) ==
  /\ link[l] = "cut" /\ queue[l] # <<>>
  /\ queue' = [queue EXCEPT ![l] = Tail(@)]
  /\ dropped' = [dropped EXCEPT ![l] = @ \cup {Head(queue[l])}]
  /\ \/ UNCHANGED link
     \/ link' = [link EXCEPT ![l] = "down"]
  /\ UNCHANGED <<aspect, gw, ghost, saying, wire, published, ingested, bounds>>

\* Hub::run_producer reads an event and ingests it.
Ingest(l) ==
  /\ gw[l] = "subscribed" /\ wire[l] # <<>>
  /\ ingested' = [ingested EXCEPT ![l] = Append(@, Head(wire[l]))]
  /\ wire' = [wire EXCEPT ![l] = Tail(@)]
  /\ UNCHANGED <<aspect, ends, saying, queue, published, dropped, bounds>>

-----------------------------------------------------------------------------
Next ==
  \/ \E x \in Loggers \cup Askers :
       Connect(x) \/ NetworkCut(x) \/ Reject(x) \/ Notice(x)
  \/ \E l \in Loggers :
       \/ Count(l) \/ SubscribeSays(l) \/ GhostEnds(l)
       \/ WriteSay(l) \/ HearSay(l) \/ RefuseSay(l) \/ Speak(l) \/ LeaveOrJoin(l)
       \/ Publish(l) \/ SendEvent(l) \/ SendIntoVoid(l) \/ Ingest(l)
  \/ \E a \in Askers : Admit(a) \/ ReadReady(a) \/ Say(a) \/ SendSay(a) \/ ReadSay(a)
  \/ GatewayRestart
  \/ Tick

Spec == Init /\ [][Next]_vars

\* Tasks that are ready run, and the publisher's loop tries for ever; breaks,
\* says and events need not come, nor need a line be one that is refused.
Fairness ==
  /\ \A l \in Loggers :
       /\ WF_vars(WriteSay(l)) /\ WF_vars(HearSay(l)) /\ WF_vars(Speak(l))
       /\ WF_vars(Connect(l)) /\ WF_vars(Count(l)) /\ WF_vars(SubscribeSays(l))
       /\ WF_vars(SendEvent(l)) /\ WF_vars(SendIntoVoid(l)) /\ WF_vars(Ingest(l))

FairSpec == Spec /\ Fairness

-----------------------------------------------------------------------------
(* Properties.                                                             *)

InFlight(s) ==
  \/ \E a \in Askers : s \in ToSet(outbox[a]) \cup ToSet(rising[a])
  \/ \E l \in Loggers : s \in ToSet(sayq[l]) \cup ToSet(falling[l]) \cup ToSet(heard[l])

\* A say that somebody was told is on its way is spoken, or was lost in one
\* of the places the code can lose it: written to or waiting on a connection
\* that was cut, relayed while no logger was subscribed, beyond an allowance
\* that was really used in the last minute, pushed out of a full say channel,
\* refused, or heard outside the game.
SaysAccounted ==
  \A s \in Says : InFlight(s) \/ s \in excused \/ \E l \in Loggers : s \in ToSet(spoken[l])

\* A connection relays at most twice its allowance within a minute: the window
\* is fixed, not sliding, so two of them may meet in it (hub.rs:815-821).
RateKept == \A a \in Askers : RelayedLately(a) <= 2 * Allowance

\* A logger speaks the says of one asker in the order they were asked in, and
\* none twice, whatever is reconnected meanwhile.
SpokenInOrder ==
  \A l \in Loggers : \A i, j \in 1 .. Len(spoken[l]) :
    i < j /\ asker[spoken[l][i]] = asker[spoken[l][j]] => spoken[l][i] < spoken[l][j]

\* Says are kept, and in order, as far as the connections allow.
SaysKept == SaysAccounted /\ SpokenInOrder

\* The gateway ingests a logger's events in the order they were published in,
\* none twice, and an event that is not waiting was lost with a connection.
UplinkKept ==
  \A l \in Loggers :
    /\ \A i, j \in 1 .. Len(ingested[l]) : i < j => ingested[l][i] < ingested[l][j]
    /\ \A e \in 1 .. published[l] :
         \/ e \in ToSet(queue[l]) \cup ToSet(wire[l]) \cup dropped[l]
         \/ e \in ToSet(ingested[l])

\* A say that reached a logger's channel is spoken by it, unless its connection
\* is cut, the channel lags, or the line is refused or heard outside the game;
\* a lagging say task must go on (hub.rs:685-691).
SaysReach ==
  \A s \in 1 .. MaxSays : \A l \in Loggers :
    s \in ToSet(sayq[l]) ~> (s \in excused \/ s \in ToSet(spoken[l]))

\* An event that was published does not wait for ever: the publisher connects
\* again and again, and the queue behind a break is written.
UplinkMoves ==
  \A l \in Loggers : queue[l] # <<>> ~> queue[l] = <<>>

\* Neither direction stops for good.
RelayMoves == SaysReach /\ UplinkMoves
=============================================================================
