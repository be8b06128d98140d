---------------------------- MODULE EventStream ----------------------------
(***************************************************************************)
(* The live feed of one server key: loggers (producers) hand events to the *)
(* gateway's Hub, which stamps, buffers and fans them out; each consumer   *)
(* is a Hub::run_consumer task at the gateway and a StreamSubscriber with  *)
(* the Discord bridge's filter behind it at the other end of one TCP       *)
(* connection.                                                             *)
(*                                                                         *)
(* An event is identified by the order in which Hub::ingest stamped it     *)
(* (1, 2, ...); stamp[e] is the sequence number it was given.  The ring    *)
(* and the broadcast channel are kept the way tokio keeps them: the whole  *)
(* history in order, with a position for what has been evicted (ring) or   *)
(* already received (channel).                                             *)
(***************************************************************************)
EXTENDS Integers, Sequences, Functions

CONSTANTS
  Producers,      \* connections that may be inside Hub::ingest
  Consumers,      \* subscribers of this key
  BufferCap,      \* GatewayConfig.buffer_cap, the ring's capacity (BUFFER)
  BroadcastCap,   \* BROADCAST_CAP, what the broadcast channel retains
  Replay,         \* SubscribeOptions.replay, the first backfill's length
  FirstSeq,       \* the clock reading that seeds the first hub
  MaxEvents,      \* bound: events ingested in a behaviour
  MaxSeq,         \* bound: largest seed a restart may read off the clock
  MaxRestarts,    \* bound: gateway restarts in a behaviour
  ClockSkew       \* how far behind the last sequence a restart's clock may be

ASSUME StreamAssumption ==
  /\ BufferCap \in Nat \ {0}      \* Hub::new takes buffer_cap.max(1)
  /\ BroadcastCap \in Nat \ {0}
  /\ Replay \in Nat
  /\ FirstSeq \in Nat \ {0}       \* unix_millis()
  /\ MaxEvents \in Nat
  /\ MaxSeq \in Nat
  /\ MaxRestarts \in Nat
  /\ ClockSkew \in Nat

VARIABLES
  \* the Hub
  seq,         \* Hub.seq
  stamp,       \* stamp[e]: the sequence number ingest gave event e
  pushed,      \* events in the order they entered Hub.ring
  evicted,     \* Hub.ring_evicted: the ring is pushed[evicted + 1 ..]
  sent,        \* events in the order they entered the broadcast channel
  ingesting,   \* ingesting[p]: how far p's call of Hub::ingest has come
  restarts,    \* gateway restarts so far
  \* Hub::run_consumer, one task for each consumer's connection
  task,        \* where the task is
  since,       \* hello.since_seq, 0 for None
  fill,        \* the backfill (or refill) vector still to be written
  pos,         \* messages its broadcast receiver has taken
  lastSent,    \* the local last_sent
  wire,        \* events written to the socket and not yet read
  \* StreamSubscriber and the bridge behind it
  lastSeq,     \* StreamSubscriber.last_seq
  got,         \* history: events handed to the subscriber's channel
  bridgeLast,  \* the bridge's own last_seq
  shown,       \* events accept_stream_event let through
  slipped      \* history: broadcast between a task's snapshot and subscription

hubVars  == <<seq, stamp, pushed, evicted, sent, ingesting, restarts>>
taskVars == <<task, since, fill, pos, lastSent, wire>>
subVars  == <<lastSeq, got, bridgeLast, shown>>
vars     == <<hubVars, taskVars, subVars, slipped>>

-----------------------------------------------------------------------------
Events == 1..Len(stamp)
Idle   == [at |-> "idle", event |-> 0]
NoFill == [from |-> 1, to |-> 0, after |-> 0]

Larger(a, b) == IF a >= b THEN a ELSE b

\* The events the ring holds now.
Ring == {pushed[i] : i \in (evicted + 1)..Len(pushed)}

\* Mutant: the oldest buffered event is left out of a replay.
ReplaySinceSkipsOldest(s) == [from |-> evicted + 2, to |-> Len(pushed), after |-> s]

\* Hub::replay_since: everything buffered after s, oldest first.
ReplaySince(s) == [from |-> evicted + 1, to |-> Len(pushed), after |-> s]

\* Hub::replay_last: the newest n buffered, oldest first.
ReplayLast(n) ==
  [from |-> Larger(evicted, Len(pushed) - n) + 1, to |-> Len(pushed), after |-> 0]

\* Mutant: a resume repeats the event it resumes from.
FillLeftInclusive(c) ==
  {i \in fill[c].from..fill[c].to : stamp[pushed[i]] >= fill[c].after}

\* Positions of pushed that c's task still has to write from its vector.
FillLeft(c) == {i \in fill[c].from..fill[c].to : stamp[pushed[i]] > fill[c].after}

InFill(c) == {pushed[i] : i \in FillLeft(c)}

\* ring_evicted once one more event is in: while ring.len() >= cap, pop_front.
EvictedAfterPush == Larger(evicted, Len(pushed) + 1 - BufferCap)

\* Mutant: the filter lets an event equal to the last one through.
AlreadySentLax(c, e) == stamp[e] < lastSent[c]

\* The filter of run_consumer's loop: "anything the backfill delivered".
AlreadySent(c, e) == stamp[e] <= lastSent[c]

\* Mutant: last_sent starts at the hub's sequence instead of the resume point.
FirstLastSentAtHub(c) == seq

\* last_sent when the loop is entered: start.since_seq.unwrap_or(0).
FirstLastSent(c) == since[c]

\* Mutant: the bridge also refuses the event right after the last one.
RefusesNext(c, e) == stamp[e] <= bridgeLast[c] + 1

\* accept_stream_event refuses what is not newer than the bridge's last_seq.
Refuses(c, e) == stamp[e] <= bridgeLast[c]

\* The receiver fell further behind than the channel retains.
Lagging(c) == Len(sent) - pos[c] > BroadcastCap

\* Sequence numbers a (re)started hub may read off the clock: not behind the
\* last one handed out, unless the clock stepped back by up to ClockSkew.
Seeds == {s \in 1..MaxSeq : s + ClockSkew >= seq}

-----------------------------------------------------------------------------
Init ==
  /\ seq = FirstSeq
  /\ stamp = <<>>
  /\ pushed = <<>>
  /\ evicted = 0
  /\ sent = <<>>
  /\ ingesting = [p \in Producers |-> Idle]
  /\ restarts = 0
  /\ task = [c \in Consumers |-> "none"]
  /\ since = [c \in Consumers |-> 0]
  /\ fill = [c \in Consumers |-> NoFill]
  /\ pos = [c \in Consumers |-> 0]
  /\ lastSent = [c \in Consumers |-> 0]
  /\ wire = [c \in Consumers |-> <<>>]
  /\ lastSeq = [c \in Consumers |-> 0]
  /\ got = [c \in Consumers |-> <<>>]
  /\ bridgeLast = [c \in Consumers |-> 0]
  /\ shown = [c \in Consumers |-> {}]
  /\ slipped = [c \in Consumers |-> {}]

-----------------------------------------------------------------------------
(* Hub::ingest: three steps, because the sequence number is taken before  *)
(* the ring is locked and the broadcast happens after it is unlocked.     *)

\* let seq = self.seq.fetch_add(1) + 1; event.set_seq(seq);
Stamp(p) ==
  /\ ingesting[p] = Idle
  /\ Len(stamp) < MaxEvents
  /\ seq' = seq + 1
  /\ stamp' = Append(stamp, seq + 1)
  /\ ingesting' = [ingesting EXCEPT ![p] = [at |-> "stamped", event |-> Len(stamp) + 1]]
  /\ UNCHANGED <<pushed, evicted, sent, restarts, taskVars, subVars, slipped>>

\* Under the ring's lock: make room, then push_back.
Buffer(p) ==
  /\ ingesting[p].at = "stamped"
  /\ pushed' = Append(pushed, ingesting[p].event)
  /\ evicted' = EvictedAfterPush
  /\ ingesting' = [ingesting EXCEPT ![p].at = "buffered"]
  /\ UNCHANGED <<seq, stamp, sent, restarts, taskVars, subVars, slipped>>

\* self.tx.send(event): every subscribed receiver will see it.
Send(p) ==
  /\ ingesting[p].at = "buffered"
  /\ sent' = Append(sent, ingesting[p].event)
  /\ ingesting' = [ingesting EXCEPT ![p] = Idle]
  /\ slipped' = [c \in Consumers |->
                   IF task[c] = "snapshot" /\ ingesting[p].event \notin InFill(c)
                   THEN slipped[c] \cup {ingesting[p].event}
                   ELSE slipped[c]]
  /\ UNCHANGED <<seq, stamp, pushed, evicted, restarts, taskVars, subVars>>

-----------------------------------------------------------------------------
(* handle_client and Hub::run_consumer, with the subscriber's handshake.  *)

\* The subscriber dials and says hello with its resume point; the gateway
\* answers Ready.  A Ready behind the resume point makes the subscriber
\* forget it, but the hello it was computed from has already been sent.
Connect(c) ==
  /\ task[c] = "none"
  /\ task' = [task EXCEPT ![c] = "admitted"]
  /\ since' = [since EXCEPT ![c] = lastSeq[c]]
  /\ lastSeq' = [lastSeq EXCEPT ![c] = IF seq < lastSeq[c] THEN 0 ELSE @]
  /\ UNCHANGED <<hubVars, fill, pos, lastSent, wire, got, bridgeLast, shown, slipped>>

\* let backfill = match start.since_seq { .. }
Snapshot(c) ==
  /\ task[c] = "admitted"
  /\ fill' = [fill EXCEPT ![c] = IF since[c] > 0 THEN ReplaySince(since[c])
                                                 ELSE ReplayLast(Replay)]
  /\ task' = [task EXCEPT ![c] = "snapshot"]
  /\ UNCHANGED <<hubVars, since, pos, lastSent, wire, subVars, slipped>>

\* let mut rx = self.tx.subscribe(); let mut last_sent = since.unwrap_or(0);
Subscribe(c) ==
  /\ task[c] = "snapshot"
  /\ pos' = [pos EXCEPT ![c] = Len(sent)]
  /\ lastSent' = [lastSent EXCEPT ![c] = FirstLastSent(c)]
  /\ task' = [task EXCEPT ![c] = "live"]
  /\ UNCHANGED <<hubVars, since, fill, wire, subVars, slipped>>

\* write_event of the next event of the backfill or of a refill.
WriteFill(c) ==
  /\ task[c] = "live"
  /\ \E i \in FillLeft(c) :
       /\ \A j \in FillLeft(c) : i <= j
       /\ fill' = [fill EXCEPT ![c].from = i + 1]
       /\ wire' = [wire EXCEPT ![c] = Append(@, pushed[i])]
       /\ lastSent' = [lastSent EXCEPT ![c] = Larger(@, stamp[pushed[i]])]
  /\ UNCHANGED <<hubVars, task, since, pos, subVars, slipped>>

\* rx.recv() is Ok: what was sent already is skipped, the rest is written.
Receive(c) ==
  /\ task[c] = "live"
  /\ FillLeft(c) = {}
  /\ pos[c] < Len(sent)
  /\ ~Lagging(c)
  /\ pos' = [pos EXCEPT ![c] = @ + 1]
  /\ LET e == sent[pos[c] + 1] IN
       IF AlreadySent(c, e)
       THEN UNCHANGED <<wire, lastSent>>
       ELSE /\ wire' = [wire EXCEPT ![c] = Append(@, e)]
            /\ lastSent' = [lastSent EXCEPT ![c] = stamp[e]]
  /\ UNCHANGED <<hubVars, task, since, fill, subVars, slipped>>

\* rx.recv() is Err(Lagged(n)): the receiver moves to the oldest message the
\* channel retains.
Lag(c) ==
  /\ task[c] = "live"
  /\ FillLeft(c) = {}
  /\ Lagging(c)
  /\ pos' = [pos EXCEPT ![c] = Len(sent) - BroadcastCap]
  /\ task' = [task EXCEPT ![c] = "lagged"]
  /\ UNCHANGED <<hubVars, since, fill, lastSent, wire, subVars, slipped>>

\* .. and refills from the ring: self.replay_since(last_sent).
Refill(c) ==
  /\ task[c] = "lagged"
  /\ fill' = [fill EXCEPT ![c] = ReplaySince(lastSent[c])]
  /\ task' = [task EXCEPT ![c] = "live"]
  /\ UNCHANGED <<hubVars, since, pos, lastSent, wire, subVars, slipped>>

-----------------------------------------------------------------------------
(* The subscriber's end of the connection.                                *)

\* mc_stream's run_consumer reads one event line: it advances last_seq and
\* hands the event over; the bridge's accept_stream_event filters it.
Deliver(c) ==
  /\ wire[c] # <<>>
  /\ wire' = [wire EXCEPT ![c] = Tail(@)]
  /\ LET e == Head(wire[c]) IN
       /\ lastSeq' = [lastSeq EXCEPT ![c] = Larger(@, stamp[e])]
       /\ got' = [got EXCEPT ![c] = Append(@, e)]
       /\ IF Refuses(c, e)
          THEN UNCHANGED <<bridgeLast, shown>>
          ELSE /\ bridgeLast' = [bridgeLast EXCEPT ![c] = stamp[e]]
               /\ shown' = [shown EXCEPT ![c] = @ \cup {e}]
  /\ UNCHANGED <<hubVars, task, since, fill, pos, lastSent, slipped>>

\* The connection ends (reset, write timeout, missed ping): whatever was
\* written and not read is lost, and the subscriber will dial again.
Break(c) ==
  /\ task[c] # "none"
  /\ task' = [task EXCEPT ![c] = "none"]
  /\ wire' = [wire EXCEPT ![c] = <<>>]
  /\ fill' = [fill EXCEPT ![c] = NoFill]
  /\ UNCHANGED <<hubVars, since, pos, lastSent, subVars, slipped>>

\* The gateway process dies and comes back: Hub::new, every connection gone.
Restart ==
  /\ restarts < MaxRestarts
  /\ restarts' = restarts + 1
  /\ seq' \in Seeds
  /\ pushed' = <<>>
  /\ evicted' = 0
  /\ sent' = <<>>
  /\ ingesting' = [p \in Producers |-> Idle]
  /\ task' = [c \in Consumers |-> "none"]
  /\ fill' = [c \in Consumers |-> NoFill]
  /\ pos' = [c \in Consumers |-> 0]
  /\ wire' = [c \in Consumers |-> <<>>]
  /\ UNCHANGED <<stamp, since, lastSent, subVars, slipped>>

-----------------------------------------------------------------------------
Ingest == \E p \in Producers : Stamp(p) \/ Buffer(p) \/ Send(p)

\* Hub::run_consumer's own steps once the connection is admitted.
RunConsumer(c) ==
  \/ Snapshot(c) \/ Subscribe(c)
  \/ WriteFill(c) \/ Receive(c) \/ Lag(c) \/ Refill(c)

Next ==
  \/ Ingest
  \/ \E c \in Consumers : Connect(c) \/ RunConsumer(c) \/ Deliver(c) \/ Break(c)
  \/ Restart

Spec == Init /\ [][Next]_vars

\* ingest has no await, and tokio runs every task that is ready: the steps
\* of a call, of a consumer task and of the subscriber's loop are taken.
\* Nothing obliges a logger to produce or a connection to break.
Fairness ==
  /\ \A p \in Producers : WF_vars(Buffer(p) \/ Send(p))
  /\ \A c \in Consumers : WF_vars(RunConsumer(c)) /\ WF_vars(Deliver(c))

FairSpec == Spec /\ Fairness

-----------------------------------------------------------------------------
(* Properties.                                                             *)

Step  == [at : {"idle", "stamped", "buffered"}, event : Nat]
Batch == [from : Nat, to : Nat, after : Nat]

\* Every variable has the type of the Rust field or local it stands for.
TypeOK ==
  /\ seq \in Nat
  /\ stamp \in Seq(Nat)
  /\ pushed \in Seq(Nat)
  /\ evicted \in 0..Len(pushed)
  /\ Len(pushed) - evicted <= BufferCap
  /\ sent \in Seq(Nat)
  /\ ingesting \in [Producers -> Step]
  /\ restarts \in 0..MaxRestarts
  /\ task \in [Consumers -> {"none", "admitted", "snapshot", "live", "lagged"}]
  /\ since \in [Consumers -> Nat]
  /\ fill \in [Consumers -> Batch]
  /\ pos \in [Consumers -> Nat]
  /\ lastSent \in [Consumers -> Nat]
  /\ wire \in [Consumers -> Seq(Nat)]
  /\ lastSeq \in [Consumers -> Nat]
  /\ got \in [Consumers -> Seq(Nat)]
  /\ bridgeLast \in [Consumers -> Nat]
  /\ shown \in [Consumers -> SUBSET Nat]
  /\ slipped \in [Consumers -> SUBSET Nat]

\* Across backfills, lag refills, reconnects and gateway restarts a
\* subscriber never hands the same event to its caller twice ("no replay
\* flood", mc-stream/src/lib.rs:695): resuming by sequence number and the
\* last_sent filter of run_consumer never overlap, whatever order several
\* producers left the ring in.
NoDuplicates == \A c \in Consumers : IsInjective(got[c])

\* What run_consumer skips as "already delivered" (hub.rs:850) really has
\* been: an event waiting in c's receiver that the filter will skip is on
\* c's wire or has been read by c.
SkipsOnlyDelivered ==
  \A c \in Consumers :
    task[c] = "live" /\ FillLeft(c) = {} =>
      \A i \in (Larger(pos[c], Len(sent) - BroadcastCap) + 1)..Len(sent) :
        AlreadySent(c, sent[i]) => sent[i] \in Range(got[c]) \cup Range(wire[c])

Precedes(s, d, e) == \E i, j \in 1..Len(s) : i < j /\ s[i] = d /\ s[j] = e

\* d entered the ring or the channel before e though it was stamped after.
Overtook(d, e) ==
  stamp[d] > stamp[e] /\ (Precedes(pushed, d, e) \/ Precedes(sent, d, e))

\* With several producers, and a gateway whose clock may have stepped back,
\* what run_consumer will skip without c having it (hub.rs:850) was overtaken
\* inside Hub::ingest by an event with a larger number (hub.rs:626-637), or is
\* older than all c has of this run of the gateway, or had left the ring
\* before the channel (hub.rs:862): nothing else is skipped from the middle.
SkipsAccounted ==
  \A c \in Consumers :
    task[c] = "live" /\ FillLeft(c) = {} =>
      \A i \in (Larger(pos[c], Len(sent) - BroadcastCap) + 1)..Len(sent) :
        LET e == sent[i]
            has == Range(got[c]) \cup Range(wire[c])
        IN AlreadySent(c, e) =>
             \/ e \in has
             \/ \E d \in Range(pushed) : Overtook(d, e)
             \/ \A d \in has \cap Range(pushed) : Precedes(pushed, e, d)
             \/ e \notin Ring

\* The bridge keeps a number of its own, which is not forgotten as the
\* subscriber's is (lib.rs:897, bridge.rs:997).  What it refuses of the events
\* it is handed came after one it has shown that was stamped later and had
\* overtaken it inside Hub::ingest, or that was stamped by an earlier run of a
\* gateway whose clock has stepped back since.
RefusalsAccounted ==
  \A c \in Consumers : \A e \in Range(got[c]) \ shown[c] :
    \E d \in shown[c] :
      /\ Precedes(got[c], d, e) /\ stamp[e] <= stamp[d]
      /\ d < e => restarts > 0 /\ ClockSkew > 0
      /\ e < d /\ d \in Range(pushed) => Overtook(d, e)

\* The bridge's own filter (accept_stream_event) repeats the subscriber's
\* bookkeeping; it never discards an event that it has not shown before.
BridgeShowsAll == \A c \in Consumers : Range(got[c]) \subseteq shown[c]

\* The only events that can be missing between two a subscriber received
\* while the ring still holds them are those that slipped between the
\* backfill's snapshot and the subscription (hub.rs:782 and 838).
LossAccounted ==
  \A c \in Consumers : \A e \in Ring :
    (\E a, b \in Range(got[c]) : a < e /\ e < b) => e \in Range(got[c]) \cup slipped[c]

\* Whatever a subscriber was handed the bridge shows, and whatever it was not
\* handed slipped through the one window there is.
FeedAccounted == BridgeShowsAll /\ LossAccounted

\* The inductive invariant behind NoDuplicates.  The hub's part: the events
\* of this run of the gateway are stamped with numbers up to seq, an event
\* enters the ring once, and the channel before it is in the ring never.
HubInv ==
  /\ seq >= 1
  /\ Range(pushed) \subseteq Events
  /\ IsInjective(pushed)
  /\ Range(sent) \subseteq Range(pushed)
  /\ \A e \in Range(pushed) : 1 <= stamp[e] /\ stamp[e] <= seq
  /\ \A p \in Producers : ingesting[p].at = "stamped" =>
       /\ ingesting[p].event \in Events \ Range(pushed)
       /\ 1 <= stamp[ingesting[p].event] /\ stamp[ingesting[p].event] <= seq
       /\ \A q \in Producers \ {p} : ingesting[q].at = "stamped" =>
            ingesting[q].event # ingesting[p].event
  /\ \A p \in Producers : ingesting[p].at = "buffered" =>
       ingesting[p].event \in Range(pushed)

\* Events of this run of the gateway that c was handed already.
Seen(c) == Range(got[c]) \cap Range(pushed)

\* The consumer's part: a resume point, since and last_sent each bound every
\* event of this run that c was handed, and nothing that is still to be
\* written from a backfill is on the wire or was handed over.
ConsumerInv(c) ==
  /\ Range(got[c]) \subseteq Events
  /\ IsInjective(got[c])
  /\ \A p \in Producers : ingesting[p].at = "stamped" => ingesting[p].event \notin Range(got[c])
  /\ \A e \in Seen(c) : stamp[e] <= lastSeq[c] /\ lastSeq[c] <= seq
  /\ task[c] # "none" => lastSeq[c] <= seq
  /\ task[c] \in {"none", "admitted", "snapshot"} => wire[c] = <<>>
  /\ task[c] \in {"admitted", "snapshot"} => \A e \in Seen(c) : stamp[e] <= since[c]
  /\ task[c] \in {"live", "lagged"} =>
       \A e \in Seen(c) \cup Range(wire[c]) : stamp[e] <= lastSent[c]
  /\ Range(wire[c]) \subseteq Range(pushed) \ Range(got[c])
  /\ IsInjective(wire[c])
  /\ fill[c].from >= 1
  /\ fill[c].to <= Len(pushed)
  /\ task[c] \in {"snapshot", "live", "lagged"} =>
       InFill(c) \cap (Range(got[c]) \cup Range(wire[c])) = {}

IInv == TypeOK /\ HubInv /\ \A c \in Consumers : ConsumerInv(c)

\* Liveness: an event that reaches the receiver of a live connection, and
\* was not on that connection already, is handed to the subscriber, unless
\* the connection ends or the ring discards it first (hub.rs:858).
Waiting(c, e) ==
  /\ task[c] \in {"live", "lagged"}
  /\ e \in {sent[i] : i \in (pos[c] + 1)..Len(sent)}
  /\ e \notin Range(got[c])

LiveDelivery ==
  \A c \in Consumers : \A e \in 1..MaxEvents :
    Waiting(c, e) ~> (e \in Range(got[c]) \/ task[c] = "none" \/ e \notin Ring)

\* The hub, its consumer tasks and the subscribers together implement the
\* abstract feed.
Abstract == INSTANCE Feed WITH published <- Len(stamp), delivered <- got
FeedSpec == Abstract!Spec
=============================================================================
