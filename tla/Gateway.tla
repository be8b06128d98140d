------------------------------ MODULE Gateway ------------------------------
(***************************************************************************)
(* Admission to the terminal-client gateway and the life of its server     *)
(* keys: Gateway::handle_client takes a connection from its hello to       *)
(* run_producer or run_consumer, hub_for creates the Hub of a key on first *)
(* use, and maintain drops the hubs nobody uses.                           *)
(*                                                                         *)
(* Tasks run on several threads and hold the table's lock only inside      *)
(* hub_for and maintain, so every other step of a connection interleaves   *)
(* with those of the rest.                                                 *)
(***************************************************************************)
EXTENDS Integers, FiniteSets

CONSTANTS
  Conns,           \* sockets; a closed one may be accepted again
  Keys,            \* server keys clients may ask for
  Allowed,         \* GatewayConfig.allowed_keys
  MaxKeys,         \* GatewayConfig.max_keys
  MaxConnsPerKey,  \* GatewayConfig.max_conns_per_key
  MaxHubs          \* bound: Hub::new calls in a behaviour

ASSUME GatewayAssumption ==
  /\ IsFiniteSet(Conns)
  /\ IsFiniteSet(Keys)
  /\ Allowed \subseteq Keys
  /\ MaxKeys \in Nat
  /\ MaxConnsPerKey \in Nat
  /\ MaxHubs \in Nat

VARIABLES
  hubs,        \* Gateway.hubs: the hub of each key, 0 when there is none
  created,     \* hubs created; a hub is the number of its creation
  producers,   \* Hub.producers
  consumers,   \* Hub.consumers
  idle,        \* Hub.idle_for() > evict_after
  at,          \* where each connection's handle_client is
  peer,        \* the other end: live, closed (FIN or RST) or gone (half open)
  hello,       \* the hello a connection was admitted with
  held,        \* the Arc<Hub> a connection's task holds, 0 for none
  crowded,     \* history: hubs with two connections past the limit check at once
  orphaned     \* history: hubs dropped while a task held them unregistered

gatewayVars == <<hubs, created, producers, consumers, idle, at, peer, hello, held,
                 crowded, orphaned>>

-----------------------------------------------------------------------------
NoKey    == "none"
HubIds   == 1..MaxHubs
Hellos   == [v : 0..3, token : BOOLEAN, role : {"producer", "consumer", "status"},
             server : Keys \cup {NoKey}]
NoHello  == [v |-> 0, token |-> FALSE, role |-> "status", server |-> NoKey]

InTable(h) == \E k \in Keys : hubs[k] = h

\* Hub::clients.
Clients(h) == producers[h] + consumers[h]

\* Connections whose task holds h and is not yet counted by a ClientGuard.
Admitting(h) == {c \in Conns : at[c] \in {"found", "greeting"} /\ held[c] = h}

\* Those of them past the limit check.
Greeting(h) == {c \in Conns : at[c] = "greeting" /\ held[c] = h}

\* The checks of handle_client that need nothing but the hello: version,
\* token, a key, and the key being one the gateway carries.
Acceptable(m) == m.v \in 1..2 /\ m.token /\ m.server \in Allowed

\* Mutant: the limit check lets one connection too many through.
FullOneTooMany(h) == Clients(h) > MaxConnsPerKey

\* hub.clients() >= self.cfg.max_conns_per_key
Full(h) == Clients(h) >= MaxConnsPerKey

\* hubs.len() >= self.cfg.max_keys
NoRoomForKey == Cardinality({k \in Keys : hubs[k] # 0}) >= MaxKeys

\* Mutant: a hub that has gone quiet is dropped with its consumers still on.
UnusedIgnoringConsumers(h) == h # 0 /\ producers[h] = 0 /\ idle[h]

\* The hubs maintain drops.
Unused(h) == h # 0 /\ producers[h] = 0 /\ consumers[h] = 0 /\ idle[h]

\* Mutant: the guard counts every client as a producer.
CounterAlwaysProducer(c) == "producer"

\* Which of the hub's counters a connection's ClientGuard keeps.
Counter(c) == hello[c].role

\* Mutant: the guard is dropped without giving its place back.
LeaveUncounted(counter, c) == counter

\* ClientGuard::drop.
Leave(counter, c) == [counter EXCEPT ![held[c]] = @ - 1]

\* Mutant: a silent connection before its hello is left alone.
HelloExpiredOnClose(c) == at[c] = "hello" /\ peer[c] = "closed"

\* The hello does not come: end of file, or hello_timeout.
HelloExpired(c) == at[c] = "hello" /\ peer[c] # "live"

-----------------------------------------------------------------------------
GatewayInit ==
  /\ hubs = [k \in Keys |-> 0]
  /\ created = 0
  /\ producers = [h \in HubIds |-> 0]
  /\ consumers = [h \in HubIds |-> 0]
  /\ idle = [h \in HubIds |-> FALSE]
  /\ at = [c \in Conns |-> "closed"]
  /\ peer = [c \in Conns |-> "closed"]
  /\ hello = [c \in Conns |-> NoHello]
  /\ held = [c \in Conns |-> 0]
  /\ crowded = {}
  /\ orphaned = {}

hubVars == <<hubs, created, producers, consumers, idle>>

\* serve: the socket is accepted and its task spawned.
Accept(c) ==
  /\ at[c] = "closed"
  /\ at' = [at EXCEPT ![c] = "hello"]
  /\ peer' = [peer EXCEPT ![c] = "live"]
  /\ UNCHANGED <<hubVars, hello, held, crowded, orphaned>>

\* The client ends its connection, or its host vanishes without a word.
PeerLeaves(c) ==
  /\ at[c] # "closed"
  /\ peer[c] = "live"
  /\ \E how \in {"closed", "gone"} : peer' = [peer EXCEPT ![c] = how]
  /\ UNCHANGED <<hubVars, at, hello, held, crowded, orphaned>>

\* handle_client returns and drops what it held.
Close(c) ==
  /\ at' = [at EXCEPT ![c] = "closed"]
  /\ peer' = [peer EXCEPT ![c] = "closed"]
  /\ hello' = [hello EXCEPT ![c] = NoHello]
  /\ held' = [held EXCEPT ![c] = 0]

HelloTimeout(c) ==
  /\ HelloExpired(c)
  /\ Close(c)
  /\ UNCHANGED <<hubVars, crowded, orphaned>>

\* A hello arrives that the checks refuse, or that only asks for the status.
Refuse(c) ==
  /\ at[c] = "hello"
  /\ peer[c] = "live"
  /\ \E m \in Hellos : ~Acceptable(m) \/ m.role = "status"
  /\ Close(c)
  /\ UNCHANGED <<hubVars, crowded, orphaned>>

\* An acceptable hello for a key the gateway has a hub for.
LookupExisting(c) ==
  /\ at[c] = "hello"
  /\ peer[c] = "live"
  /\ \E m \in Hellos :
       /\ Acceptable(m)
       /\ m.role # "status"
       /\ hubs[m.server] # 0
       /\ hello' = [hello EXCEPT ![c] = m]
       /\ held' = [held EXCEPT ![c] = hubs[m.server]]
  /\ at' = [at EXCEPT ![c] = "found"]
  /\ UNCHANGED <<hubVars, peer, crowded, orphaned>>

\* .. and for a new key: hub_for makes its hub while there is room.
LookupNew(c) ==
  /\ at[c] = "hello"
  /\ peer[c] = "live"
  /\ created < MaxHubs
  /\ ~NoRoomForKey
  /\ \E m \in Hellos :
       /\ Acceptable(m)
       /\ m.role # "status"
       /\ hubs[m.server] = 0
       /\ hello' = [hello EXCEPT ![c] = m]
       /\ hubs' = [hubs EXCEPT ![m.server] = created + 1]
  /\ created' = created + 1
  /\ held' = [held EXCEPT ![c] = created + 1]
  /\ at' = [at EXCEPT ![c] = "found"]
  /\ UNCHANGED <<producers, consumers, idle, peer, crowded, orphaned>>

\* .. and is turned away with too_many_keys when there is none.
TooManyKeys(c) ==
  /\ at[c] = "hello"
  /\ peer[c] = "live"
  /\ NoRoomForKey
  /\ \E k \in Allowed : hubs[k] = 0
  /\ Close(c)
  /\ UNCHANGED <<hubVars, crowded, orphaned>>

\* The connection limit of the key, read without any lock.
CheckLimit(c) ==
  /\ at[c] = "found"
  /\ IF Full(held[c])
     THEN Close(c) /\ UNCHANGED crowded
     ELSE /\ at' = [at EXCEPT ![c] = "greeting"]
          /\ crowded' = IF Greeting(held[c]) # {} THEN crowded \cup {held[c]} ELSE crowded
          /\ UNCHANGED <<peer, hello, held>>
  /\ UNCHANGED <<hubVars, orphaned>>

\* Writing Ready to a v2 client fails.
GreetingFails(c) ==
  /\ at[c] = "greeting"
  /\ hello[c].v = 2
  /\ peer[c] # "live"
  /\ Close(c)
  /\ UNCHANGED <<hubVars, crowded, orphaned>>

\* run_producer and run_consumer begin: ClientGuard::new, then touch.
Register(c) ==
  /\ at[c] = "greeting"
  /\ at' = [at EXCEPT ![c] = hello[c].role]
  /\ IF Counter(c) = "producer"
     THEN producers' = [producers EXCEPT ![held[c]] = @ + 1] /\ UNCHANGED consumers
     ELSE consumers' = [consumers EXCEPT ![held[c]] = @ + 1] /\ UNCHANGED producers
  /\ idle' = [idle EXCEPT ![held[c]] = FALSE]
  /\ UNCHANGED <<hubs, created, peer, hello, held, crowded, orphaned>>

\* The hub is touched: an event or keepalive of a producer, or a consumer's
\* say while a producer is connected (relay_say).
Activity(c) ==
  /\ at[c] = "producer" \/ (at[c] = "consumer" /\ producers[held[c]] > 0)
  /\ peer[c] = "live"
  /\ idle[held[c]]
  /\ idle' = [idle EXCEPT ![held[c]] = FALSE]
  /\ UNCHANGED <<hubs, created, producers, consumers, at, peer, hello, held, crowded, orphaned>>

\* run_producer reads end of file, or a v2 producer is silent for too long.
ProducerEnds(c) ==
  /\ at[c] = "producer"
  /\ peer[c] = "closed" \/ (peer[c] = "gone" /\ hello[c].v = 2)
  /\ producers' = Leave(producers, c)
  /\ Close(c)
  /\ UNCHANGED <<hubs, created, consumers, idle, crowded, orphaned>>

\* run_consumer only notices when it writes: an event, or a v2 client's ping.
ConsumerEnds(c) ==
  /\ at[c] = "consumer"
  /\ peer[c] # "live"
  /\ hello[c].v = 2 \/ producers[held[c]] > 0
  /\ consumers' = Leave(consumers, c)
  /\ Close(c)
  /\ UNCHANGED <<hubs, created, producers, idle, crowded, orphaned>>

\* evict_after passes without a touch.  It is a minute at least, and no
\* admission, whose only wait is the write of Ready, lasts that long.
GoIdle(h) ==
  /\ h <= created
  /\ Admitting(h) = {}
  /\ ~idle[h]
  /\ idle' = [idle EXCEPT ![h] = TRUE]
  /\ UNCHANGED <<hubs, created, producers, consumers, at, peer, hello, held, crowded, orphaned>>

\* maintain, under the table's lock: drop every key nobody is using.
Maintain ==
  /\ \E k \in Keys : Unused(hubs[k])
  /\ hubs' = [k \in Keys |-> IF Unused(hubs[k]) THEN 0 ELSE hubs[k]]
  /\ orphaned' = orphaned \cup
       {hubs[k] : k \in {j \in Keys : Unused(hubs[j]) /\ Admitting(hubs[j]) # {}}}
  /\ UNCHANGED <<created, producers, consumers, idle, at, peer, hello, held, crowded>>

-----------------------------------------------------------------------------
Handle(c) ==
  \/ HelloTimeout(c)
  \/ CheckLimit(c) \/ GreetingFails(c) \/ Register(c)
  \/ ProducerEnds(c) \/ ConsumerEnds(c)

GatewayNext ==
  \/ \E c \in Conns :
       \/ Accept(c) \/ PeerLeaves(c)
       \/ Refuse(c) \/ LookupExisting(c) \/ LookupNew(c) \/ TooManyKeys(c)
       \/ Handle(c) \/ Activity(c)
  \/ \E h \in HubIds : GoIdle(h)
  \/ Maintain

GatewaySpec == GatewayInit /\ [][GatewayNext]_gatewayVars

\* Tasks that are ready run, timers fire, and the housekeeping timer ticks
\* every 30 seconds; what clients send and when they leave is theirs.
GatewayFairness ==
  /\ \A c \in Conns : WF_gatewayVars(Handle(c))
  /\ \A h \in HubIds : WF_gatewayVars(GoIdle(h))
  /\ WF_gatewayVars(Maintain)

GatewayFairSpec == GatewaySpec /\ GatewayFairness

-----------------------------------------------------------------------------
(* Properties.                                                             *)

\* Every variable has the type of the Rust value it stands for; a task holds
\* a hub exactly from the lookup to its end.
TypeOK ==
  /\ hubs \in [Keys -> 0..created]
  /\ created \in 0..MaxHubs
  /\ producers \in [HubIds -> Nat]
  /\ consumers \in [HubIds -> Nat]
  /\ idle \in [HubIds -> BOOLEAN]
  /\ at \in [Conns -> {"closed", "hello", "found", "greeting", "producer", "consumer"}]
  /\ peer \in [Conns -> {"live", "closed", "gone"}]
  /\ hello \in [Conns -> Hellos]
  /\ held \in [Conns -> 0..created]
  /\ \A c \in Conns : held[c] = 0 <=> at[c] \in {"closed", "hello"}
  /\ crowded \subseteq HubIds
  /\ orphaned \subseteq HubIds

\* Connections of h that run in a given role.
Running(h, role) == {c \in Conns : at[c] = role /\ held[c] = h}

\* "so the status view stays correct however the connection ends"
\* (hub.rs:436): the counters that admission and eviction read are the
\* numbers of connections really running.
Counted ==
  \A h \in HubIds :
    /\ producers[h] = Cardinality(Running(h, "producer"))
    /\ consumers[h] = Cardinality(Running(h, "consumer"))

\* A key holds more connections than max_conns_per_key only if two of them
\* were between the check (hub.rs:359) and their ClientGuard at once.
LimitAccounted ==
  \A h \in HubIds : Clients(h) > MaxConnsPerKey => h \in crowded

\* A connection works on a hub that is not its key's hub only if maintain
\* dropped the hub while a task held it without being counted.
OrphansAccounted ==
  \A c \in Conns :
    held[c] # 0 /\ hubs[hello[c].server] # held[c] => held[c] \in orphaned

\* A v2 client that dies in silence gives its place back, whatever it was
\* doing, and so does a connection that never says hello.
DeadReleased ==
  \A c \in Conns :
    (at[c] # "closed" /\ peer[c] # "live" /\ hello[c].v # 1) ~> at[c] = "closed"

\* A hub no connection is on leaves the table, or somebody asks for its key
\* again: no way to end a connection leaks the hub.
UnusedDropped ==
  \A h \in HubIds :
    (InTable(h) /\ \A c \in Conns : held[c] # h) ~>
      (~InTable(h) \/ \E c \in Conns : held[c] = h)

\* Every place is given back: the dead are dropped, and so are unused hubs.
PlacesReleased == DeadReleased /\ UnusedDropped
=============================================================================
