--------------------------- MODULE GatewayProofs ---------------------------
(***************************************************************************)
(* Proofs about the gateway: Gateway, which admits connections, and        *)
(* SayRelay, the server key that carries a logger's events and the says of *)
(* its subscribers.  The two models share no state; every proof is about   *)
(* one of them.                                                            *)
(*                                                                         *)
(* Gateway, for any number of connections, keys and hubs and any limits:   *)
(* the counters of the hubs are right, the table keeps its limit, the      *)
(* connection limit is only passed by admissions that overlap, and a       *)
(* connection is on its key's hub or was orphaned by maintain.  None of    *)
(* them is inductive alone.  A counter stays a natural number because it   *)
(* counts a set of connections, and the connection limit holds because a   *)
(* hub without overlapping admissions keeps a place free for the           *)
(* connection that is past the check.                                      *)
(*                                                                         *)
(* SayRelay, for any loggers and subscribers, any allowance, window and    *)
(* channel capacity, and any bounds: a logger's events and the says of a   *)
(* subscriber keep their order and are accounted for, and a connection     *)
(* relays no more than it may.                                             *)
(***************************************************************************)
EXTENDS Gateway, SayRelay, SequenceTheorems, FiniteSetTheorems, TLAPS

-----------------------------------------------------------------------------
(* Admission.                                                              *)

\* A hello that got past the lookup asks for one of the two roles.
RolesInv ==
  \A c \in Conns : at[c] \in {"found", "greeting"} => hello[c].role \in {"producer", "consumer"}

\* A hub that never had two connections past the check at once has a place
\* for the one that is.
RoomInv ==
  \A h \in HubIds :
    h \notin crowded => Clients(h) + Cardinality(Running(h, "greeting")) <= MaxConnsPerKey

GInv == TypeOK /\ RolesInv /\ Counted /\ RoomInv

-----------------------------------------------------------------------------
(* The connections of a hub in one place, when a single connection moves.  *)

OnlyMoves(c) ==
  \A d \in Conns \ {c} : at'[d] = at[d] /\ held'[d] = held[d]

LEMMA RunningFinite ==
  ASSUME NEW h, NEW role
  PROVE  /\ IsFiniteSet(Running(h, role))
         /\ Cardinality(Running(h, role)) \in Nat
BY FS_Subset, FS_CardinalityType, GatewayAssumption DEF Running, GatewayAssumption

\* Greeting is the set of those between the check and their guard.
LEMMA GreetingRuns ==
  ASSUME NEW h
  PROVE  Greeting(h) = Running(h, "greeting")
BY DEF Greeting, Running

LEMMA RunningSame ==
  ASSUME NEW h, NEW role, NEW c \in Conns, OnlyMoves(c),
         at[c] = role /\ held[c] = h <=> at'[c] = role /\ held'[c] = h
  PROVE  Running(h, role)' = Running(h, role)
BY DEF OnlyMoves, Running

LEMMA RunningGains ==
  ASSUME NEW h, NEW role, NEW c \in Conns, OnlyMoves(c),
         at[c] # role, at'[c] = role, held'[c] = h
  PROVE  Cardinality(Running(h, role)') = Cardinality(Running(h, role)) + 1
<1>1. Running(h, role)' = Running(h, role) \cup {c}
  BY DEF OnlyMoves, Running
<1>2. c \notin Running(h, role)
  BY DEF Running
<1> QED
  BY <1>1, <1>2, RunningFinite, FS_AddElement

LEMMA RunningLoses ==
  ASSUME NEW h, NEW role, NEW c \in Conns, OnlyMoves(c),
         at[c] = role, held[c] = h, at'[c] # role
  PROVE  /\ Cardinality(Running(h, role)') = Cardinality(Running(h, role)) - 1
         /\ Cardinality(Running(h, role)) - 1 \in Nat
<1>1. Running(h, role)' = Running(h, role) \ {c}
  BY DEF OnlyMoves, Running
<1>2. c \in Running(h, role)
  BY DEF Running
<1>3. Cardinality(Running(h, role)') = Cardinality(Running(h, role)) - 1
  <2>1. Cardinality(Running(h, role) \ {c}) = Cardinality(Running(h, role)) - 1
    BY <1>2, RunningFinite, FS_RemoveElement
  <2> QED
    BY <1>1, <2>1
<1>4. Cardinality(Running(h, role) \ {c}) \in Nat
  BY RunningFinite, FS_RemoveElement, FS_CardinalityType
<1> QED
  BY <1>1, <1>3, <1>4

\* A step that counts nobody leaves Counted alone.
LEMMA CountedStays ==
  ASSUME Counted, NEW c \in Conns, OnlyMoves(c),
         UNCHANGED <<producers, consumers>>,
         UNCHANGED <<at, held>> \/
           {at[c], at'[c]} \cap {"producer", "consumer"} = {}
  PROVE  Counted'
<1>1. \A h \in HubIds : \A role \in {"producer", "consumer"} :
        Running(h, role)' = Running(h, role)
  BY RunningSame
<1> QED
  BY <1>1 DEF Counted

\* .. and one that lets nobody past the check leaves the room there is.
LEMMA RoomStays ==
  ASSUME RoomInv, TypeOK, NEW c \in Conns, OnlyMoves(c),
         UNCHANGED <<producers, consumers>>,
         crowded \subseteq crowded',
         UNCHANGED <<at, held>> \/ at'[c] # "greeting"
  PROVE  RoomInv'
<1> SUFFICES ASSUME NEW h \in HubIds, h \notin crowded'
             PROVE  Clients(h)' + Cardinality(Running(h, "greeting")') <= MaxConnsPerKey
  BY DEF RoomInv
<1>1. Running(h, "greeting")' \subseteq Running(h, "greeting")
  BY DEF OnlyMoves, Running
<1>2. /\ Cardinality(Running(h, "greeting")') <= Cardinality(Running(h, "greeting"))
      /\ Cardinality(Running(h, "greeting")') \in Nat
      /\ Cardinality(Running(h, "greeting")) \in Nat
  BY <1>1, RunningFinite, FS_Subset, FS_CardinalityType
<1>3. Clients(h)' = Clients(h)
  BY DEF Clients
<1>4. Clients(h) \in Nat
  BY DEF Clients, TypeOK
<1>5. Clients(h) + Cardinality(Running(h, "greeting")) <= MaxConnsPerKey
  BY DEF RoomInv
<1>6. MaxConnsPerKey \in Nat
  BY GatewayAssumption DEF GatewayAssumption
<1> QED
  BY <1>2, <1>3, <1>4, <1>5, <1>6

-----------------------------------------------------------------------------
LEMMA GatewayStarts == GatewayInit => GInv
<1> SUFFICES ASSUME GatewayInit PROVE GInv
  OBVIOUS
<1> USE GatewayAssumption DEF GatewayAssumption
<1>1. TypeOK
  BY DEF GatewayInit, TypeOK, HubIds, Hellos, NoHello
<1>2. RolesInv
  BY DEF GatewayInit, RolesInv
<1>3. \A h, role : role # "closed" => Running(h, role) = {}
  BY DEF GatewayInit, Running
<1>4. Cardinality({}) = 0
  BY FS_EmptySet
<1>5. Counted
  BY <1>3, <1>4 DEF GatewayInit, Counted
<1>6. {k \in Keys : hubs[k] # 0} = {}
  BY DEF GatewayInit
<1>8. RoomInv
  BY <1>3, <1>4 DEF GatewayInit, RoomInv, Clients
<1> QED
  BY <1>1, <1>2, <1>5, <1>8 DEF GInv

-----------------------------------------------------------------------------
(* Steps that count nobody.                                                *)

\* A connection that is not counted ends.
LEMMA CloseInv ==
  ASSUME GInv, NEW c \in Conns, Close(c), UNCHANGED <<hubVars, crowded, orphaned>>,
         at[c] \notin {"producer", "consumer"}
  PROVE  GInv'
<1> USE DEF GInv, hubVars
<1>1. TypeOK'
  BY DEF TypeOK, Close, HubIds, Hellos, NoHello
<1>2. at' = [at EXCEPT ![c] = "closed"] /\ held' = [held EXCEPT ![c] = 0]
  BY DEF Close
<1>3. OnlyMoves(c) /\ at'[c] = "closed"
  BY <1>2 DEF OnlyMoves, TypeOK
<1>4. RolesInv'
  BY <1>2 DEF RolesInv, TypeOK, Close
<1>5. Counted'
  BY <1>3, CountedStays
<1>7. RoomInv'
  BY <1>3, RoomStays
<1> QED
  BY <1>1, <1>4, <1>5, <1>7

LEMMA AcceptInv ==
  ASSUME GInv, NEW c \in Conns, Accept(c)
  PROVE  GInv'
<1> USE DEF GInv, hubVars
<1>1. TypeOK'
  BY DEF TypeOK, Accept
<1>2. at' = [at EXCEPT ![c] = "hello"] /\ at[c] = "closed" /\ UNCHANGED held
  BY DEF Accept
<1>3. OnlyMoves(c) /\ at'[c] = "hello"
  BY <1>2 DEF OnlyMoves, TypeOK
<1>4. RolesInv'
  BY <1>2 DEF RolesInv, TypeOK, Accept
<1>5. Counted'
  BY <1>2, <1>3, CountedStays DEF Accept
<1>7. RoomInv'
  BY <1>3, RoomStays DEF Accept
<1> QED
  BY <1>1, <1>4, <1>5, <1>7

\* What a peer does is only seen by the task later.
LEMMA PeerLeavesInv ==
  ASSUME GInv, NEW c \in Conns, PeerLeaves(c)
  PROVE  GInv'
<1> USE DEF GInv, hubVars, PeerLeaves
<1>1. TypeOK'
  BY DEF TypeOK
<1>2. RolesInv'
  BY DEF RolesInv
<1>3. OnlyMoves(c)
  BY DEF OnlyMoves
<1>4. Counted'
  BY <1>3, CountedStays
<1>6. RoomInv'
  BY <1>3, RoomStays
<1> QED
  BY <1>1, <1>2, <1>4, <1>6

LEMMA LookupExistingInv ==
  ASSUME GInv, NEW c \in Conns, LookupExisting(c)
  PROVE  GInv'
<1> USE DEF GInv, hubVars
<1>1. PICK m \in Hellos :
        /\ Acceptable(m)
        /\ m.role # "status"
        /\ hubs[m.server] # 0
        /\ hello' = [hello EXCEPT ![c] = m]
        /\ held' = [held EXCEPT ![c] = hubs[m.server]]
  BY DEF LookupExisting
<1>2. at' = [at EXCEPT ![c] = "found"] /\ at[c] = "hello"
  BY DEF LookupExisting
<1>3. m.server \in Keys
  BY <1>1, GatewayAssumption DEF Acceptable, GatewayAssumption
<1>4. m.role \in {"producer", "consumer"}
  BY <1>1 DEF Hellos
<1>5. TypeOK'
  BY <1>1, <1>2, <1>3 DEF TypeOK, LookupExisting
<1>6. OnlyMoves(c) /\ at'[c] = "found"
  BY <1>1, <1>2 DEF OnlyMoves, TypeOK
<1>7. RolesInv'
  BY <1>1, <1>2, <1>4 DEF RolesInv, TypeOK
<1>8. Counted'
  BY <1>2, <1>6, CountedStays DEF LookupExisting
<1>10. RoomInv'
  BY <1>6, RoomStays DEF LookupExisting
<1> QED
  BY <1>5, <1>7, <1>8, <1>10

\* hub_for makes a hub: its number is new and there was room for the key.
LEMMA LookupNewInv ==
  ASSUME GInv, NEW c \in Conns, LookupNew(c)
  PROVE  GInv'
<1> USE DEF GInv, hubVars
<1>1. PICK m \in Hellos :
        /\ Acceptable(m)
        /\ m.role # "status"
        /\ hubs[m.server] = 0
        /\ hello' = [hello EXCEPT ![c] = m]
        /\ hubs' = [hubs EXCEPT ![m.server] = created + 1]
  BY DEF LookupNew
<1>2. /\ at' = [at EXCEPT ![c] = "found"] /\ at[c] = "hello"
      /\ held' = [held EXCEPT ![c] = created + 1]
      /\ created' = created + 1
      /\ created < MaxHubs
  BY DEF LookupNew
<1>3. m.server \in Keys
  BY <1>1, GatewayAssumption DEF Acceptable, GatewayAssumption
<1>4. m.role \in {"producer", "consumer"}
  BY <1>1 DEF Hellos
<1>5. MaxHubs \in Nat /\ MaxKeys \in Nat /\ created \in Nat
  BY GatewayAssumption DEF GatewayAssumption, TypeOK
<1>6. TypeOK'
  BY <1>1, <1>2, <1>3, <1>5 DEF TypeOK, LookupNew
<1>7. OnlyMoves(c) /\ at'[c] = "found"
  BY <1>1, <1>2 DEF OnlyMoves, TypeOK
<1>8. RolesInv'
  BY <1>1, <1>2, <1>4 DEF RolesInv, TypeOK
<1>9. Counted'
  BY <1>2, <1>7, CountedStays DEF LookupNew
<1>11. RoomInv'
  BY <1>7, RoomStays DEF LookupNew
<1> QED
  BY <1>6, <1>8, <1>9, <1>11

\* Touching a hub, and a hub going quiet, only concern maintain.
LEMMA IdleInv ==
  ASSUME GInv, NEW h \in HubIds, NEW b \in BOOLEAN, idle' = [idle EXCEPT ![h] = b],
         UNCHANGED <<hubs, created, producers, consumers, at, peer, hello, held,
                     crowded, orphaned>>
  PROVE  GInv'
<1>1. TypeOK'
  BY DEF GInv, TypeOK
<1>2. RolesInv'
  BY DEF GInv, RolesInv
<1>3. Counted' /\ RoomInv'
  BY DEF GInv, Counted, RoomInv, Running, Clients
<1> QED
  BY <1>1, <1>2, <1>3 DEF GInv

\* maintain takes keys out of the table.
LEMMA MaintainInv ==
  ASSUME GInv, Maintain
  PROVE  GInv'
<1> USE DEF GInv
<1>1. hubs' = [k \in Keys |-> IF Unused(hubs[k]) THEN 0 ELSE hubs[k]]
  BY DEF Maintain
<1>2. UNCHANGED <<created, producers, consumers, idle, at, peer, hello, held, crowded>>
  BY DEF Maintain
<1>3. created \in Nat
  BY GatewayAssumption DEF TypeOK, GatewayAssumption
<1>4. hubs' \in [Keys -> 0..created']
  BY <1>1, <1>2, <1>3 DEF TypeOK
<1>5. orphaned' \subseteq HubIds
  <2>1. \A k \in Keys : hubs[k] \in 0..created /\ (Unused(hubs[k]) => hubs[k] # 0)
    BY DEF TypeOK, Unused
  <2>2. \A k \in Keys : Unused(hubs[k]) => hubs[k] \in HubIds
    BY <2>1, <1>3, GatewayAssumption DEF TypeOK, HubIds, GatewayAssumption
  <2> QED
    BY <2>2 DEF Maintain, TypeOK
<1>6. TypeOK'
  BY <1>2, <1>4, <1>5 DEF TypeOK
<1>7. RolesInv' /\ Counted' /\ RoomInv'
  BY <1>2 DEF RolesInv, Counted, RoomInv, Running, Clients
<1> QED
  BY <1>6, <1>7

-----------------------------------------------------------------------------
(* Steps that count.                                                       *)

\* Past the check while nobody else is: there is a place.
LEMMA CheckLimitInv ==
  ASSUME GInv, NEW c \in Conns, CheckLimit(c)
  PROVE  GInv'
<1>1. CASE Full(held[c])
  BY <1>1, CloseInv DEF CheckLimit
<1>2. CASE ~Full(held[c])
  <2> USE DEF GInv, hubVars
  <2>1. /\ at[c] = "found" /\ at' = [at EXCEPT ![c] = "greeting"]
        /\ UNCHANGED <<hubVars, peer, hello, held, orphaned>>
        /\ crowded' = IF Greeting(held[c]) # {} THEN crowded \cup {held[c]} ELSE crowded
    BY <1>2 DEF CheckLimit
  <2>2. held[c] \in HubIds
    <3>1. held[c] \in 0..created /\ held[c] # 0 /\ created \in 0..MaxHubs
      BY <2>1 DEF TypeOK
    <3> QED
      BY <3>1, GatewayAssumption DEF HubIds, GatewayAssumption
  <2>3. TypeOK'
    BY <2>1, <2>2 DEF TypeOK
  <2>4. OnlyMoves(c) /\ at'[c] = "greeting"
    BY <2>1 DEF OnlyMoves, TypeOK
  <2>5. RolesInv'
    BY <2>1 DEF RolesInv, TypeOK
  <2>6. Counted'
    BY <2>1, <2>4, CountedStays
  <2>8. ASSUME NEW h \in HubIds, h \notin crowded'
        PROVE  Clients(h)' + Cardinality(Running(h, "greeting")') <= MaxConnsPerKey
    <3>1. Clients(h)' = Clients(h) /\ Clients(h) \in Nat
      BY <2>1 DEF Clients, TypeOK
    <3>2. CASE h = held[c]
      <4>1. Running(h, "greeting") = {}
        BY <2>8, <2>1, <3>2, GreetingRuns
      <4>2. Cardinality(Running(h, "greeting")) = 0
        BY <4>1, FS_EmptySet
      <4>3. Cardinality(Running(h, "greeting")') = 1
        BY <2>1, <2>4, <3>2, <4>2, RunningGains
      <4>4. ~(Clients(h) >= MaxConnsPerKey)
        BY <1>2, <3>2 DEF Full
      <4> QED
        BY <3>1, <4>3, <4>4, GatewayAssumption DEF GatewayAssumption
    <3>3. CASE h # held[c]
      <4>1. Running(h, "greeting")' = Running(h, "greeting")
        BY <2>1, <2>4, <3>3, RunningSame
      <4>2. h \notin crowded
        BY <2>1, <2>8
      <4> QED
        BY <3>1, <4>1, <4>2 DEF RoomInv
    <3> QED
      BY <3>2, <3>3
  <2>9. RoomInv'
    BY <2>8 DEF RoomInv
  <2> QED
    BY <2>3, <2>5, <2>6, <2>9
<1> QED
  BY <1>1, <1>2

\* ClientGuard::new: the place that was free is taken.
LEMMA RegisterInv ==
  ASSUME GInv, NEW c \in Conns, Register(c)
  PROVE  GInv'
<1> USE DEF GInv
<1> DEFINE h0 == held[c]
           role == hello[c].role
<1>1. /\ at[c] = "greeting" /\ at' = [at EXCEPT ![c] = role]
      /\ UNCHANGED <<hubs, created, peer, hello, held, crowded, orphaned>>
      /\ idle' = [idle EXCEPT ![h0] = FALSE]
  BY DEF Register
<1>2. role \in {"producer", "consumer"}
  BY <1>1 DEF RolesInv
<1>3. h0 \in HubIds
  <2>1. held[c] \in 0..created /\ held[c] # 0 /\ created \in 0..MaxHubs
    BY <1>1 DEF TypeOK
  <2> QED
    BY <2>1, GatewayAssumption DEF HubIds, GatewayAssumption
<1>4. /\ role = "producer" => /\ producers' = [producers EXCEPT ![h0] = @ + 1]
                              /\ consumers' = consumers
      /\ role = "consumer" => /\ consumers' = [consumers EXCEPT ![h0] = @ + 1]
                              /\ producers' = producers
  BY <1>1, <1>2 DEF Register, Counter
<1>5. TypeOK'
  BY <1>1, <1>2, <1>3, <1>4 DEF TypeOK
<1>6. OnlyMoves(c) /\ at'[c] = role
  BY <1>1 DEF OnlyMoves, TypeOK
<1>7. RolesInv'
  BY <1>1, <1>2 DEF RolesInv, TypeOK
<1>8. \A h \in HubIds : \A r \in {"producer", "consumer"} :
        Cardinality(Running(h, r)') =
          Cardinality(Running(h, r)) + IF h = h0 /\ r = role THEN 1 ELSE 0
  <2> SUFFICES ASSUME NEW h \in HubIds, NEW r \in {"producer", "consumer"}
               PROVE  Cardinality(Running(h, r)') =
                        Cardinality(Running(h, r)) + IF h = h0 /\ r = role THEN 1 ELSE 0
    OBVIOUS
  <2>1. CASE h = h0 /\ r = role
    BY <1>1, <1>6, <2>1, RunningGains
  <2>2. CASE ~(h = h0 /\ r = role)
    <3>1. Running(h, r)' = Running(h, r)
      BY <1>1, <1>6, <2>2, RunningSame
    <3> QED
      BY <3>1, <2>2, RunningFinite
  <2> QED
    BY <2>1, <2>2
<1>9. \A h \in HubIds :
        /\ producers'[h] = producers[h] + IF h = h0 /\ role = "producer" THEN 1 ELSE 0
        /\ consumers'[h] = consumers[h] + IF h = h0 /\ role = "consumer" THEN 1 ELSE 0
        /\ producers[h] \in Nat /\ consumers[h] \in Nat
  BY <1>2, <1>3, <1>4 DEF TypeOK
<1>10. Counted'
  BY <1>8, <1>9 DEF Counted
<1>11. ASSUME NEW h \in HubIds, h \notin crowded'
       PROVE  Clients(h)' + Cardinality(Running(h, "greeting")') <= MaxConnsPerKey
  <2>1. Clients(h) + Cardinality(Running(h, "greeting")) <= MaxConnsPerKey
    BY <1>1, <1>11 DEF RoomInv
  <2>2. CASE h = h0
    <3>1. /\ Cardinality(Running(h, "greeting")') = Cardinality(Running(h, "greeting")) - 1
          /\ Cardinality(Running(h, "greeting")) - 1 \in Nat
      BY <1>1, <1>2, <1>6, <2>2, RunningLoses
    <3>2. Clients(h)' = Clients(h) + 1 /\ Clients(h) \in Nat
      BY <1>2, <1>9, <2>2 DEF Clients
    <3> HIDE DEF GInv
    <3> QED
      BY <2>1, <3>1, <3>2, RunningFinite, GatewayAssumption DEF GatewayAssumption
  <2>3. CASE h # h0
    <3>1. Running(h, "greeting")' = Running(h, "greeting")
      BY <1>1, <1>6, <2>3, RunningSame
    <3>2. Clients(h)' = Clients(h)
      BY <1>9, <2>3 DEF Clients
    <3> QED
      BY <2>1, <3>1, <3>2
  <2> QED
    BY <2>2, <2>3
<1>12. RoomInv'
  BY <1>11 DEF RoomInv
<1> QED
  BY <1>5, <1>7, <1>10, <1>12

\* ClientGuard::drop: a counted connection gives back its own place.
LEMMA LeaveInv ==
  ASSUME GInv, NEW c \in Conns, NEW role \in {"producer", "consumer"}, at[c] = role, Close(c),
         role = "producer" => producers' = Leave(producers, c) /\ consumers' = consumers,
         role = "consumer" => consumers' = Leave(consumers, c) /\ producers' = producers,
         UNCHANGED <<hubs, created, idle, crowded, orphaned>>
  PROVE  GInv'
<1> USE DEF GInv
<1>1. PICK h0 \in HubIds : h0 = held[c]
  <2>1. held[c] \in 0..created /\ held[c] # 0 /\ created \in 0..MaxHubs
    BY DEF TypeOK
  <2> QED
    BY <2>1, GatewayAssumption DEF HubIds, GatewayAssumption
<1>2. at' = [at EXCEPT ![c] = "closed"] /\ held' = [held EXCEPT ![c] = 0]
  BY DEF Close
<1>3. OnlyMoves(c) /\ at'[c] = "closed"
  BY <1>2 DEF OnlyMoves, TypeOK
<1>4. /\ Cardinality(Running(h0, role)') = Cardinality(Running(h0, role)) - 1
      /\ Cardinality(Running(h0, role)) - 1 \in Nat
  <2>1. at'[c] # role /\ held[c] = h0
    BY <1>1, <1>3
  <2> HIDE DEF GInv
  <2> QED
    BY <1>3, <2>1, RunningLoses
<1>5. \A h \in HubIds : \A r \in {"producer", "consumer"} :
        ~(h = h0 /\ r = role) => Running(h, r)' = Running(h, r)
  BY <1>1, <1>3, RunningSame
<1>6. \A h \in HubIds :
        /\ producers'[h] = IF h = h0 /\ role = "producer" THEN producers[h] - 1 ELSE producers[h]
        /\ consumers'[h] = IF h = h0 /\ role = "consumer" THEN consumers[h] - 1 ELSE consumers[h]
        /\ producers[h] \in Nat /\ consumers[h] \in Nat
  BY <1>1 DEF TypeOK, Leave
<1>7. Counted'
  <2> SUFFICES ASSUME NEW h \in HubIds
               PROVE  /\ producers'[h] = Cardinality(Running(h, "producer")')
                      /\ consumers'[h] = Cardinality(Running(h, "consumer")')
    BY DEF Counted
  <2>1. /\ producers[h] = Cardinality(Running(h, "producer"))
        /\ consumers[h] = Cardinality(Running(h, "consumer"))
    BY DEF Counted
  <2> HIDE DEF GInv
  <2>2. CASE role = "producer"
    BY <1>4, <1>5, <1>6, <2>1, <2>2
  <2>3. CASE role = "consumer"
    BY <1>4, <1>5, <1>6, <2>1, <2>3
  <2> QED
    BY <2>2, <2>3
<1>8. producers' \in [HubIds -> Nat] /\ consumers' \in [HubIds -> Nat]
  <2>1. DOMAIN producers' = HubIds /\ DOMAIN consumers' = HubIds
    BY DEF TypeOK, Leave
  <2>2. producers' = [h \in HubIds |-> producers'[h]] /\ consumers' = [h \in HubIds |-> consumers'[h]]
    BY <2>1 DEF TypeOK, Leave
  <2>3. \A h \in HubIds : producers'[h] \in Nat /\ consumers'[h] \in Nat
    BY <1>4, <1>6 DEF Counted
  <2> QED
    BY <2>2, <2>3
<1>9. TypeOK'
  BY <1>8 DEF TypeOK, Close, Hellos, NoHello
<1>10. RolesInv'
  BY <1>2 DEF RolesInv, TypeOK, Close
<1>11. ASSUME NEW h \in HubIds, h \notin crowded'
       PROVE  Clients(h)' + Cardinality(Running(h, "greeting")') <= MaxConnsPerKey
  <2>1. Clients(h) + Cardinality(Running(h, "greeting")) <= MaxConnsPerKey
    BY <1>11 DEF RoomInv
  <2>2. Running(h, "greeting")' = Running(h, "greeting")
    BY <1>3, RunningSame
  <2>3. Clients(h)' \in Int /\ Clients(h) \in Int /\ Clients(h)' <= Clients(h)
    BY <1>6 DEF Clients
  <2> HIDE DEF GInv
  <2> QED
    BY <2>1, <2>2, <2>3, RunningFinite, GatewayAssumption DEF GatewayAssumption
<1>12. RoomInv'
  BY <1>11 DEF RoomInv
<1> QED
  BY <1>7, <1>9, <1>10, <1>12

-----------------------------------------------------------------------------
LEMMA GatewayStep == GInv /\ [GatewayNext]_gatewayVars => GInv'
<1> SUFFICES ASSUME GInv, [GatewayNext]_gatewayVars PROVE GInv'
  OBVIOUS
<1>1. ASSUME NEW c \in Conns, Accept(c) PROVE GInv'
  BY <1>1, AcceptInv
<1>2. ASSUME NEW c \in Conns, PeerLeaves(c) PROVE GInv'
  BY <1>2, PeerLeavesInv
<1>3. ASSUME NEW c \in Conns, HelloTimeout(c) \/ Refuse(c) \/ TooManyKeys(c) \/ GreetingFails(c)
      PROVE  GInv'
  BY <1>3, CloseInv DEF HelloTimeout, HelloExpired, Refuse, TooManyKeys, GreetingFails
<1>4. ASSUME NEW c \in Conns, LookupExisting(c) PROVE GInv'
  BY <1>4, LookupExistingInv
<1>5. ASSUME NEW c \in Conns, LookupNew(c) PROVE GInv'
  BY <1>5, LookupNewInv
<1>6. ASSUME NEW c \in Conns, CheckLimit(c) PROVE GInv'
  BY <1>6, CheckLimitInv
<1>7. ASSUME NEW c \in Conns, Register(c) PROVE GInv'
  BY <1>7, RegisterInv
<1>8. ASSUME NEW c \in Conns, Activity(c) PROVE GInv'
  <2>1. held[c] \in HubIds
    <3>1. held[c] \in 0..created /\ held[c] # 0 /\ created \in 0..MaxHubs
      BY <1>8 DEF Activity, GInv, TypeOK
    <3> QED
      BY <3>1, GatewayAssumption DEF HubIds, GatewayAssumption
  <2> QED
    BY <1>8, <2>1, IdleInv DEF Activity
<1>9. ASSUME NEW c \in Conns, ProducerEnds(c) PROVE GInv'
  BY <1>9, LeaveInv DEF ProducerEnds
<1>10. ASSUME NEW c \in Conns, ConsumerEnds(c) PROVE GInv'
  BY <1>10, LeaveInv DEF ConsumerEnds
<1>11. ASSUME NEW h \in HubIds, GoIdle(h) PROVE GInv'
  BY <1>11, IdleInv DEF GoIdle
<1>12. CASE Maintain
  BY <1>12, MaintainInv
<1>13. CASE UNCHANGED gatewayVars
  <2>1. TypeOK' /\ RolesInv'
    BY <1>13 DEF gatewayVars, GInv, TypeOK, RolesInv
  <2>2. Counted' /\ RoomInv'
    BY <1>13 DEF gatewayVars, GInv, Counted, RoomInv, Running, Clients
  <2> QED
    BY <2>1, <2>2 DEF GInv
<1> QED
  BY <1>1, <1>2, <1>3, <1>4, <1>5, <1>6, <1>7, <1>8, <1>9, <1>10, <1>11, <1>12, <1>13
  DEF GatewayNext, Handle

LEMMA GatewayInvariant == GatewaySpec => []GInv
BY GatewayStarts, GatewayStep, PTL DEF GatewaySpec

\* Every variable of the gateway keeps its type; in particular no counter of
\* a hub ever goes below zero (hub.rs:455).
THEOREM GatewayTypeCorrect == GatewaySpec => []TypeOK
BY GatewayInvariant, PTL DEF GInv

\* However connections end, refused, failed, timed out or closed, a hub's
\* counters are the numbers of connections that run on it (hub.rs:436).
THEOREM PlacesCounted == GatewaySpec => []Counted
BY GatewayInvariant, PTL DEF GInv

\* A hub with more connections than max_conns_per_key has had two of them
\* between the check and their guard at once (hub.rs:359).
THEOREM LimitHolds == GatewaySpec => []LimitAccounted
<1>1. GInv => LimitAccounted
  <2> SUFFICES ASSUME GInv, NEW h \in HubIds, h \notin crowded
               PROVE  ~(Clients(h) > MaxConnsPerKey)
    BY DEF LimitAccounted
  <2>1. Clients(h) + Cardinality(Running(h, "greeting")) <= MaxConnsPerKey
    BY DEF GInv, RoomInv
  <2>2. Clients(h) \in Nat
    BY DEF GInv, TypeOK, Clients
  <2> QED
    BY <2>1, <2>2, RunningFinite, GatewayAssumption DEF GatewayAssumption
<1> QED
  BY <1>1, GatewayInvariant, PTL

-----------------------------------------------------------------------------
(* Orphans.                                                                *)

\* A task holds the hub of a key, or maintain dropped it while it did.
OrphanInv ==
  \A c \in Conns :
    held[c] # 0 => /\ hello[c].server \in Keys
                   /\ hubs[hello[c].server] = held[c] \/ held[c] \in orphaned

\* Only the table, a hello or a held hub matters to it.
LEMMA OrphanStays ==
  ASSUME OrphanInv, UNCHANGED <<hubs, orphaned>>,
         \A c \in Conns : held'[c] = 0 \/ (held'[c] = held[c] /\ hello'[c] = hello[c])
  PROVE  OrphanInv'
BY DEF OrphanInv

LEMMA CloseOrphans ==
  ASSUME GInv, OrphanInv, NEW c \in Conns, Close(c), UNCHANGED <<hubs, orphaned>>
  PROVE  OrphanInv'
<1>1. \A d \in Conns : held'[d] = 0 \/ (held'[d] = held[d] /\ hello'[d] = hello[d])
  BY DEF Close, GInv, TypeOK
<1> QED
  BY <1>1, OrphanStays

\* The hello that finds a hub, or makes one for a key that has none: whoever
\* else works for that key is an orphan already.
LEMMA LookupOrphans ==
  ASSUME GInv, OrphanInv, NEW c \in Conns, LookupExisting(c) \/ LookupNew(c)
  PROVE  OrphanInv'
<1>1. PICK m \in Hellos :
        /\ Acceptable(m)
        /\ hello' = [hello EXCEPT ![c] = m]
        /\ \/ hubs' = hubs /\ held' = [held EXCEPT ![c] = hubs[m.server]]
           \/ /\ hubs[m.server] = 0
              /\ hubs' = [hubs EXCEPT ![m.server] = created + 1]
              /\ held' = [held EXCEPT ![c] = created + 1]
  BY DEF LookupExisting, LookupNew, hubVars
<1>2. m.server \in Keys /\ orphaned' = orphaned
  BY <1>1, GatewayAssumption DEF Acceptable, GatewayAssumption, LookupExisting, LookupNew
<1>3. /\ hello'[c] = m /\ held'[c] = hubs'[m.server]
      /\ \A d \in Conns \ {c} : hello'[d] = hello[d] /\ held'[d] = held[d]
      /\ \A k \in Keys : k # m.server => hubs'[k] = hubs[k]
      /\ hubs'[m.server] = hubs[m.server] \/ hubs[m.server] = 0
  BY <1>1, <1>2 DEF GInv, TypeOK
<1>4. ASSUME NEW d \in Conns, held'[d] # 0
      PROVE  /\ hello'[d].server \in Keys
             /\ hubs'[hello'[d].server] = held'[d] \/ held'[d] \in orphaned'
  <2>1. CASE d = c
    BY <1>2, <1>3, <2>1
  <2>2. CASE d # c
    BY <1>2, <1>3, <1>4, <2>2 DEF OrphanInv
  <2> QED
    BY <2>1, <2>2
<1> QED
  BY <1>4 DEF OrphanInv

\* maintain drops a hub no connection runs on: those that hold it are being
\* admitted, and are the orphans it makes.
LEMMA MaintainOrphans ==
  ASSUME GInv, OrphanInv, Maintain
  PROVE  OrphanInv'
<1>1. /\ hubs' = [k \in Keys |-> IF Unused(hubs[k]) THEN 0 ELSE hubs[k]]
      /\ orphaned' = orphaned \cup
           {hubs[k] : k \in {j \in Keys : Unused(hubs[j]) /\ Admitting(hubs[j]) # {}}}
      /\ UNCHANGED <<hello, held>>
  BY DEF Maintain
<1>2. ASSUME NEW c \in Conns, held[c] # 0, hubs[hello[c].server] = held[c], Unused(held[c])
      PROVE  held[c] \in orphaned'
  <2>1. held[c] \in HubIds
    <3>1. held[c] \in 0..created /\ created \in 0..MaxHubs
      BY DEF GInv, TypeOK
    <3> QED
      BY <1>2, <3>1, GatewayAssumption DEF HubIds, GatewayAssumption
  <2>2. Cardinality(Running(held[c], "producer")) = 0 /\ Cardinality(Running(held[c], "consumer")) = 0
    BY <1>2, <2>1 DEF GInv, Counted, Unused
  <2>3. Running(held[c], "producer") = {} /\ Running(held[c], "consumer") = {}
    BY <2>2, RunningFinite, FS_EmptySet
  <2>4. at[c] \notin {"producer", "consumer", "closed", "hello"}
    BY <1>2, <2>3 DEF Running, GInv, TypeOK
  <2>5. c \in Admitting(held[c])
    BY <2>4 DEF Admitting, GInv, TypeOK
  <2> QED
    BY <1>1, <1>2, <2>5 DEF OrphanInv
<1>3. ASSUME NEW c \in Conns, held'[c] # 0
      PROVE  /\ hello'[c].server \in Keys
             /\ hubs'[hello'[c].server] = held'[c] \/ held'[c] \in orphaned'
  <2>1. /\ hello[c].server \in Keys
        /\ hubs[hello[c].server] = held[c] \/ held[c] \in orphaned
    BY <1>1, <1>3 DEF OrphanInv
  <2> QED
    BY <1>1, <1>2, <1>3, <2>1
<1> QED
  BY <1>3 DEF OrphanInv

LEMMA OrphanStep == GInv /\ OrphanInv /\ [GatewayNext]_gatewayVars => OrphanInv'
<1> SUFFICES ASSUME GInv, OrphanInv, [GatewayNext]_gatewayVars PROVE OrphanInv'
  OBVIOUS
<1>1. CASE UNCHANGED <<hubs, orphaned, held, hello>>
  BY <1>1 DEF OrphanInv
<1>2. ASSUME NEW c \in Conns, Close(c), UNCHANGED <<hubs, orphaned>> PROVE OrphanInv'
  BY <1>2, CloseOrphans
<1>3. ASSUME NEW c \in Conns, LookupExisting(c) \/ LookupNew(c) PROVE OrphanInv'
  BY <1>3, LookupOrphans
<1>4. CASE Maintain
  BY <1>4, MaintainOrphans
<1> QED
  BY <1>1, <1>2, <1>3, <1>4
  DEF GatewayNext, Handle, gatewayVars, hubVars, Accept, PeerLeaves, HelloTimeout, Refuse, TooManyKeys,
      CheckLimit, GreetingFails, Register, Activity, ProducerEnds, ConsumerEnds, GoIdle

\* A connection works on a hub that is not its key's only if maintain dropped
\* the hub while a task held it without being counted, which is between
\* hub_for and ClientGuard::new (hub.rs:139 and 181).
THEOREM OrphansExplained == GatewaySpec => []OrphansAccounted
<1>1. GatewayInit => OrphanInv
  BY DEF GatewayInit, OrphanInv
<1>2. OrphanInv => OrphansAccounted
  BY DEF OrphanInv, OrphansAccounted
<1> QED
  BY <1>1, <1>2, OrphanStep, GatewayInvariant, PTL DEF GatewaySpec

-----------------------------------------------------------------------------
(* The say relay.                                                          *)

-----------------------------------------------------------------------------
(* Sequences that grow at the end and shrink at the front.                 *)

\* Appending x adds x, and nothing else, to the elements of s.
LEMMA RangeAppend ==
  ASSUME NEW S, NEW s \in Seq(S), NEW x \in S
  PROVE  /\ Append(s, x) \in Seq(S)
         /\ Range(Append(s, x)) = Range(s) \cup {x}
<1>1. /\ Append(s, x) \in Seq(S)
      /\ Len(Append(s, x)) = Len(s) + 1
      /\ \A i \in 1..Len(s) : Append(s, x)[i] = s[i]
      /\ Append(s, x)[Len(s) + 1] = x
  BY AppendProperties
<1>2. /\ DOMAIN s = 1..Len(s)
      /\ DOMAIN Append(s, x) = 1..(Len(s) + 1)
      /\ Len(s) \in Nat
  BY <1>1, LenProperties
<1>3. ASSUME NEW y \in Range(Append(s, x))
      PROVE  y \in Range(s) \cup {x}
  BY <1>1, <1>2 DEF Range
<1>4. ASSUME NEW y \in Range(s)
      PROVE  y \in Range(Append(s, x))
  BY <1>1, <1>2 DEF Range
<1>5. x \in Range(Append(s, x))
  BY <1>1, <1>2 DEF Range
<1> QED
  BY <1>1, <1>3, <1>4, <1>5

\* The elements of a nonempty sequence are its head and those of its tail.
LEMMA RangeHeadTail ==
  ASSUME NEW S, NEW s \in Seq(S), s # <<>>
  PROVE  /\ Head(s) \in S
         /\ Tail(s) \in Seq(S)
         /\ Range(s) = {Head(s)} \cup Range(Tail(s))
<1>1. /\ Head(s) \in S /\ Head(s) = s[1]
      /\ Tail(s) \in Seq(S)
      /\ Len(Tail(s)) = Len(s) - 1
      /\ \A i \in 1..Len(Tail(s)) : Tail(s)[i] = s[i + 1]
  BY HeadTailProperties, ElementOfSeq, EmptySeq, LenProperties
<1>2. /\ DOMAIN s = 1..Len(s)
      /\ DOMAIN Tail(s) = 1..(Len(s) - 1)
      /\ Len(s) \in Nat \ {0}
  BY <1>1, LenProperties, EmptySeq
<1>3. ASSUME NEW y \in Range(s)
      PROVE  y \in {Head(s)} \cup Range(Tail(s))
  <2>1. PICK i \in 1..Len(s) : y = s[i]
    BY <1>2 DEF Range
  <2>2. CASE i = 1
    BY <2>1, <2>2, <1>1
  <2>3. CASE i # 1
    <3>1. i - 1 \in 1..(Len(s) - 1) /\ (i - 1) + 1 = i
      BY <2>3, <1>2
    <3>2. Tail(s)[i - 1] = y
      BY <3>1, <1>1, <1>2, <2>1
    <3> QED
      BY <3>1, <3>2, <1>2 DEF Range
  <2> QED
    BY <2>2, <2>3
<1>4. ASSUME NEW y \in Range(Tail(s))
      PROVE  y \in Range(s)
  <2>1. PICK i \in 1..(Len(s) - 1) : y = Tail(s)[i]
    BY <1>2 DEF Range
  <2>2. i + 1 \in 1..Len(s) /\ y = s[i + 1]
    BY <2>1, <1>1, <1>2
  <2> QED
    BY <2>2, <1>2 DEF Range
<1>5. Head(s) \in Range(s)
  BY <1>1, <1>2 DEF Range
<1> QED
  BY <1>1, <1>3, <1>4, <1>5

\* The empty sequence has no elements.
LEMMA RangeEmpty ==
  Range(<<>>) = {}
BY EmptySeq DEF Range

\* The elements of a sequence are those at its positions.
LEMMA RangePositions ==
  ASSUME NEW S, NEW s \in Seq(S)
  PROVE  /\ \A i \in 1..Len(s) : s[i] \in Range(s)
         /\ \A y \in Range(s) : \E i \in 1..Len(s) : s[i] = y
<1>1. DOMAIN s = 1..Len(s)
  BY LenProperties
<1> QED
  BY <1>1 DEF Range

-----------------------------------------------------------------------------
(* Sequences of numbers that are in order among those of the same key, and *)
(* sets of which one is ahead of the other.                                *)

OrderedBy(k, s) == \A i, j \in 1..Len(s) : i < j /\ k[s[i]] = k[s[j]] => s[i] < s[j]
Ahead(k, S, T) == \A x \in S, y \in T : k[x] = k[y] => x < y

\* A number that all others are ahead of goes to the end.
LEMMA OrderedAppend ==
  ASSUME NEW k, NEW s \in Seq(Nat), NEW x \in Nat, OrderedBy(k, s), Ahead(k, Range(s), {x})
  PROVE  OrderedBy(k, Append(s, x))
<1>1. /\ Len(Append(s, x)) = Len(s) + 1 /\ Len(s) \in Nat
      /\ \A i \in 1..Len(s) : Append(s, x)[i] = s[i]
      /\ Append(s, x)[Len(s) + 1] = x
  BY AppendProperties, LenProperties
<1>2. \A i \in 1..Len(s) : k[s[i]] = k[x] => s[i] < x
  BY RangePositions DEF Ahead
<1> QED
  BY <1>1, <1>2 DEF OrderedBy

\* The head is ahead of the tail.
LEMMA OrderedTail ==
  ASSUME NEW k, NEW s \in Seq(Nat), s # <<>>, OrderedBy(k, s)
  PROVE  OrderedBy(k, Tail(s)) /\ Ahead(k, {Head(s)}, Range(Tail(s)))
<1>1. /\ Head(s) = s[1]
      /\ Tail(s) \in Seq(Nat)
      /\ Len(Tail(s)) = Len(s) - 1 /\ Len(s) \in Nat \ {0}
      /\ \A i \in 1..Len(Tail(s)) : Tail(s)[i] = s[i + 1]
  BY HeadTailProperties, ElementOfSeq, EmptySeq, LenProperties
<1>2. ASSUME NEW i \in 1..Len(Tail(s)), NEW j \in 1..Len(Tail(s)), i < j,
             k[Tail(s)[i]] = k[Tail(s)[j]]
      PROVE  Tail(s)[i] < Tail(s)[j]
  <2>1. i + 1 \in 1..Len(s) /\ j + 1 \in 1..Len(s) /\ i + 1 < j + 1
    BY <1>1, <1>2
  <2> QED
    BY <2>1, <1>1, <1>2 DEF OrderedBy
<1>3. ASSUME NEW i \in 1..Len(Tail(s)), k[Head(s)] = k[Tail(s)[i]]
      PROVE  Head(s) < Tail(s)[i]
  <2>1. i + 1 \in 1..Len(s) /\ 1 \in 1..Len(s) /\ 1 < i + 1
    BY <1>1
  <2> QED
    BY <2>1, <1>1, <1>3 DEF OrderedBy
<1>4. \A y \in Range(Tail(s)) : \E i \in 1..Len(Tail(s)) : Tail(s)[i] = y
  BY <1>1, RangePositions
<1> QED
  BY <1>2, <1>3, <1>4 DEF OrderedBy, Ahead

LEMMA OrderedEmpty ==
  ASSUME NEW k
  PROVE  OrderedBy(k, <<>>)
BY EmptySeq DEF OrderedBy

\* The order looks at the keys of the elements only.
LEMMA OrderedSameKeys ==
  ASSUME NEW k, NEW m, NEW s \in Seq(Nat), OrderedBy(k, s), \A x \in Range(s) : m[x] = k[x]
  PROVE  OrderedBy(m, s)
BY RangePositions DEF OrderedBy

\* The head of q goes to the end of p, which q comes after.
LEMMA OrderedMove ==
  ASSUME NEW k, NEW p \in Seq(Nat), NEW q \in Seq(Nat), q # <<>>,
         OrderedBy(k, p), OrderedBy(k, q), Ahead(k, Range(p), Range(q))
  PROVE  /\ Append(p, Head(q)) \in Seq(Nat) /\ Tail(q) \in Seq(Nat)
         /\ Head(q) \in Nat
         /\ Range(Append(p, Head(q))) = Range(p) \cup {Head(q)}
         /\ Range(q) = {Head(q)} \cup Range(Tail(q))
         /\ OrderedBy(k, Append(p, Head(q))) /\ OrderedBy(k, Tail(q))
         /\ Ahead(k, Range(Append(p, Head(q))), Range(Tail(q)))
<1>1. /\ Head(q) \in Nat /\ Tail(q) \in Seq(Nat)
      /\ Range(q) = {Head(q)} \cup Range(Tail(q))
  BY RangeHeadTail
<1>2. /\ Append(p, Head(q)) \in Seq(Nat)
      /\ Range(Append(p, Head(q))) = Range(p) \cup {Head(q)}
  BY <1>1, RangeAppend
<1>3. OrderedBy(k, Tail(q)) /\ Ahead(k, {Head(q)}, Range(Tail(q)))
  BY OrderedTail
<1>4. Ahead(k, Range(p), {Head(q)}) /\ Ahead(k, Range(p), Range(Tail(q)))
  BY <1>1 DEF Ahead
<1>5. OrderedBy(k, Append(p, Head(q)))
  BY <1>1, <1>4, OrderedAppend
<1>6. Ahead(k, Range(Append(p, Head(q))), Range(Tail(q)))
  BY <1>2, <1>3, <1>4 DEF Ahead
<1> QED
  BY <1>1, <1>2, <1>3, <1>5, <1>6

LEMMA ToSetIsRange == \A s : ToSet(s) = Range(s)
BY DEF ToSet, Range

-----------------------------------------------------------------------------
(* Events.                                                                 *)

\* One key for all events of a logger.
OneKey == [e \in Nat |-> 1]

\* The n events of a logger that has published q, w, g and lost d: those the
\* gateway ingested are ahead of those on the wire, and these of the queue.
Uplink(q, w, g, d, n) ==
  /\ n \in Nat /\ d \subseteq Nat
  /\ q \in Seq(Nat) /\ w \in Seq(Nat) /\ g \in Seq(Nat)
  /\ OrderedBy(OneKey, q) /\ OrderedBy(OneKey, w) /\ OrderedBy(OneKey, g)
  /\ Ahead(OneKey, Range(g), Range(w) \cup Range(q))
  /\ Ahead(OneKey, Range(w), Range(q))
  /\ Range(q) \cup Range(w) \cup Range(g) \subseteq 1 .. n
  /\ 1 .. n \subseteq Range(q) \cup Range(w) \cup Range(g) \cup d

UplinkInv ==
  /\ queue \in [Loggers -> Seq(Nat)] /\ wire \in [Loggers -> Seq(Nat)]
  /\ ingested \in [Loggers -> Seq(Nat)] /\ published \in [Loggers -> Nat]
  /\ dropped \in [Loggers -> SUBSET Nat]
  /\ \A l \in Loggers : Uplink(queue[l], wire[l], ingested[l], dropped[l], published[l])

\* publish appends the next event,
LEMMA PublishUplink ==
  ASSUME NEW q, NEW w, NEW g, NEW d, NEW n, Uplink(q, w, g, d, n)
  PROVE  Uplink(Append(q, n + 1), w, g, d, n + 1)
<1>n. n + 1 \in Nat /\ q \in Seq(Nat)
  BY DEF Uplink
<1>1. /\ Append(q, n + 1) \in Seq(Nat)
      /\ Range(Append(q, n + 1)) = Range(q) \cup {n + 1}
  BY <1>n, RangeAppend
<1>2. \A x \in Range(q) \cup Range(w) \cup Range(g) : x \in Nat /\ x < n + 1
  BY DEF Uplink
<1>3. OrderedBy(OneKey, Append(q, n + 1))
  <2>1. Ahead(OneKey, Range(q), {n + 1})
    BY <1>2 DEF Ahead
  <2> QED
    BY <1>n, <2>1, OrderedAppend DEF Uplink
<1>4. /\ Ahead(OneKey, Range(g), Range(w) \cup Range(Append(q, n + 1)))
      /\ Ahead(OneKey, Range(w), Range(Append(q, n + 1)))
  BY <1>1, <1>2 DEF Uplink, Ahead
<1>5. 1 .. n + 1 = (1 .. n) \cup {n + 1}
  BY DEF Uplink
<1> QED
  BY <1>n, <1>1, <1>3, <1>4, <1>5 DEF Uplink

\* run_producer of the publisher moves one from the queue to the wire,
LEMMA SendUplink ==
  ASSUME NEW q, NEW w, NEW g, NEW d, NEW n, Uplink(q, w, g, d, n), q # <<>>
  PROVE  Uplink(Tail(q), Append(w, Head(q)), g, d, n)
<1>1. /\ Append(w, Head(q)) \in Seq(Nat) /\ Tail(q) \in Seq(Nat)
      /\ Range(Append(w, Head(q))) = Range(w) \cup {Head(q)}
      /\ Range(q) = {Head(q)} \cup Range(Tail(q))
      /\ OrderedBy(OneKey, Append(w, Head(q))) /\ OrderedBy(OneKey, Tail(q))
      /\ Ahead(OneKey, Range(Append(w, Head(q))), Range(Tail(q)))
  BY OrderedMove DEF Uplink
<1>2. Range(Append(w, Head(q))) \cup Range(Tail(q)) = Range(w) \cup Range(q)
  BY <1>1
<1> QED
  BY <1>1, <1>2 DEF Uplink

\* or loses it to a peer that is gone,
LEMMA VoidUplink ==
  ASSUME NEW q, NEW w, NEW g, NEW d, NEW n, Uplink(q, w, g, d, n), q # <<>>
  PROVE  Uplink(Tail(q), w, g, d \cup {Head(q)}, n)
<1>1. /\ Tail(q) \in Seq(Nat) /\ Head(q) \in Nat /\ OrderedBy(OneKey, Tail(q))
      /\ Range(q) = {Head(q)} \cup Range(Tail(q))
  BY RangeHeadTail, OrderedTail DEF Uplink
<1>2. /\ Ahead(OneKey, Range(g), Range(w) \cup Range(Tail(q)))
      /\ Ahead(OneKey, Range(w), Range(Tail(q)))
  BY <1>1 DEF Uplink, Ahead
<1> QED
  BY <1>1, <1>2 DEF Uplink

\* the gateway takes one from the wire,
LEMMA IngestUplink ==
  ASSUME NEW q, NEW w, NEW g, NEW d, NEW n, Uplink(q, w, g, d, n), w # <<>>
  PROVE  Uplink(q, Tail(w), Append(g, Head(w)), d, n)
<1>1. Ahead(OneKey, Range(g), Range(w))
  BY DEF Uplink, Ahead
<1>2. /\ Append(g, Head(w)) \in Seq(Nat) /\ Tail(w) \in Seq(Nat)
      /\ Range(Append(g, Head(w))) = Range(g) \cup {Head(w)}
      /\ Range(w) = {Head(w)} \cup Range(Tail(w))
      /\ OrderedBy(OneKey, Append(g, Head(w))) /\ OrderedBy(OneKey, Tail(w))
      /\ Ahead(OneKey, Range(Append(g, Head(w))), Range(Tail(w)))
  BY <1>1, OrderedMove DEF Uplink
<1>3. /\ Ahead(OneKey, Range(Append(g, Head(w))), Range(Tail(w)) \cup Range(q))
      /\ Ahead(OneKey, Range(Tail(w)), Range(q))
  BY <1>2 DEF Uplink, Ahead
<1> QED
  BY <1>2, <1>3 DEF Uplink

\* and a connection that is cut takes the wire with it.
LEMMA CutUplink ==
  ASSUME NEW q, NEW w, NEW g, NEW d, NEW n, Uplink(q, w, g, d, n)
  PROVE  Uplink(q, <<>>, g, d \cup Range(w), n)
<1>1. PICK e : e = <<>>
  OBVIOUS
<1>2. e \in Seq(Nat) /\ Range(e) = {} /\ OrderedBy(OneKey, e)
  BY <1>1, RangeEmpty, OrderedEmpty, EmptySeq
<1>3. Range(w) \subseteq Nat
  BY DEF Uplink
<1>4. Ahead(OneKey, Range(g), Range(e) \cup Range(q)) /\ Ahead(OneKey, Range(e), Range(q))
  BY <1>2 DEF Uplink, Ahead
<1> QED
  BY <1>1, <1>2, <1>3, <1>4 DEF Uplink

LEMMA InitUplink == Init => UplinkInv
BY RangeEmpty, OrderedEmpty, EmptySeq DEF Init, UplinkInv, Uplink, Ahead

\* A step that leaves the events alone.
LEMMA SameUplink == UplinkInv /\ UNCHANGED events => UplinkInv'
BY DEF UplinkInv, events

\* A cut takes with it what is on the wires of the loggers it cuts.
LEMMA CutsUplink ==
  ASSUME UplinkInv, NEW S, NEW arrives \in BOOLEAN, Cut(S, arrives)
  PROVE  UplinkInv'
<1>1. /\ queue' = queue /\ ingested' = ingested /\ published' = published
      /\ wire' = [l \in Loggers |-> IF l \in S \cap Loggers THEN <<>> ELSE wire[l]]
      /\ dropped' = [l \in Loggers |-> IF l \in S \cap Loggers THEN dropped[l] \cup Range(wire[l])
                                                               ELSE dropped[l]]
  BY ToSetIsRange DEF Cut, CutLoggers
<1>2. wire' \in [Loggers -> Seq(Nat)]
  BY <1>1, EmptySeq DEF UplinkInv
<1>3. ASSUME NEW l \in Loggers
      PROVE  Uplink(queue[l], wire'[l], ingested[l], dropped'[l], published[l])
  BY <1>1, CutUplink DEF UplinkInv
<1>4. dropped' \in [Loggers -> SUBSET Nat]
  BY <1>1, <1>3 DEF Uplink
<1>5. /\ queue' \in [Loggers -> Seq(Nat)] /\ ingested' \in [Loggers -> Seq(Nat)]
      /\ published' \in [Loggers -> Nat]
  BY <1>1 DEF UplinkInv
<1>6. \A l \in Loggers : Uplink(queue'[l], wire'[l], ingested'[l], dropped'[l], published'[l])
  BY <1>1, <1>3
<1> QED
  BY <1>2, <1>4, <1>5, <1>6 DEF UplinkInv

LEMMA NextUplink == UplinkInv /\ [Next]_vars => UplinkInv'
<1> SUFFICES ASSUME UplinkInv, [Next]_vars PROVE UplinkInv'
  OBVIOUS
<1>1. CASE UNCHANGED events
  BY <1>1, SameUplink
<1>2. ASSUME NEW S, NEW arrives \in BOOLEAN, Cut(S, arrives) PROVE UplinkInv'
  BY <1>2, CutsUplink
<1>3. ASSUME NEW l \in Loggers, Publish(l) PROVE UplinkInv'
  BY <1>3, PublishUplink DEF Publish, UplinkInv
<1>4. ASSUME NEW l \in Loggers, SendEvent(l) PROVE UplinkInv'
  BY <1>4, SendUplink DEF SendEvent, UplinkInv
<1>5. ASSUME NEW l \in Loggers, SendIntoVoid(l) PROVE UplinkInv'
  <2>1. Uplink(Tail(queue[l]), wire[l], ingested[l], dropped[l] \cup {Head(queue[l])}, published[l])
    BY <1>5, VoidUplink DEF SendIntoVoid, UplinkInv
  <2>2. queue' \in [Loggers -> Seq(Nat)] /\ dropped' \in [Loggers -> SUBSET Nat]
    BY <1>5, <2>1 DEF SendIntoVoid, UplinkInv, Uplink
  <2> QED
    BY <1>5, <2>1, <2>2 DEF SendIntoVoid, UplinkInv
<1>6. ASSUME NEW l \in Loggers, Ingest(l) PROVE UplinkInv'
  BY <1>6, IngestUplink DEF Ingest, UplinkInv
<1> QED
  BY <1>1, <1>2, <1>3, <1>4, <1>5, <1>6
     DEF Next, vars, NetworkCut, GatewayRestart, Reject, Connect, Notice, Count, SubscribeSays,
         GhostEnds, WriteSay, HearSay, RefuseSay, Speak, LeaveOrJoin, Admit, ReadReady, Say,
         SendSay, ReadSay, Tick

\* The gateway ingests a logger's events in order and once, and what it does
\* not ingest waits or went with a connection (lib.rs run_producer, hub.rs
\* Hub::run_producer).
THEOREM EventsKept == Spec => []UplinkKept
<1>1. UplinkInv => UplinkKept
  <2> SUFFICES ASSUME UplinkInv, NEW l \in Loggers
               PROVE  /\ \A i, j \in 1 .. Len(ingested[l]) : i < j => ingested[l][i] < ingested[l][j]
                      /\ \A e \in 1 .. published[l] :
                           \/ e \in ToSet(queue[l]) \cup ToSet(wire[l]) \cup dropped[l]
                           \/ e \in ToSet(ingested[l])
    BY DEF UplinkKept
  <2>1. Uplink(queue[l], wire[l], ingested[l], dropped[l], published[l])
    BY DEF UplinkInv
  <2>2. \A i \in 1 .. Len(ingested[l]) : OneKey[ingested[l][i]] = 1
    BY <2>1, ElementOfSeq DEF Uplink, OneKey
  <2> QED
    BY <2>1, <2>2, ToSetIsRange DEF Uplink, OrderedBy
<1> QED
  BY <1>1, InitUplink, NextUplink, PTL DEF Spec
-----------------------------------------------------------------------------
(* The allowance.                                                          *)

\* The relays of the present window, r being when all of them were.
Window(u) == IF u < Allowance THEN u ELSE Allowance

\* r is when a connection has relayed, at the time t, with u of its window
\* used, which has been open for w ticks, or for Minute at least: the last
\* Window(u) relays are in the window, all others came before it, and all but
\* Allowance of these a minute before it.
Rate(r, w, u, t) ==
  /\ t \in Nat /\ w \in 0 .. Minute /\ u \in Nat /\ r \in Seq(Nat)
  /\ Window(u) <= Len(r)
  /\ \A i \in 1 .. Len(r) : r[i] <= t
  /\ w < Minute => \A i \in 1 .. Len(r) : i > Len(r) - Window(u) => r[i] + w >= t
  /\ \A i \in 1 .. Len(r) : i <= Len(r) - Window(u) => r[i] + w <= t
  /\ \A i \in 1 .. Len(r) : i <= Len(r) - Window(u) - Allowance => r[i] + w + Minute <= t

Lately(r, t) == Cardinality({i \in 1 .. Len(r) : r[i] + Minute > t})

\* Two windows may meet in a minute.
LEMMA RateBounded ==
  ASSUME NEW r, NEW w, NEW u, NEW t, Rate(r, w, u, t)
  PROVE  /\ Lately(r, t) <= 2 * Allowance
         /\ w < Minute /\ u >= Allowance => Lately(r, t) >= Allowance
<1> DEFINE late == {i \in 1 .. Len(r) : r[i] + Minute > t}
           low == Len(r) - Window(u) - Allowance + 1
<1>1. /\ Len(r) \in Nat /\ Window(u) \in 0 .. Allowance /\ Allowance \in Nat \ {0}
      /\ \A i \in 1 .. Len(r) : r[i] \in Nat
  BY RelayAssumption, LenProperties, ElementOfSeq DEF Rate, Window, RelayAssumption
<1>2. IsFiniteSet(late)
  <2>1. IsFiniteSet(1 .. Len(r)) /\ late \subseteq 1 .. Len(r)
    BY <1>1, FS_Interval
  <2> QED
    BY <2>1, FS_Subset
<1>3. Lately(r, t) <= 2 * Allowance
  <2>1. late \subseteq low .. Len(r)
    <3>1. SUFFICES ASSUME NEW i \in 1 .. Len(r), r[i] + Minute > t
                   PROVE  i >= Len(r) - Window(u) - Allowance + 1
      BY <1>1
    <3>2. /\ i <= Len(r) - Window(u) - Allowance => r[i] + w + Minute <= t
          /\ w \in Nat /\ t \in Nat /\ r[i] \in Nat
      BY <1>1 DEF Rate
    <3> QED
      BY <1>1, <3>1, <3>2, RelayAssumption DEF RelayAssumption
  <2>2. IsFiniteSet(low .. Len(r)) /\ Cardinality(low .. Len(r)) <= 2 * Allowance
    <3>1. low \in Int /\ Len(r) \in Int /\ Len(r) - low + 1 <= 2 * Allowance
      BY <1>1
    <3>2. /\ IsFiniteSet(low .. Len(r))
          /\ Cardinality(low .. Len(r)) = IF low > Len(r) THEN 0 ELSE Len(r) - low + 1
      BY <3>1, FS_Interval
    <3> QED
      BY <1>1, <3>1, <3>2
  <2>3. Cardinality(late) <= Cardinality(low .. Len(r)) /\ Cardinality(late) \in Nat
        /\ Cardinality(low .. Len(r)) \in Nat
    BY <1>2, <2>1, <2>2, FS_Subset, FS_CardinalityType
  <2> QED
    BY <1>1, <2>2, <2>3 DEF Lately
<1>4. ASSUME w < Minute, u >= Allowance
      PROVE  Lately(r, t) >= Allowance
  <2> DEFINE new == Len(r) - Allowance + 1 .. Len(r)
  <2>1. Window(u) = Allowance /\ Allowance <= Len(r)
    BY <1>1, <1>4 DEF Rate, Window
  <2>2. new \subseteq late
    <3>1. SUFFICES ASSUME NEW i \in new
                   PROVE  i \in 1 .. Len(r) /\ r[i] + Minute > t
      OBVIOUS
    <3>2. i \in 1 .. Len(r) /\ i > Len(r) - Window(u)
      BY <1>1, <2>1, <3>1
    <3>3. r[i] + w >= t /\ r[i] \in Nat /\ w \in Nat /\ t \in Nat
      BY <1>1, <1>4, <3>2 DEF Rate
    <3> QED
      BY <1>4, <3>2, <3>3, RelayAssumption DEF RelayAssumption
  <2>3. IsFiniteSet(new) /\ Cardinality(new) = Allowance
    BY <1>1, <2>1, FS_Interval
  <2>4. Cardinality(new) <= Cardinality(late)
    BY <1>2, <2>2, FS_Subset
  <2> QED
    BY <2>3, <2>4 DEF Lately
<1> QED
  BY <1>3, <1>4

\* What Rate says of one relay.
LEMMA RateAt ==
  ASSUME NEW r, NEW w, NEW u, NEW t, Rate(r, w, u, t), NEW i \in 1 .. Len(r)
  PROVE  /\ r[i] \in Nat /\ w \in Nat /\ t \in Nat /\ Len(r) \in Nat /\ r[i] <= t
         /\ w < Minute /\ i > Len(r) - Window(u) => r[i] + w >= t
         /\ i <= Len(r) - Window(u) => r[i] + w <= t
         /\ i <= Len(r) - Window(u) - Allowance => r[i] + w + Minute <= t
<1>1. r[i] \in Nat /\ Len(r) \in Nat
  BY ElementOfSeq, LenProperties DEF Rate
<1>2. w \in Nat /\ t \in Nat
  BY DEF Rate
<1> QED
  BY <1>1, <1>2 DEF Rate

\* A connection begins,
LEMMA RateStarts ==
  ASSUME NEW t \in Nat
  PROVE  Rate(<<>>, 0, 0, t)
BY RelayAssumption, EmptySeq DEF Rate, Window, RelayAssumption

\* time passes,
LEMMA RateTicks ==
  ASSUME NEW r, NEW w, NEW u, NEW t, Rate(r, w, u, t)
  PROVE  Rate(r, IF w < Minute THEN w + 1 ELSE w, u, t + 1)
<1> DEFINE new  == Len(r) - Window(u)
           past == Len(r) - Window(u) - Allowance
<1>1. \A i \in 1 .. Len(r) : r[i] \in Nat
  BY ElementOfSeq DEF Rate
<1>2. t \in Nat /\ w \in Nat /\ w <= Minute /\ Minute \in Nat
  BY RelayAssumption DEF Rate, RelayAssumption
<1>3. /\ \A i \in 1 .. Len(r) : r[i] <= t
      /\ w < Minute => \A i \in 1 .. Len(r) : i > new => r[i] + w >= t
      /\ \A i \in 1 .. Len(r) : i <= new => r[i] + w <= t
      /\ \A i \in 1 .. Len(r) : i <= past => r[i] + w + Minute <= t
      /\ u \in Nat /\ r \in Seq(Nat) /\ Window(u) <= Len(r)
  BY DEF Rate
<1> HIDE DEF new, past
<1>4. ASSUME NEW i \in 1 .. Len(r)
      PROVE  /\ r[i] <= t + 1
             /\ w < Minute /\ i > new => r[i] + (w + 1) >= t + 1
             /\ i <= new => r[i] + (w + 1) <= t + 1 /\ r[i] + w <= t + 1
             /\ i <= past => r[i] + (w + 1) + Minute <= t + 1 /\ r[i] + w + Minute <= t + 1
  <2> DEFINE x == r[i]
  <2>1. /\ x \in Nat /\ x <= t
        /\ w < Minute /\ i > new => x + w >= t
        /\ i <= new => x + w <= t
        /\ i <= past => x + w + Minute <= t
    BY <1>1, <1>3, <1>4
  <2> HIDE DEF x
  <2>2. x <= t + 1
    BY <1>2, <2>1
  <2>3. x + w >= t => x + (w + 1) >= t + 1
    BY <1>2, <2>1
  <2>4. x + w <= t => x + (w + 1) <= t + 1 /\ x + w <= t + 1
    BY <1>2, <2>1
  <2>5. x + w + Minute <= t => x + (w + 1) + Minute <= t + 1 /\ x + w + Minute <= t + 1
    BY <1>2, <2>1
  <2> QED
    BY <2>1, <2>2, <2>3, <2>4, <2>5 DEF x
<1>5. w < Minute => w + 1 \in 0 .. Minute
  BY <1>2
<1>6. w \in 0 .. Minute /\ t + 1 \in Nat
  BY <1>2
<1>7. CASE w < Minute
  BY <1>3, <1>4, <1>5, <1>6, <1>7 DEF Rate, new, past
<1>8. CASE ~(w < Minute)
  BY <1>3, <1>4, <1>6, <1>8 DEF Rate, new, past
<1> QED
  BY <1>7, <1>8

\* and a line is read: beyond the allowance it is dropped,
LEMMA RateRefuses ==
  ASSUME NEW r, NEW w, NEW u, NEW t, Rate(r, w, u, t), u + 1 > Allowance
  PROVE  Rate(r, w, u + 1, t)
<1>1. Window(u + 1) = Window(u)
  BY RelayAssumption DEF Rate, Window, RelayAssumption
<1> QED
  BY <1>1 DEF Rate

\* within it relayed, in the same window
LEMMA RateRelays ==
  ASSUME NEW r, NEW w, NEW u, NEW t, Rate(r, w, u, t), u + 1 <= Allowance
  PROVE  Rate(Append(r, t), w, u + 1, t)
<1>1. Window(u + 1) = u + 1 /\ Window(u) = u /\ u \in Nat
  BY RelayAssumption DEF Rate, Window, RelayAssumption
<1>2. /\ Append(r, t) \in Seq(Nat) /\ Len(Append(r, t)) = Len(r) + 1 /\ Len(r) \in Nat
      /\ \A i \in 1 .. Len(r) : Append(r, t)[i] = r[i] /\ r[i] \in Nat
      /\ Append(r, t)[Len(r) + 1] = t
  BY AppendProperties, LenProperties, ElementOfSeq DEF Rate
<1>3. Allowance \in Nat /\ Minute \in Nat /\ w \in 0 .. Minute /\ t \in Nat
  BY RelayAssumption DEF Rate, RelayAssumption
<1>4. ASSUME NEW i \in 1 .. Len(r) + 1
      PROVE  /\ Append(r, t)[i] <= t
             /\ w < Minute /\ i > Len(r) - u => Append(r, t)[i] + w >= t
             /\ i <= Len(r) - u => Append(r, t)[i] + w <= t
             /\ i <= Len(r) - u - Allowance => Append(r, t)[i] + w + Minute <= t
  <2>1. CASE i \in 1 .. Len(r)
    <3>1. /\ r[i] \in Nat /\ r[i] <= t
          /\ w < Minute /\ i > Len(r) - u => r[i] + w >= t
          /\ i <= Len(r) - u => r[i] + w <= t
          /\ i <= Len(r) - u - Allowance => r[i] + w + Minute <= t
      BY <1>1, <2>1, RateAt
    <3> QED
      BY <1>2, <2>1, <3>1
  <2>2. CASE i = Len(r) + 1
    <3>1. Append(r, t)[i] = t /\ ~(i <= Len(r) - u) /\ ~(i <= Len(r) - u - Allowance)
      BY <1>1, <1>2, <1>3, <2>2
    <3> QED
      BY <1>3, <3>1
  <2> QED
    BY <1>2, <2>1, <2>2
<1>5. /\ Window(u + 1) <= Len(Append(r, t)) /\ u + 1 \in Nat
      /\ Len(Append(r, t)) - Window(u + 1) = Len(r) - u
  BY <1>1, <1>2 DEF Rate
<1> QED
  BY <1>2, <1>3, <1>4, <1>5 DEF Rate

\* or in a new one.
LEMMA RateRenews ==
  ASSUME NEW r, NEW w, NEW u, NEW t, Rate(r, w, u, t), w >= Minute
  PROVE  Rate(Append(r, t), 0, 1, t)
<1>1. Window(1) = 1 /\ Window(u) \in 0 .. Allowance /\ w = Minute
  BY RelayAssumption DEF Rate, Window, RelayAssumption
<1>2. /\ Append(r, t) \in Seq(Nat) /\ Len(Append(r, t)) = Len(r) + 1 /\ Len(r) \in Nat
      /\ \A i \in 1 .. Len(r) : Append(r, t)[i] = r[i] /\ r[i] \in Nat
      /\ Append(r, t)[Len(r) + 1] = t
  BY AppendProperties, LenProperties, ElementOfSeq DEF Rate
<1>3. Allowance \in Nat \ {0} /\ Minute \in Nat /\ t \in Nat
  BY RelayAssumption DEF Rate, RelayAssumption
<1>4. ASSUME NEW i \in 1 .. Len(r) + 1
      PROVE  /\ Append(r, t)[i] <= t
             /\ i > Len(r) => Append(r, t)[i] + 0 >= t
             /\ i <= Len(r) - Allowance => Append(r, t)[i] + 0 + Minute <= t
  <2>1. CASE i \in 1 .. Len(r)
    <3>1. /\ Append(r, t)[i] = r[i] /\ r[i] \in Nat /\ r[i] <= t
          /\ i <= Len(r) - Window(u) - Allowance => r[i] + w + Minute <= t
          /\ i <= Len(r) - Window(u) => r[i] + w <= t
      BY <1>2, <2>1, RateAt
    <3>2. i <= Len(r) - Allowance => r[i] + Minute <= t
      BY <1>1, <1>2, <1>3, <2>1, <3>1
    <3> QED
      BY <1>2, <1>3, <2>1, <3>1, <3>2
  <2>2. CASE i = Len(r) + 1
    BY <1>1, <1>2, <1>3, <2>2
  <2> QED
    BY <1>2, <2>1, <2>2
<1> DEFINE q == Append(r, t)
<1>5. /\ q \in Seq(Nat) /\ 1 .. Len(q) = 1 .. Len(r) + 1 /\ Len(q) - Window(1) = Len(r)
      /\ Window(1) <= Len(q)
  BY <1>1, <1>2
<1>6. \A i \in 1 .. Len(q) :
        /\ q[i] <= t
        /\ i > Len(q) - Window(1) => q[i] + 0 >= t
        /\ i <= Len(q) - Window(1) => q[i] + 0 <= t
        /\ i <= Len(q) - Window(1) - Allowance => q[i] + 0 + Minute <= t
  <2>1. \A i \in 1 .. Len(q) : q[i] \in Nat
    BY <1>5, ElementOfSeq
  <2>2. \A i \in 1 .. Len(q) : q[i] <= t => q[i] + 0 <= t
    BY <1>3, <2>1
  <2> QED
    BY <1>4, <1>5, <2>2
<1> HIDE DEF q
<1>7. t \in Nat /\ 0 \in 0 .. Minute /\ 1 \in Nat
  BY <1>3
<1>8. Rate(q, 0, 1, t)
  BY <1>5, <1>6, <1>7 DEF Rate
<1> QED
  BY <1>8 DEF q

RateInv ==
  /\ ticks \in Nat
  /\ age \in [Askers -> Nat] /\ used \in [Askers -> Nat] /\ relays \in [Askers -> Seq(Nat)]
  /\ \A a \in Askers : Rate(relays[a], age[a], used[a], ticks)

LEMMA InitRate == Init => RateInv
BY RateStarts, EmptySeq DEF Init, RateInv

LEMMA ReadRate ==
  ASSUME RateInv, NEW a \in Askers, ReadSay(a)
  PROVE  RateInv'
<1>1. Rate(relays[a], age[a], used[a], ticks)
  BY DEF RateInv
<1>2. /\ ticks' = ticks
      /\ age' = [age EXCEPT ![a] = IF Renewed(a) THEN 0 ELSE @]
      /\ used' = [used EXCEPT ![a] = UsedNow(a)]
      /\ relays' = IF UsedNow(a) > Allowance THEN relays
                   ELSE [relays EXCEPT ![a] = Append(@, ticks)]
  BY DEF ReadSay, bounds
<1>3. Rate(relays'[a], age'[a], used'[a], ticks) /\ used'[a] \in Nat /\ age'[a] \in Nat
  <2>1. CASE Renewed(a)
    BY <1>1, <1>2, <2>1, RateRenews, RelayAssumption DEF RateInv, Renewed, UsedNow, RelayAssumption
  <2>2. CASE ~Renewed(a) /\ UsedNow(a) > Allowance
    BY <1>1, <1>2, <2>2, RateRefuses DEF RateInv, UsedNow
  <2>3. CASE ~Renewed(a) /\ ~(UsedNow(a) > Allowance)
    BY <1>1, <1>2, <2>3, RateRelays, RelayAssumption DEF RateInv, UsedNow, RelayAssumption
  <2> QED
    BY <2>1, <2>2, <2>3
<1>4. \A b \in Askers \ {a} : relays'[b] = relays[b] /\ age'[b] = age[b] /\ used'[b] = used[b]
  BY <1>2 DEF RateInv
<1>5. relays' \in [Askers -> Seq(Nat)] /\ age' \in [Askers -> Nat] /\ used' \in [Askers -> Nat]
  BY <1>2, <1>3 DEF RateInv, Rate
<1> QED
  BY <1>2, <1>3, <1>4, <1>5 DEF RateInv

LEMMA NextRate == RateInv /\ [Next]_vars => RateInv'
<1> SUFFICES ASSUME RateInv, [Next]_vars PROVE RateInv'
  OBVIOUS
<1>1. CASE UNCHANGED <<age, used, relays, ticks>>
  BY <1>1 DEF RateInv
<1>2. ASSUME NEW a \in Askers, Admit(a) PROVE RateInv'
  BY <1>2, RateStarts, EmptySeq DEF Admit, RateInv, bounds
<1>3. ASSUME NEW a \in Askers, ReadSay(a) PROVE RateInv'
  BY <1>3, ReadRate
<1>4. CASE Tick
  <2>1. ticks' = ticks + 1 /\ used' = used /\ relays' = relays
    BY <1>4 DEF Tick
  <2>2. age' \in [Askers -> Nat]
    BY <1>4 DEF Tick, RateInv
  <2> QED
    BY <1>4, <2>1, <2>2, RateTicks DEF Tick, RateInv
<1> QED
  BY <1>1, <1>2, <1>3, <1>4
     DEF Next, vars, saying, asking, bounds, Cut, NetworkCut, GatewayRestart, Reject, Connect,
         Notice, Count, SubscribeSays, GhostEnds, WriteSay, HearSay, RefuseSay, Speak, LeaveOrJoin,
         ReadReady, Say, SendSay, Publish, SendEvent, SendIntoVoid, Ingest

\* A connection relays at most twice its allowance within a minute, as two
\* fixed windows may meet in it (Hub::run_consumer, hub.rs:815-821).
THEOREM RateLimited == Spec => []RateKept
<1>1. RateInv => RateKept
  BY RateBounded DEF RateInv, RateKept, RelayedLately, Lately
<1> QED
  BY <1>1, InitRate, NextRate, PTL DEF Spec
-----------------------------------------------------------------------------
(* Says.  Those of one subscriber are in order along each logger's way:    *)
(* spoken, heard, falling, in the say channel, rising, in the outbox.      *)

\* A subscriber's end: r is written, o is to be; k says who asked for what.
Up(k, a, r, o) ==
  /\ r \in Seq(Nat) /\ o \in Seq(Nat)
  /\ OrderedBy(k, r) /\ OrderedBy(k, o) /\ Ahead(k, Range(r), Range(o))
  /\ \A x \in Range(r) \cup Range(o) : x \in DOMAIN k /\ k[x] = a

\* A logger's end: p is spoken, h heard, f falling, q in the channel.
Down(k, p, h, f, q) ==
  /\ p \in Seq(Nat) /\ h \in Seq(Nat) /\ f \in Seq(Nat) /\ q \in Seq(Nat)
  /\ OrderedBy(k, p) /\ OrderedBy(k, h) /\ OrderedBy(k, f) /\ OrderedBy(k, q)
  /\ Ahead(k, Range(p), Range(h) \cup Range(f) \cup Range(q))
  /\ Ahead(k, Range(h), Range(f) \cup Range(q))
  /\ Ahead(k, Range(f), Range(q))
  /\ Range(p) \cup Range(h) \cup Range(f) \cup Range(q) \subseteq DOMAIN k
  /\ Len(q) <= SayCap

UpHas(a) == Range(rising[a]) \cup Range(outbox[a])
DownHas(l) == Range(spoken[l]) \cup Range(heard[l]) \cup Range(falling[l]) \cup Range(sayq[l])

SaysInv ==
  /\ asked \in Nat /\ asker \in Seq(Askers) /\ Len(asker) = asked
  /\ outbox \in [Askers -> Seq(Nat)] /\ rising \in [Askers -> Seq(Nat)]
  /\ sayq \in [Loggers -> Seq(Nat)] /\ falling \in [Loggers -> Seq(Nat)]
  /\ heard \in [Loggers -> Seq(Nat)] /\ spoken \in [Loggers -> Seq(Nat)]
  /\ \A a \in Askers : Up(asker, a, rising[a], outbox[a])
  /\ \A l \in Loggers : Down(asker, spoken[l], heard[l], falling[l], sayq[l])
  /\ \A l \in Loggers, a \in Askers : Ahead(asker, DownHas(l), UpHas(a))
  /\ \A x \in 1 .. asked : \/ x \in excused
                           \/ \E a \in Askers : x \in UpHas(a)
                           \/ \E l \in Loggers : x \in DownHas(l)

\* A say is written,
LEMMA UpSends ==
  ASSUME NEW k, NEW a, NEW r, NEW o, Up(k, a, r, o), o # <<>>
  PROVE  /\ Up(k, a, Append(r, Head(o)), Tail(o))
         /\ Range(Append(r, Head(o))) \cup Range(Tail(o)) = Range(r) \cup Range(o)
<1>1. /\ Append(r, Head(o)) \in Seq(Nat) /\ Tail(o) \in Seq(Nat)
      /\ Range(Append(r, Head(o))) = Range(r) \cup {Head(o)}
      /\ Range(o) = {Head(o)} \cup Range(Tail(o))
      /\ OrderedBy(k, Append(r, Head(o))) /\ OrderedBy(k, Tail(o))
      /\ Ahead(k, Range(Append(r, Head(o))), Range(Tail(o)))
  BY OrderedMove DEF Up
<1> QED
  BY <1>1 DEF Up

\* or lost when it is written,
LEMMA UpLoses ==
  ASSUME NEW k, NEW a, NEW r, NEW o, Up(k, a, r, o), o # <<>>
  PROVE  /\ Up(k, a, r, Tail(o))
         /\ Range(o) = {Head(o)} \cup Range(Tail(o))
<1>1. /\ Tail(o) \in Seq(Nat) /\ OrderedBy(k, Tail(o))
      /\ Range(o) = {Head(o)} \cup Range(Tail(o))
  BY RangeHeadTail, OrderedTail DEF Up
<1>2. Ahead(k, Range(r), Range(Tail(o)))
  BY <1>1 DEF Up, Ahead
<1> QED
  BY <1>1, <1>2 DEF Up

\* and read by the gateway, ahead of those that the subscriber still has;
LEMMA UpReads ==
  ASSUME NEW k, NEW a, NEW r, NEW o, Up(k, a, r, o), r # <<>>
  PROVE  /\ Up(k, a, Tail(r), o)
         /\ Range(r) = {Head(r)} \cup Range(Tail(r))
         /\ Head(r) \in Nat /\ Head(r) \in DOMAIN k /\ k[Head(r)] = a
         /\ Ahead(k, {Head(r)}, Range(Tail(r)) \cup Range(o))
<1>1. /\ Tail(r) \in Seq(Nat) /\ OrderedBy(k, Tail(r)) /\ Head(r) \in Nat
      /\ Range(r) = {Head(r)} \cup Range(Tail(r))
      /\ Ahead(k, {Head(r)}, Range(Tail(r)))
  BY RangeHeadTail, OrderedTail DEF Up
<1>2. Ahead(k, Range(Tail(r)), Range(o)) /\ Ahead(k, {Head(r)}, Range(Tail(r)) \cup Range(o))
  BY <1>1 DEF Up, Ahead
<1> QED
  BY <1>1, <1>2 DEF Up

\* a cut takes what is written.
LEMMA UpCut ==
  ASSUME NEW k, NEW a, NEW r, NEW o, Up(k, a, r, o)
  PROVE  Up(k, a, <<>>, o)
<1>1. PICK e : e = <<>>
  OBVIOUS
<1>2. e \in Seq(Nat) /\ Range(e) = {} /\ OrderedBy(k, e)
  BY <1>1, RangeEmpty, OrderedEmpty, EmptySeq
<1>3. Ahead(k, Range(e), Range(o))
  BY <1>2 DEF Ahead
<1> QED
  BY <1>1, <1>2, <1>3 DEF Up

\* More says leave what was asked before as it is.
LEMMA SameKeys ==
  ASSUME NEW k, NEW m, DOMAIN k \subseteq DOMAIN m, \A x \in DOMAIN k : m[x] = k[x]
  PROVE  /\ \A a, r, o : Up(k, a, r, o) => Up(m, a, r, o)
         /\ \A p, h, f, q : Down(k, p, h, f, q) => Down(m, p, h, f, q)
         /\ \A S, T \in SUBSET DOMAIN k : Ahead(k, S, T) => Ahead(m, S, T)
<1>1. \A S, T \in SUBSET DOMAIN k : Ahead(k, S, T) => Ahead(m, S, T)
  BY DEF Ahead
<1>2. ASSUME NEW s \in Seq(Nat), Range(s) \subseteq DOMAIN k, OrderedBy(k, s)
      PROVE  OrderedBy(m, s)
  BY <1>2, OrderedSameKeys
<1>3. ASSUME NEW a, NEW r, NEW o, Up(k, a, r, o) PROVE Up(m, a, r, o)
  <2>1. Range(r) \in SUBSET DOMAIN k /\ Range(o) \in SUBSET DOMAIN k
    BY <1>3 DEF Up
  <2> QED
    BY <1>1, <1>2, <1>3, <2>1 DEF Up
<1>4. ASSUME NEW p, NEW h, NEW f, NEW q, Down(k, p, h, f, q) PROVE Down(m, p, h, f, q)
  <2>1. /\ Range(p) \in SUBSET DOMAIN k /\ Range(h) \in SUBSET DOMAIN k
        /\ Range(f) \in SUBSET DOMAIN k /\ Range(q) \in SUBSET DOMAIN k
    BY <1>4 DEF Down
  <2>2. /\ Range(h) \cup Range(f) \cup Range(q) \in SUBSET DOMAIN k
        /\ Range(f) \cup Range(q) \in SUBSET DOMAIN k
    BY <2>1
  <2> QED
    BY <1>1, <1>2, <1>4, <2>1, <2>2 DEF Down
<1> QED
  BY <1>1, <1>3, <1>4

\* A say is asked,
LEMMA UpAsks ==
  ASSUME NEW k \in Seq(Askers), NEW a \in Askers, NEW r, NEW o, Up(k, a, r, o)
  PROVE  Up(Append(k, a), a, r, Append(o, Len(k) + 1))
<1> DEFINE m == Append(k, a)
           n == Len(k) + 1
<1>1. /\ Len(m) = n /\ Len(k) \in Nat /\ n \in Nat
      /\ DOMAIN k = 1 .. Len(k) /\ DOMAIN m = 1 .. n
      /\ \A i \in 1 .. Len(k) : m[i] = k[i]
      /\ m[n] = a
  <2>1. /\ m \in Seq(Askers) /\ Len(m) = Len(k) + 1
        /\ \A i \in 1 .. Len(k) : m[i] = k[i]
        /\ m[Len(k) + 1] = a
    BY AppendProperties
  <2>2. Len(k) \in Nat /\ DOMAIN k = 1 .. Len(k) /\ DOMAIN m = 1 .. Len(m)
    BY <2>1, LenProperties
  <2> QED
    BY <2>1, <2>2
<1>2. Up(m, a, r, o)
  <2>1. DOMAIN k \subseteq DOMAIN m /\ \A x \in DOMAIN k : m[x] = k[x]
    BY <1>1
  <2> QED
    BY <2>1, SameKeys
<1>3. \A x \in Range(r) \cup Range(o) : x \in Nat /\ x < n
  BY <1>1 DEF Up
<1>4. /\ Append(o, n) \in Seq(Nat) /\ Range(Append(o, n)) = Range(o) \cup {n}
  BY <1>1, RangeAppend DEF Up
<1>5. Ahead(m, Range(o), {n}) /\ Ahead(m, Range(r), {n})
  BY <1>3 DEF Ahead
<1>6. OrderedBy(m, Append(o, n))
  BY <1>1, <1>2, <1>5, OrderedAppend DEF Up
<1>7. Ahead(m, Range(r), Range(Append(o, n)))
  BY <1>2, <1>4, <1>5 DEF Up, Ahead
<1>8. \A x \in Range(r) \cup Range(Append(o, n)) : x \in DOMAIN m /\ m[x] = a
  BY <1>1, <1>2, <1>4 DEF Up
<1> QED
  BY <1>2, <1>4, <1>6, <1>7, <1>8 DEF Up

\* A say that all before it are ahead of is offered to a channel, which drops
\* its oldest when it is full;
LEMMA DownOffers ==
  ASSUME NEW k, NEW p, NEW h, NEW f, NEW q, Down(k, p, h, f, q), NEW x \in Nat, x \in DOMAIN k,
         Ahead(k, Range(p) \cup Range(h) \cup Range(f) \cup Range(q), {x})
  PROVE  /\ Down(k, p, h, f, Offer(q, x))
         /\ x \in Range(Offer(q, x)) /\ Range(Offer(q, x)) \subseteq Range(q) \cup {x}
         /\ \A y \in Range(q) : y \in Range(Offer(q, x)) \/ (Len(q) = SayCap /\ y = Head(q))
<1>1. /\ q \in Seq(Nat) /\ Len(q) \in Nat /\ Len(q) <= SayCap /\ SayCap \in Nat \ {0}
  BY RelayAssumption, LenProperties DEF Down, RelayAssumption
<1>2. ASSUME NEW z \in Seq(Nat), OrderedBy(k, z), Range(z) \subseteq Range(q), Len(z) < SayCap
      PROVE  /\ Down(k, p, h, f, Append(z, x))
             /\ Range(Append(z, x)) = Range(z) \cup {x}
  <2>1. Append(z, x) \in Seq(Nat) /\ Range(Append(z, x)) = Range(z) \cup {x}
    BY <1>2, RangeAppend
  <2>2. Len(Append(z, x)) <= SayCap
    BY <1>1, <1>2, AppendProperties, LenProperties
  <2>3. OrderedBy(k, Append(z, x))
    <3>1. Ahead(k, Range(z), {x})
      BY <1>2 DEF Ahead
    <3> QED
      BY <1>2, <3>1, OrderedAppend
  <2>4. /\ Ahead(k, Range(p), Range(h) \cup Range(f) \cup Range(Append(z, x)))
        /\ Ahead(k, Range(h), Range(f) \cup Range(Append(z, x)))
        /\ Ahead(k, Range(f), Range(Append(z, x)))
    BY <1>2, <2>1 DEF Down, Ahead
  <2>5. Range(p) \cup Range(h) \cup Range(f) \cup Range(Append(z, x)) \subseteq DOMAIN k
    BY <1>2, <2>1 DEF Down
  <2> QED
    BY <2>1, <2>2, <2>3, <2>4, <2>5 DEF Down
<1>3. CASE Len(q) < SayCap
  <2>1. Offer(q, x) = Append(q, x) /\ OrderedBy(k, q)
    BY <1>3 DEF Offer, Down
  <2> QED
    BY <1>1, <1>2, <1>3, <2>1
<1>4. CASE ~(Len(q) < SayCap)
  <2>1. Len(q) = SayCap /\ q # <<>> /\ Offer(q, x) = Append(Tail(q), x)
    BY <1>1, <1>4, EmptySeq DEF Offer
  <2>2. /\ Tail(q) \in Seq(Nat) /\ Range(q) = {Head(q)} \cup Range(Tail(q))
        /\ OrderedBy(k, Tail(q))
    BY <1>1, <2>1, RangeHeadTail, OrderedTail DEF Down
  <2>3. Len(Tail(q)) < SayCap
    BY <1>1, <2>1, HeadTailProperties
  <2>4. /\ Down(k, p, h, f, Append(Tail(q), x))
        /\ Range(Append(Tail(q), x)) = Range(Tail(q)) \cup {x}
    BY <1>2, <2>2, <2>3
  <2> QED
    BY <2>1, <2>2, <2>4
<1> QED
  BY <1>3, <1>4

\* the say task writes one to the logger,
LEMMA DownWrites ==
  ASSUME NEW k, NEW p, NEW h, NEW f, NEW q, Down(k, p, h, f, q), q # <<>>
  PROVE  /\ Down(k, p, h, Append(f, Head(q)), Tail(q))
         /\ Range(Append(f, Head(q))) \cup Range(Tail(q)) = Range(f) \cup Range(q)
<1>1. /\ Append(f, Head(q)) \in Seq(Nat) /\ Tail(q) \in Seq(Nat)
      /\ Range(Append(f, Head(q))) = Range(f) \cup {Head(q)}
      /\ Range(q) = {Head(q)} \cup Range(Tail(q))
      /\ OrderedBy(k, Append(f, Head(q))) /\ OrderedBy(k, Tail(q))
      /\ Ahead(k, Range(Append(f, Head(q))), Range(Tail(q)))
  BY OrderedMove DEF Down
<1>2. Range(Append(f, Head(q))) \cup Range(Tail(q)) = Range(f) \cup Range(q)
  BY <1>1
<1>3. /\ Ahead(k, Range(p), Range(h) \cup Range(Append(f, Head(q))) \cup Range(Tail(q)))
      /\ Ahead(k, Range(h), Range(Append(f, Head(q))) \cup Range(Tail(q)))
  BY <1>1 DEF Down, Ahead
<1>4. Len(Tail(q)) <= SayCap
  BY RelayAssumption, HeadTailProperties, LenProperties DEF Down, RelayAssumption
<1>5. Range(p) \cup Range(h) \cup Range(Append(f, Head(q))) \cup Range(Tail(q)) \subseteq DOMAIN k
  BY <1>1 DEF Down
<1> QED
  BY <1>1, <1>2, <1>3, <1>4, <1>5 DEF Down

\* whose connection hears it,
LEMMA DownHears ==
  ASSUME NEW k, NEW p, NEW h, NEW f, NEW q, Down(k, p, h, f, q), f # <<>>
  PROVE  /\ Down(k, p, Append(h, Head(f)), Tail(f), q)
         /\ Range(Append(h, Head(f))) \cup Range(Tail(f)) = Range(h) \cup Range(f)
<1>1. Ahead(k, Range(h), Range(f))
  BY DEF Down, Ahead
<1>2. /\ Append(h, Head(f)) \in Seq(Nat) /\ Tail(f) \in Seq(Nat)
      /\ Range(Append(h, Head(f))) = Range(h) \cup {Head(f)}
      /\ Range(f) = {Head(f)} \cup Range(Tail(f))
      /\ OrderedBy(k, Append(h, Head(f))) /\ OrderedBy(k, Tail(f))
      /\ Ahead(k, Range(Append(h, Head(f))), Range(Tail(f)))
  BY <1>1, OrderedMove DEF Down
<1>3. Range(Append(h, Head(f))) \cup Range(Tail(f)) = Range(h) \cup Range(f)
  BY <1>2
<1>4. /\ Ahead(k, Range(p), Range(Append(h, Head(f))) \cup Range(Tail(f)) \cup Range(q))
      /\ Ahead(k, Range(Append(h, Head(f))), Range(Tail(f)) \cup Range(q))
      /\ Ahead(k, Range(Tail(f)), Range(q))
  BY <1>2 DEF Down, Ahead
<1>5. Range(p) \cup Range(Append(h, Head(f))) \cup Range(Tail(f)) \cup Range(q) \subseteq DOMAIN k
  BY <1>2 DEF Down
<1> QED
  BY <1>2, <1>3, <1>4, <1>5 DEF Down

\* and the bot speaks it
LEMMA DownSpeaks ==
  ASSUME NEW k, NEW p, NEW h, NEW f, NEW q, Down(k, p, h, f, q), h # <<>>
  PROVE  /\ Down(k, Append(p, Head(h)), Tail(h), f, q)
         /\ Range(Append(p, Head(h))) \cup Range(Tail(h)) = Range(p) \cup Range(h)
<1>1. Ahead(k, Range(p), Range(h))
  BY DEF Down, Ahead
<1>2. /\ Append(p, Head(h)) \in Seq(Nat) /\ Tail(h) \in Seq(Nat)
      /\ Range(Append(p, Head(h))) = Range(p) \cup {Head(h)}
      /\ Range(h) = {Head(h)} \cup Range(Tail(h))
      /\ OrderedBy(k, Append(p, Head(h))) /\ OrderedBy(k, Tail(h))
      /\ Ahead(k, Range(Append(p, Head(h))), Range(Tail(h)))
  BY <1>1, OrderedMove DEF Down
<1>3. Range(Append(p, Head(h))) \cup Range(Tail(h)) = Range(p) \cup Range(h)
  BY <1>2
<1>4. /\ Ahead(k, Range(Append(p, Head(h))), Range(Tail(h)) \cup Range(f) \cup Range(q))
      /\ Ahead(k, Range(Tail(h)), Range(f) \cup Range(q))
  BY <1>2 DEF Down, Ahead
<1>5. Range(Append(p, Head(h))) \cup Range(Tail(h)) \cup Range(f) \cup Range(q) \subseteq DOMAIN k
  BY <1>2 DEF Down
<1> QED
  BY <1>2, <1>3, <1>4, <1>5 DEF Down

\* or drops it.
LEMMA DownDrops ==
  ASSUME NEW k, NEW p, NEW h, NEW f, NEW q, Down(k, p, h, f, q), h # <<>>
  PROVE  /\ Down(k, p, Tail(h), f, q)
         /\ Range(h) = {Head(h)} \cup Range(Tail(h))
<1>1. /\ Tail(h) \in Seq(Nat) /\ OrderedBy(k, Tail(h))
      /\ Range(h) = {Head(h)} \cup Range(Tail(h))
  BY RangeHeadTail, OrderedTail DEF Down
<1>2. /\ Ahead(k, Range(p), Range(Tail(h)) \cup Range(f) \cup Range(q))
      /\ Ahead(k, Range(Tail(h)), Range(f) \cup Range(q))
  BY <1>1 DEF Down, Ahead
<1>3. Range(p) \cup Range(Tail(h)) \cup Range(f) \cup Range(q) \subseteq DOMAIN k
  BY <1>1 DEF Down
<1> QED
  BY <1>1, <1>2, <1>3 DEF Down

\* A cut takes the channel, and what is falling unless it can still arrive.
LEMMA DownCut ==
  ASSUME NEW k, NEW p, NEW h, NEW f, NEW q, Down(k, p, h, f, q)
  PROVE  Down(k, p, h, f, <<>>) /\ Down(k, p, h, <<>>, <<>>)
<1>1. PICK e : e = <<>>
  OBVIOUS
<1>2. /\ e \in Seq(Nat) /\ Range(e) = {} /\ OrderedBy(k, e) /\ Len(e) <= SayCap
  BY <1>1, RelayAssumption, RangeEmpty, OrderedEmpty, EmptySeq DEF RelayAssumption
<1>3. ASSUME NEW z \in Seq(Nat), OrderedBy(k, z), Range(z) \subseteq Range(f)
      PROVE  Down(k, p, h, z, e)
  <2>1. /\ Ahead(k, Range(p), Range(h) \cup Range(z) \cup Range(e))
        /\ Ahead(k, Range(h), Range(z) \cup Range(e))
        /\ Ahead(k, Range(z), Range(e))
    BY <1>2, <1>3 DEF Down, Ahead
  <2>2. Range(p) \cup Range(h) \cup Range(z) \cup Range(e) \subseteq DOMAIN k
    BY <1>2, <1>3 DEF Down
  <2> QED
    BY <1>2, <1>3, <2>1, <2>2 DEF Down
<1>4. f \in Seq(Nat) /\ OrderedBy(k, f)
  BY DEF Down
<1> QED
  BY <1>1, <1>2, <1>3, <1>4

LEMMA InitSays == Init => SaysInv
<1> SUFFICES ASSUME Init PROVE SaysInv
  OBVIOUS
<1>1. PICK e : e = <<>>
  OBVIOUS
<1>2. /\ e \in Seq(Nat) /\ e \in Seq(Askers) /\ Range(e) = {} /\ OrderedBy(e, e)
      /\ Len(e) = 0
  BY <1>1, RangeEmpty, OrderedEmpty, EmptySeq
<1>3. \A a : Up(e, a, e, e)
  BY <1>2 DEF Up, Ahead
<1>4. Down(e, e, e, e, e)
  BY <1>2, RelayAssumption DEF Down, Ahead, RelayAssumption
<1>5. /\ asker = e /\ asked = 0
      /\ outbox = [a \in Askers |-> e] /\ rising = [a \in Askers |-> e]
      /\ sayq = [l \in Loggers |-> e] /\ falling = [l \in Loggers |-> e]
      /\ heard = [l \in Loggers |-> e] /\ spoken = [l \in Loggers |-> e]
  BY <1>1 DEF Init
<1>6. \A l \in Loggers, a \in Askers : Ahead(asker, DownHas(l), UpHas(a))
  BY <1>2, <1>5 DEF DownHas, UpHas, Ahead
<1>7. 1 .. asked = {}
  BY <1>5
<1> QED
  BY <1>2, <1>3, <1>4, <1>5, <1>6, <1>7 DEF SaysInv

\* A step that asks nothing and brings nothing to any end, and excuses what an
\* end loses.
LEMMA SaysMove ==
  ASSUME SaysInv, UNCHANGED <<asked, asker>>, excused \subseteq excused',
         outbox' \in [Askers -> Seq(Nat)], rising' \in [Askers -> Seq(Nat)],
         sayq' \in [Loggers -> Seq(Nat)], falling' \in [Loggers -> Seq(Nat)],
         heard' \in [Loggers -> Seq(Nat)], spoken' \in [Loggers -> Seq(Nat)],
         \A a \in Askers : /\ Up(asker, a, rising'[a], outbox'[a])
                           /\ UpHas(a)' \subseteq UpHas(a)
                           /\ UpHas(a) \subseteq UpHas(a)' \cup excused',
         \A l \in Loggers : /\ Down(asker, spoken'[l], heard'[l], falling'[l], sayq'[l])
                            /\ DownHas(l)' \subseteq DownHas(l)
                            /\ DownHas(l) \subseteq DownHas(l)' \cup excused'
  PROVE  SaysInv'
<1>1. \A l \in Loggers, a \in Askers : Ahead(asker', DownHas(l)', UpHas(a)')
  BY DEF SaysInv, Ahead
<1>2. ASSUME NEW x \in 1 .. asked'
      PROVE  \/ x \in excused'
             \/ \E a \in Askers : x \in UpHas(a)'
             \/ \E l \in Loggers : x \in DownHas(l)'
  <2>1. \/ x \in excused
        \/ \E a \in Askers : x \in UpHas(a)
        \/ \E l \in Loggers : x \in DownHas(l)
    BY <1>2 DEF SaysInv
  <2> QED
    BY <2>1
<1> QED
  BY <1>1, <1>2 DEF SaysInv

LEMMA SaySays ==
  ASSUME SaysInv, NEW a \in Askers, Say(a)
  PROVE  SaysInv'
<1> DEFINE n == Len(asker) + 1
<1>1. /\ asker \in Seq(Askers) /\ Len(asker) \in Nat /\ n \in Nat /\ n \notin DOMAIN asker
      /\ asker' \in Seq(Askers) /\ Len(asker') = n
      /\ DOMAIN asker = 1 .. Len(asker) /\ DOMAIN asker' = 1 .. n
      /\ \A i \in DOMAIN asker : asker'[i] = asker[i]
      /\ asker'[n] = a
  <2>1. asker \in Seq(Askers) /\ asker' = Append(asker, a)
    BY DEF SaysInv, Say
  <2>2. /\ asker' \in Seq(Askers) /\ Len(asker') = Len(asker) + 1
        /\ \A i \in 1 .. Len(asker) : asker'[i] = asker[i]
        /\ asker'[Len(asker) + 1] = a
    BY <2>1, AppendProperties
  <2>3. /\ Len(asker) \in Nat /\ DOMAIN asker = 1 .. Len(asker)
        /\ DOMAIN asker' = 1 .. Len(asker')
    BY <2>1, <2>2, LenProperties
  <2> QED
    BY <2>1, <2>2, <2>3
<1>n. n \in Nat
  BY <1>1
<1>2. /\ asked = Len(asker) /\ asked' = n /\ asker' = Append(asker, a)
      /\ outbox' = [outbox EXCEPT ![a] = Append(@, n)]
      /\ rising' = rising /\ sayq' = sayq /\ falling' = falling /\ heard' = heard
      /\ spoken' = spoken /\ excused' = excused
  BY DEF SaysInv, Say, speaking
<1>3. /\ \A b, r, o : Up(asker, b, r, o) => Up(asker', b, r, o)
      /\ \A p, h, f, q : Down(asker, p, h, f, q) => Down(asker', p, h, f, q)
      /\ \A S, T \in SUBSET DOMAIN asker : Ahead(asker, S, T) => Ahead(asker', S, T)
  <2>1. DOMAIN asker \subseteq DOMAIN asker'
    BY <1>1
  <2> QED
    BY <1>1, <2>1, SameKeys
<1>4. /\ Up(asker', a, rising'[a], outbox'[a])
      /\ outbox'[a] \in Seq(Nat) /\ UpHas(a)' = UpHas(a) \cup {n}
  <2>1. outbox'[a] = Append(outbox[a], n) /\ outbox[a] \in Seq(Nat) /\ rising'[a] = rising[a]
    BY <1>2 DEF SaysInv
  <2>2. Up(asker', a, rising[a], Append(outbox[a], n))
    <3>1. Up(asker, a, rising[a], outbox[a])
      BY DEF SaysInv
    <3>2. Up(Append(asker, a), a, rising[a], Append(outbox[a], Len(asker) + 1))
      BY <1>1, <3>1, UpAsks
    <3> QED
      BY <1>2, <3>2
  <2>3. Append(outbox[a], n) \in Seq(Nat) /\ Range(Append(outbox[a], n)) = Range(outbox[a]) \cup {n}
    BY <2>1, RangeAppend, <1>n
  <2>4. Range(rising'[a]) \cup Range(outbox'[a]) = (Range(rising[a]) \cup Range(outbox[a])) \cup {n}
    BY <2>1, <2>3
  <2> QED
    BY <2>1, <2>2, <2>3, <2>4 DEF UpHas
<1>5. ASSUME NEW b \in Askers, b # a
      PROVE  Up(asker', b, rising'[b], outbox'[b]) /\ UpHas(b)' = UpHas(b)
  BY <1>2, <1>3, <1>5 DEF SaysInv, UpHas
<1>6. outbox' \in [Askers -> Seq(Nat)]
  BY <1>2, <1>4 DEF SaysInv
<1>7. ASSUME NEW l \in Loggers
      PROVE  /\ Down(asker', spoken'[l], heard'[l], falling'[l], sayq'[l])
             /\ DownHas(l)' = DownHas(l) /\ DownHas(l) \subseteq DOMAIN asker
  <2>1. Down(asker, spoken[l], heard[l], falling[l], sayq[l])
    BY DEF SaysInv
  <2>2. Down(asker', spoken'[l], heard'[l], falling'[l], sayq'[l]) /\ DownHas(l)' = DownHas(l)
    BY <1>2, <1>3, <2>1 DEF DownHas
  <2>3. DownHas(l) \subseteq DOMAIN asker
    BY <2>1 DEF Down, DownHas
  <2> QED
    BY <2>2, <2>3
<1>8. ASSUME NEW l \in Loggers, NEW b \in Askers
      PROVE  Ahead(asker', DownHas(l)', UpHas(b)')
  <2>1. UpHas(b) \subseteq DOMAIN asker
    BY DEF SaysInv, Up, UpHas
  <2>2. Ahead(asker', DownHas(l), UpHas(b))
    BY <1>3, <1>7, <2>1 DEF SaysInv
  <2>3. \A x \in DownHas(l) : x < n
    BY <1>1, <1>7
  <2> QED
    BY <1>4, <1>5, <1>7, <2>2, <2>3 DEF Ahead
<1>9. ASSUME NEW x \in 1 .. asked'
      PROVE  \/ x \in excused'
             \/ \E b \in Askers : x \in UpHas(b)'
             \/ \E l \in Loggers : x \in DownHas(l)'
  <2>1. x = n \/ x \in 1 .. asked
    BY <1>1, <1>2
  <2>2. CASE x = n
    BY <1>4, <2>2
  <2>3. CASE x \in 1 .. asked
    <3>1. \/ x \in excused
          \/ \E b \in Askers : x \in UpHas(b)
          \/ \E l \in Loggers : x \in DownHas(l)
      BY <2>3 DEF SaysInv
    <3> QED
      BY <1>2, <1>4, <1>5, <1>7, <3>1
  <2> QED
    BY <2>1, <2>2, <2>3
<1>10. \A b \in Askers : Up(asker', b, rising'[b], outbox'[b])
  BY <1>4, <1>5
<1>11. /\ asked' \in Nat /\ rising' \in [Askers -> Seq(Nat)]
       /\ sayq' \in [Loggers -> Seq(Nat)] /\ falling' \in [Loggers -> Seq(Nat)]
       /\ heard' \in [Loggers -> Seq(Nat)] /\ spoken' \in [Loggers -> Seq(Nat)]
  BY <1>1, <1>2 DEF SaysInv
<1> QED
  BY <1>1, <1>2, <1>6, <1>7, <1>8, <1>9, <1>10, <1>11 DEF SaysInv

LEMMA SendSays ==
  ASSUME SaysInv, NEW a \in Askers, SendSay(a)
  PROVE  SaysInv'
<1>1. /\ Up(asker, a, rising[a], outbox[a]) /\ outbox[a] # <<>>
      /\ outbox' = [outbox EXCEPT ![a] = Tail(@)]
      /\ sayq' = sayq /\ falling' = falling /\ heard' = heard /\ spoken' = spoken
      /\ asked' = asked /\ asker' = asker
  BY DEF SaysInv, SendSay, speaking
<1>2. /\ Up(asker, a, rising'[a], outbox'[a]) /\ excused \subseteq excused'
      /\ rising' \in [Askers -> Seq(Nat)]
      /\ \A b \in Askers \ {a} : rising'[b] = rising[b]
      /\ Range(rising'[a]) \cup Range(outbox'[a]) \subseteq Range(rising[a]) \cup Range(outbox[a])
      /\ Range(rising[a]) \cup Range(outbox[a])
           \subseteq Range(rising'[a]) \cup Range(outbox'[a]) \cup excused'
  <2>0. outbox'[a] = Tail(outbox[a])
    BY <1>1 DEF SaysInv
  <2>1. CASE link[a] = "up"
    <3>1. rising' = [rising EXCEPT ![a] = Append(@, Head(outbox[a]))] /\ excused' = excused
      BY <2>1 DEF SendSay
    <3>2. rising'[a] = Append(rising[a], Head(outbox[a])) /\ \A b \in Askers \ {a} : rising'[b] = rising[b]
      BY <3>1 DEF SaysInv
    <3>3. /\ Up(asker, a, Append(rising[a], Head(outbox[a])), Tail(outbox[a]))
          /\ Range(Append(rising[a], Head(outbox[a]))) \cup Range(Tail(outbox[a]))
               = Range(rising[a]) \cup Range(outbox[a])
      BY <1>1, UpSends
    <3>4. rising' \in [Askers -> Seq(Nat)]
      BY <3>1, <3>3 DEF SaysInv, Up
    <3> QED
      BY <2>0, <3>1, <3>2, <3>3, <3>4
  <2>2. CASE link[a] # "up"
    <3>1. rising' = rising /\ excused' = excused \cup {Head(outbox[a])}
      BY <2>2 DEF SendSay
    <3> QED
      BY <1>1, <2>0, <3>1, UpLoses DEF SaysInv
  <2> QED
    BY <2>1, <2>2
<1>3. outbox' \in [Askers -> Seq(Nat)] /\ \A b \in Askers \ {a} : outbox'[b] = outbox[b]
  BY <1>1, <1>2 DEF SaysInv, Up
<1>4. \A b \in Askers : /\ Up(asker, b, rising'[b], outbox'[b])
                        /\ UpHas(b)' \subseteq UpHas(b)
                        /\ UpHas(b) \subseteq UpHas(b)' \cup excused'
  BY <1>2, <1>3 DEF SaysInv, UpHas
<1>5. \A l \in Loggers : /\ Down(asker, spoken'[l], heard'[l], falling'[l], sayq'[l])
                         /\ DownHas(l)' = DownHas(l)
  BY <1>1 DEF SaysInv, DownHas
<1>6. /\ sayq' \in [Loggers -> Seq(Nat)] /\ falling' \in [Loggers -> Seq(Nat)]
      /\ heard' \in [Loggers -> Seq(Nat)] /\ spoken' \in [Loggers -> Seq(Nat)]
  BY <1>1 DEF SaysInv
<1> QED
  BY <1>1, <1>2, <1>3, <1>4, <1>5, <1>6, SaysMove

\* A step of one logger's end.
LEMMA LoggerMove ==
  ASSUME SaysInv, NEW l \in Loggers, UNCHANGED <<asked, asker, outbox, rising>>,
         excused \subseteq excused',
         sayq' \in [Loggers -> Seq(Nat)], falling' \in [Loggers -> Seq(Nat)],
         heard' \in [Loggers -> Seq(Nat)], spoken' \in [Loggers -> Seq(Nat)],
         \A m \in Loggers \ {l} : /\ sayq'[m] = sayq[m] /\ falling'[m] = falling[m]
                                  /\ heard'[m] = heard[m] /\ spoken'[m] = spoken[m],
         Down(asker, spoken'[l], heard'[l], falling'[l], sayq'[l]),
         DownHas(l)' \subseteq DownHas(l), DownHas(l) \subseteq DownHas(l)' \cup excused'
  PROVE  SaysInv'
<1>1. \A m \in Loggers : /\ Down(asker, spoken'[m], heard'[m], falling'[m], sayq'[m])
                         /\ DownHas(m)' \subseteq DownHas(m)
                         /\ DownHas(m) \subseteq DownHas(m)' \cup excused'
  <2>1. ASSUME NEW m \in Loggers, m # l
        PROVE  Down(asker, spoken'[m], heard'[m], falling'[m], sayq'[m]) /\ DownHas(m)' = DownHas(m)
    <3>1. Down(asker, spoken[m], heard[m], falling[m], sayq[m])
      BY DEF SaysInv
    <3> QED
      BY <2>1, <3>1 DEF DownHas
  <2> QED
    BY <2>1
<1>2. \A a \in Askers : /\ Up(asker, a, rising'[a], outbox'[a])
                        /\ UpHas(a)' = UpHas(a)
  BY DEF SaysInv, UpHas
<1>3. outbox' \in [Askers -> Seq(Nat)] /\ rising' \in [Askers -> Seq(Nat)]
  BY DEF SaysInv
<1> QED
  BY <1>1, <1>2, <1>3, SaysMove

LEMMA WriteSays ==
  ASSUME SaysInv, NEW l \in Loggers, WriteSay(l)
  PROVE  SaysInv'
<1>1. /\ Down(asker, spoken[l], heard[l], falling[l], sayq[l]) /\ sayq[l] # <<>>
      /\ falling' = [falling EXCEPT ![l] = Append(@, Head(sayq[l]))]
      /\ sayq' = [sayq EXCEPT ![l] = Tail(@)]
      /\ UNCHANGED <<asked, asker, outbox, rising, heard, spoken, excused>>
  BY DEF SaysInv, WriteSay, asking
<1>2. /\ falling'[l] = Append(falling[l], Head(sayq[l])) /\ sayq'[l] = Tail(sayq[l])
      /\ \A m \in Loggers \ {l} : falling'[m] = falling[m] /\ sayq'[m] = sayq[m]
      /\ heard' = heard /\ spoken' = spoken
  BY <1>1 DEF SaysInv
<1>3. /\ Down(asker, spoken'[l], heard'[l], falling'[l], sayq'[l])
      /\ Range(falling'[l]) \cup Range(sayq'[l]) = Range(falling[l]) \cup Range(sayq[l])
  BY <1>1, <1>2, DownWrites
<1>4. DownHas(l)' = DownHas(l)
  BY <1>2, <1>3 DEF DownHas
<1>5. /\ sayq' \in [Loggers -> Seq(Nat)] /\ falling' \in [Loggers -> Seq(Nat)]
      /\ heard' \in [Loggers -> Seq(Nat)] /\ spoken' \in [Loggers -> Seq(Nat)]
  BY <1>1, <1>2, <1>3 DEF SaysInv, Down
<1> QED
  BY <1>1, <1>2, <1>3, <1>4, <1>5, LoggerMove

LEMMA HearSays ==
  ASSUME SaysInv, NEW l \in Loggers, HearSay(l)
  PROVE  SaysInv'
<1>1. /\ Down(asker, spoken[l], heard[l], falling[l], sayq[l]) /\ falling[l] # <<>>
      /\ heard' = [heard EXCEPT ![l] = Append(@, Head(falling[l]))]
      /\ falling' = [falling EXCEPT ![l] = Tail(@)]
      /\ UNCHANGED <<asked, asker, outbox, rising, sayq, spoken, excused>>
  BY DEF SaysInv, HearSay, asking
<1>2. /\ heard'[l] = Append(heard[l], Head(falling[l])) /\ falling'[l] = Tail(falling[l])
      /\ \A m \in Loggers \ {l} : falling'[m] = falling[m] /\ heard'[m] = heard[m]
      /\ sayq' = sayq /\ spoken' = spoken
  BY <1>1 DEF SaysInv
<1>3. /\ Down(asker, spoken'[l], heard'[l], falling'[l], sayq'[l])
      /\ Range(heard'[l]) \cup Range(falling'[l]) = Range(heard[l]) \cup Range(falling[l])
  BY <1>1, <1>2, DownHears
<1>4. DownHas(l)' = DownHas(l)
  BY <1>2, <1>3 DEF DownHas
<1>5. /\ sayq' \in [Loggers -> Seq(Nat)] /\ falling' \in [Loggers -> Seq(Nat)]
      /\ heard' \in [Loggers -> Seq(Nat)] /\ spoken' \in [Loggers -> Seq(Nat)]
  BY <1>1, <1>2, <1>3 DEF SaysInv, Down
<1> QED
  BY <1>1, <1>2, <1>3, <1>4, <1>5, LoggerMove

\* The line is refused, or outside the game.
LEMMA DropSays ==
  ASSUME SaysInv, NEW l \in Loggers, heard[l] # <<>>,
         heard' = [heard EXCEPT ![l] = Tail(@)], excused' = excused \cup {Head(heard[l])},
         UNCHANGED <<asked, asker, outbox, rising, sayq, falling, spoken>>
  PROVE  SaysInv'
<1>1. Down(asker, spoken[l], heard[l], falling[l], sayq[l]) /\ heard[l] # <<>>
  BY DEF SaysInv
<1>2. /\ heard'[l] = Tail(heard[l]) /\ \A m \in Loggers \ {l} : heard'[m] = heard[m]
      /\ sayq' = sayq /\ falling' = falling /\ spoken' = spoken
  BY DEF SaysInv
<1>3. /\ Down(asker, spoken'[l], heard'[l], falling'[l], sayq'[l])
      /\ Range(heard[l]) = {Head(heard[l])} \cup Range(heard'[l])
  <2>1. /\ Down(asker, spoken[l], Tail(heard[l]), falling[l], sayq[l])
        /\ Range(heard[l]) = {Head(heard[l])} \cup Range(Tail(heard[l]))
    BY <1>1, DownDrops
  <2> QED
    BY <1>2, <2>1
<1>4. DownHas(l)' \subseteq DownHas(l) /\ DownHas(l) \subseteq DownHas(l)' \cup excused'
  BY <1>2, <1>3 DEF DownHas
<1>5. /\ sayq' \in [Loggers -> Seq(Nat)] /\ falling' \in [Loggers -> Seq(Nat)]
      /\ heard' \in [Loggers -> Seq(Nat)] /\ spoken' \in [Loggers -> Seq(Nat)]
  BY <1>2, <1>3 DEF SaysInv, Down
<1> QED
  BY <1>2, <1>3, <1>4, <1>5, LoggerMove

LEMMA SpeakSays ==
  ASSUME SaysInv, NEW l \in Loggers, Speak(l)
  PROVE  SaysInv'
<1>1. /\ heard[l] # <<>> /\ heard' = [heard EXCEPT ![l] = Tail(@)]
      /\ UNCHANGED <<asked, asker, outbox, rising, sayq, falling>>
  BY DEF Speak, asking
<1>2. CASE ~inGame[l]
  BY <1>1, <1>2, DropSays DEF Speak
<1>3. CASE inGame[l]
  <2>1. /\ Down(asker, spoken[l], heard[l], falling[l], sayq[l])
        /\ spoken' = [spoken EXCEPT ![l] = Append(@, Head(heard[l]))] /\ excused' = excused
    BY <1>3 DEF SaysInv, Speak
  <2>2. /\ spoken'[l] = Append(spoken[l], Head(heard[l])) /\ heard'[l] = Tail(heard[l])
        /\ \A m \in Loggers \ {l} : spoken'[m] = spoken[m] /\ heard'[m] = heard[m]
        /\ sayq' = sayq /\ falling' = falling
    BY <1>1, <2>1 DEF SaysInv
  <2>3. /\ Down(asker, spoken'[l], heard'[l], falling'[l], sayq'[l])
        /\ Range(spoken'[l]) \cup Range(heard'[l]) = Range(spoken[l]) \cup Range(heard[l])
    BY <1>1, <2>1, <2>2, DownSpeaks
  <2>4. DownHas(l)' = DownHas(l)
    BY <2>2, <2>3 DEF DownHas
  <2>5. /\ sayq' \in [Loggers -> Seq(Nat)] /\ falling' \in [Loggers -> Seq(Nat)]
        /\ heard' \in [Loggers -> Seq(Nat)] /\ spoken' \in [Loggers -> Seq(Nat)]
    BY <1>1, <2>1, <2>2, <2>3 DEF SaysInv, Down
  <2> QED
    BY <1>1, <2>1, <2>2, <2>3, <2>4, <2>5, LoggerMove
<1> QED
  BY <1>2, <1>3

\* A cut excuses what it takes from both kinds of ends.
LEMMA CutsSays ==
  ASSUME SaysInv, NEW S, NEW arrives \in BOOLEAN, Cut(S, arrives)
  PROVE  SaysInv'
<1>1. /\ UNCHANGED <<asked, asker, outbox, heard, spoken>>
      /\ excused' = excused \cup LostWith(S, arrives)
      /\ sayq' = [l \in Loggers |-> IF l \in S \cap Loggers THEN <<>> ELSE sayq[l]]
      /\ falling' = [l \in Loggers |-> IF l \in S \cap Loggers /\ ~arrives THEN <<>> ELSE falling[l]]
      /\ rising' = [a \in Askers |-> IF a \in S \cap Askers THEN <<>> ELSE rising[a]]
  BY DEF Cut, CutLoggers, CutAskers
<1>2. /\ \A l \in S \cap Loggers : /\ Range(sayq[l]) \subseteq excused'
                                   /\ ~arrives => Range(falling[l]) \subseteq excused'
      /\ \A a \in S \cap Askers : Range(rising[a]) \subseteq excused'
  <2>1. ASSUME NEW l \in S \cap Loggers, NEW x,
               x \in Range(sayq[l]) \/ (~arrives /\ x \in Range(falling[l]))
        PROVE  x \in LostWith(S, arrives)
    <3>1. x \in ToSet(sayq[l]) \cup (IF arrives THEN {} ELSE ToSet(falling[l]))
      BY <2>1, ToSetIsRange
    <3> QED
      BY <3>1 DEF LostWith
  <2>2. ASSUME NEW a \in S \cap Askers, NEW x \in Range(rising[a])
        PROVE  x \in LostWith(S, arrives)
    <3>1. ToSet(rising[a]) \in {ToSet(rising[b]) : b \in S \cap Askers}
      OBVIOUS
    <3>2. x \in UNION {ToSet(rising[b]) : b \in S \cap Askers}
      BY <3>1, ToSetIsRange
    <3> QED
      BY <3>2 DEF LostWith
  <2> QED
    BY <1>1, <2>1, <2>2
<1>3. ASSUME NEW l \in Loggers
      PROVE  /\ Down(asker, spoken'[l], heard'[l], falling'[l], sayq'[l])
             /\ DownHas(l)' \subseteq DownHas(l)
             /\ DownHas(l) \subseteq DownHas(l)' \cup excused'
             /\ sayq'[l] \in Seq(Nat) /\ falling'[l] \in Seq(Nat)
  <2>1. /\ Down(asker, spoken[l], heard[l], falling[l], sayq[l])
        /\ spoken' = spoken /\ heard' = heard
        /\ sayq'[l] = IF l \in S THEN <<>> ELSE sayq[l]
        /\ falling'[l] = IF l \in S /\ ~arrives THEN <<>> ELSE falling[l]
    BY <1>1 DEF SaysInv
  <2>2. Down(asker, spoken'[l], heard'[l], falling'[l], sayq'[l])
    BY <2>1, DownCut
  <2>3. Range(<<>>) = {}
    BY RangeEmpty
  <2>4. DownHas(l)' = Range(spoken[l]) \cup Range(heard[l]) \cup Range(falling'[l]) \cup Range(sayq'[l])
    BY <2>1 DEF DownHas
  <2>5. /\ Range(sayq'[l]) \subseteq Range(sayq[l])
        /\ Range(falling'[l]) \subseteq Range(falling[l])
        /\ Range(sayq[l]) \subseteq Range(sayq'[l]) \cup excused'
        /\ Range(falling[l]) \subseteq Range(falling'[l]) \cup excused'
    BY <1>2, <2>1, <2>3
  <2>6. DownHas(l)' \subseteq DownHas(l) /\ DownHas(l) \subseteq DownHas(l)' \cup excused'
    BY <2>4, <2>5 DEF DownHas
  <2> QED
    BY <2>2, <2>6 DEF Down
<1>4. ASSUME NEW a \in Askers
      PROVE  /\ Up(asker, a, rising'[a], outbox'[a])
             /\ UpHas(a)' \subseteq UpHas(a)
             /\ UpHas(a) \subseteq UpHas(a)' \cup excused'
             /\ rising'[a] \in Seq(Nat)
  <2>1. /\ Up(asker, a, rising[a], outbox[a]) /\ outbox' = outbox
        /\ rising'[a] = IF a \in S THEN <<>> ELSE rising[a]
    BY <1>1 DEF SaysInv
  <2>2. Up(asker, a, rising'[a], outbox'[a])
    BY <2>1, UpCut
  <2>3. Range(<<>>) = {}
    BY RangeEmpty
  <2>4. /\ Range(rising'[a]) \subseteq Range(rising[a])
        /\ Range(rising[a]) \subseteq Range(rising'[a]) \cup excused'
    BY <1>2, <2>1, <2>3
  <2>5. UpHas(a)' \subseteq UpHas(a) /\ UpHas(a) \subseteq UpHas(a)' \cup excused'
    BY <2>1, <2>4 DEF UpHas
  <2> QED
    BY <2>2, <2>5 DEF Up
<1>5. /\ sayq' \in [Loggers -> Seq(Nat)] /\ falling' \in [Loggers -> Seq(Nat)]
      /\ rising' \in [Askers -> Seq(Nat)]
  <2>1. /\ DOMAIN sayq' = Loggers /\ DOMAIN falling' = Loggers /\ DOMAIN rising' = Askers
    BY <1>1
  <2> QED
    BY <1>1, <1>3, <1>4, <2>1
<1>6. /\ outbox' \in [Askers -> Seq(Nat)]
      /\ heard' \in [Loggers -> Seq(Nat)] /\ spoken' \in [Loggers -> Seq(Nat)]
  BY <1>1 DEF SaysInv
<1> QED
  BY <1>1, <1>3, <1>4, <1>5, <1>6, SaysMove

\* A line that is read is relayed, or the allowance was used within a minute.
LEMMA ReadSays ==
  ASSUME SaysInv, RateInv, NEW a \in Askers, ReadSay(a)
  PROVE  SaysInv'
<1> DEFINE s == Head(rising[a])
<1>1. /\ rising[a] # <<>> /\ rising' = [rising EXCEPT ![a] = Tail(@)]
      /\ UNCHANGED <<asked, asker, outbox, falling, heard, spoken>>
  BY DEF ReadSay
<1>2. /\ rising'[a] = Tail(rising[a])
      /\ \A b \in Askers \ {a} : rising'[b] = rising[b]
      /\ rising \in [Askers -> Seq(Nat)]
  BY <1>1 DEF SaysInv
<1>3. /\ Up(asker, a, rising'[a], outbox[a])
      /\ Range(rising[a]) = {s} \cup Range(rising'[a])
      /\ s \in Nat /\ s \in DOMAIN asker /\ asker[s] = a
      /\ Ahead(asker, {s}, Range(rising'[a]) \cup Range(outbox[a]))
  <2>1. Up(asker, a, rising[a], outbox[a])
    BY DEF SaysInv
  <2>2. /\ Up(asker, a, Tail(rising[a]), outbox[a])
        /\ Range(rising[a]) = {s} \cup Range(Tail(rising[a]))
        /\ s \in Nat /\ s \in DOMAIN asker /\ asker[s] = a
        /\ Ahead(asker, {s}, Range(Tail(rising[a])) \cup Range(outbox[a]))
    BY <1>1, <2>1, UpReads
  <2> QED
    BY <1>2, <2>2
<1>4. /\ UpHas(a) = {s} \cup UpHas(a)'
      /\ \A b \in Askers \ {a} : UpHas(b)' = UpHas(b)
  BY <1>1, <1>2, <1>3 DEF UpHas
<1>5. \A b \in Askers : Up(asker, b, rising'[b], outbox'[b])
  BY <1>1, <1>2, <1>3 DEF SaysInv
<1>6. /\ rising' \in [Askers -> Seq(Nat)] /\ outbox' \in [Askers -> Seq(Nat)]
      /\ falling' \in [Loggers -> Seq(Nat)] /\ heard' \in [Loggers -> Seq(Nat)]
      /\ spoken' \in [Loggers -> Seq(Nat)]
  BY <1>1, <1>3 DEF SaysInv, Up
<1>7. CASE UsedNow(a) > Allowance
  <2>1. RelayedLately(a) >= Allowance
    <3>1. Rate(relays[a], age[a], used[a], ticks) /\ age[a] \in Nat /\ used[a] \in Nat
      BY DEF RateInv
    <3>2. age[a] < Minute /\ used[a] >= Allowance
      BY <1>7, <3>1, RelayAssumption DEF UsedNow, Renewed, RelayAssumption
    <3> QED
      BY <3>1, <3>2, RateBounded DEF RelayedLately, Lately
  <2>2. sayq' = sayq /\ excused' = excused \cup {s}
    BY <1>7, <2>1 DEF ReadSay
  <2>3. \A l \in Loggers : /\ Down(asker, spoken'[l], heard'[l], falling'[l], sayq'[l])
                           /\ DownHas(l)' = DownHas(l)
    BY <1>1, <2>2 DEF SaysInv, DownHas
  <2>4. \A b \in Askers : UpHas(b)' \subseteq UpHas(b) /\ UpHas(b) \subseteq UpHas(b)' \cup excused'
    BY <1>4, <2>2
  <2>5. sayq' \in [Loggers -> Seq(Nat)]
    BY <2>2 DEF SaysInv
  <2> QED
    BY <1>1, <1>5, <1>6, <2>2, <2>3, <2>4, <2>5, SaysMove
<1>8. CASE ~(UsedNow(a) > Allowance)
  <2>1. /\ RelaySay(s)
        /\ excused' = excused
             \cup (IF Subscribed = {} THEN {s} ELSE {})
             \cup {Head(sayq[l]) : l \in {k \in Subscribed : Len(sayq[k]) = SayCap}}
    BY <1>8 DEF ReadSay
  <2>2. /\ excused \subseteq excused'
        /\ Subscribed = {} => s \in excused'
        /\ \A l \in Subscribed : Len(sayq[l]) = SayCap => Head(sayq[l]) \in excused'
    BY <2>1
  <2>3. \A l \in Loggers : sayq'[l] = IF l \in Subscribed THEN Offer(sayq[l], s) ELSE sayq[l]
    <3>1. Subscribed \subseteq CountedLoggers
      BY DEF Subscribed, CountedLoggers
    <3> QED
      BY <2>1, <3>1 DEF RelaySay
  <2>4. ASSUME NEW l \in Loggers
        PROVE  /\ Down(asker, spoken'[l], heard'[l], falling'[l], sayq'[l])
               /\ DownHas(l)' \subseteq DownHas(l) \cup {s}
               /\ DownHas(l) \subseteq DownHas(l)' \cup excused'
               /\ l \in Subscribed => s \in DownHas(l)'
    <3>1. /\ Down(asker, spoken[l], heard[l], falling[l], sayq[l])
          /\ Ahead(asker, DownHas(l), UpHas(a))
      BY DEF SaysInv
    <3>2. Ahead(asker, Range(spoken[l]) \cup Range(heard[l]) \cup Range(falling[l]) \cup Range(sayq[l]), {s})
      BY <1>4, <3>1 DEF Ahead, DownHas
    <3>n. s \in Nat /\ s \in DOMAIN asker
      BY <1>3
    <3>3. /\ Down(asker, spoken[l], heard[l], falling[l], Offer(sayq[l], s))
          /\ s \in Range(Offer(sayq[l], s)) /\ Range(Offer(sayq[l], s)) \subseteq Range(sayq[l]) \cup {s}
          /\ \A y \in Range(sayq[l]) : \/ y \in Range(Offer(sayq[l], s))
                                       \/ Len(sayq[l]) = SayCap /\ y = Head(sayq[l])
      <4> DEFINE p == spoken[l]
                 h == heard[l]
                 f == falling[l]
                 q == sayq[l]
      <4>1. /\ Down(asker, p, h, f, q) /\ s \in Nat /\ s \in DOMAIN asker
            /\ Ahead(asker, Range(p) \cup Range(h) \cup Range(f) \cup Range(q), {s})
        BY <3>n, <3>1, <3>2
      <4> HIDE DEF s, p, h, f, q
      <4>2. /\ Down(asker, p, h, f, Offer(q, s))
            /\ s \in Range(Offer(q, s)) /\ Range(Offer(q, s)) \subseteq Range(q) \cup {s}
            /\ \A y \in Range(q) : y \in Range(Offer(q, s)) \/ (Len(q) = SayCap /\ y = Head(q))
        BY <4>1, DownOffers
      <4> QED
        BY <4>2 DEF p, h, f, q
    <3>4. /\ Range(sayq'[l]) \subseteq Range(sayq[l]) \cup {s}
          /\ Range(sayq[l]) \subseteq Range(sayq'[l]) \cup excused'
          /\ l \in Subscribed => s \in Range(sayq'[l])
      BY <2>2, <2>3, <3>3
    <3>5. Down(asker, spoken'[l], heard'[l], falling'[l], sayq'[l])
      BY <1>1, <2>3, <3>1, <3>3
    <3>6. DownHas(l)' = Range(spoken[l]) \cup Range(heard[l]) \cup Range(falling[l]) \cup Range(sayq'[l])
      BY <1>1 DEF DownHas
    <3> QED
      BY <3>4, <3>5, <3>6 DEF DownHas
  <2>5. sayq' \in [Loggers -> Seq(Nat)]
    <3>1. sayq' = [l \in Loggers |-> sayq'[l]]
      BY <2>1 DEF RelaySay, SaysInv
    <3>2. \A l \in Loggers : sayq'[l] \in Seq(Nat)
      BY <2>4 DEF Down
    <3> QED
      BY <3>1, <3>2
  <2>6. ASSUME NEW l \in Loggers, NEW b \in Askers
        PROVE  Ahead(asker', DownHas(l)', UpHas(b)')
    <3>1. Ahead(asker, DownHas(l), UpHas(b))
      BY DEF SaysInv
    <3>2. Ahead(asker, DownHas(l), UpHas(b)')
      BY <1>4, <3>1 DEF Ahead
    <3>3. Ahead(asker, {s}, UpHas(b)')
      <4>1. CASE b = a
        BY <1>1, <1>3, <4>1 DEF UpHas
      <4>2. CASE b # a
        <5>1. \A y \in UpHas(b)' : asker[y] = b
          BY <1>5, <1>1 DEF Up, UpHas
        <5> QED
          BY <1>3, <4>2, <5>1 DEF Ahead
      <4> QED
        BY <4>1, <4>2
    <3> QED
      BY <1>1, <2>4, <3>2, <3>3 DEF Ahead
  <2>7. ASSUME NEW x \in 1 .. asked'
        PROVE  \/ x \in excused'
               \/ \E b \in Askers : x \in UpHas(b)'
               \/ \E l \in Loggers : x \in DownHas(l)'
    <3>1. \/ x \in excused
          \/ \E b \in Askers : x \in UpHas(b)
          \/ \E l \in Loggers : x \in DownHas(l)
      BY <1>1 DEF SaysInv
    <3>2. CASE x = s
      <4>1. Subscribed = {} \/ \E l \in Loggers : l \in Subscribed
        BY DEF Subscribed
      <4> QED
        BY <2>2, <2>4, <3>2, <4>1
    <3>3. CASE x # s
      BY <1>4, <2>2, <2>4, <3>1, <3>3
    <3> QED
      BY <3>2, <3>3
  <2>8. asked' \in Nat /\ asker' \in Seq(Askers) /\ Len(asker') = asked' /\ asker' = asker
    BY <1>1 DEF SaysInv
  <2> QED
    BY <1>5, <1>6, <2>4, <2>5, <2>6, <2>7, <2>8 DEF SaysInv
<1> QED
  BY <1>7, <1>8

LEMMA NextSays == SaysInv /\ RateInv /\ [Next]_vars => SaysInv'
<1> SUFFICES ASSUME SaysInv, RateInv, [Next]_vars PROVE SaysInv'
  OBVIOUS
<1>1. CASE UNCHANGED <<outbox, rising, sayq, falling, heard, spoken, asked, asker, excused>>
  BY <1>1 DEF SaysInv, UpHas, DownHas
<1>2. ASSUME NEW S, NEW arrives \in BOOLEAN, Cut(S, arrives) PROVE SaysInv'
  BY <1>2, CutsSays
<1>3. ASSUME NEW a \in Askers, Say(a) PROVE SaysInv'
  BY <1>3, SaySays
<1>4. ASSUME NEW a \in Askers, SendSay(a) PROVE SaysInv'
  BY <1>4, SendSays
<1>5. ASSUME NEW a \in Askers, ReadSay(a) PROVE SaysInv'
  BY <1>5, ReadSays
<1>6. ASSUME NEW l \in Loggers, WriteSay(l) PROVE SaysInv'
  BY <1>6, WriteSays
<1>7. ASSUME NEW l \in Loggers, HearSay(l) PROVE SaysInv'
  BY <1>7, HearSays
<1>8. ASSUME NEW l \in Loggers, RefuseSay(l) PROVE SaysInv'
  BY <1>8, DropSays DEF RefuseSay, asking
<1>9. ASSUME NEW l \in Loggers, Speak(l) PROVE SaysInv'
  BY <1>9, SpeakSays
<1> QED
  BY <1>1, <1>2, <1>3, <1>4, <1>5, <1>6, <1>7, <1>8, <1>9
     DEF Next, vars, saying, asking, speaking, NetworkCut, GatewayRestart, Reject, Connect, Notice,
         Count, SubscribeSays, GhostEnds, LeaveOrJoin, Admit, ReadReady, Tick, Publish, SendEvent,
         SendIntoVoid, Ingest

\* A say that was asked is spoken, on its way, or was lost where the code can
\* lose it; and a logger speaks one subscriber's says in order, and none twice
\* (Hub::relay_say, run_consumer and run_producer of hub.rs and lib.rs,
\* relay_discord_says).
THEOREM SaysOnTheWay == Spec => []SaysKept
<1>1. SaysInv => SaysAccounted
  BY ToSetIsRange DEF SaysInv, SaysAccounted, InFlight, Says, UpHas, DownHas
<1>2. SaysInv => SpokenInOrder
  BY DEF SaysInv, SpokenInOrder, Down, OrderedBy
<1>3. SaysInv => SaysKept
  BY <1>1, <1>2 DEF SaysKept
<1>4. Init => SaysInv /\ RateInv
  BY InitSays, InitRate
<1>5. (SaysInv /\ RateInv) /\ [Next]_vars => (SaysInv /\ RateInv)'
  BY NextSays, NextRate
<1> QED
  BY <1>3, <1>4, <1>5, PTL DEF Spec
=============================================================================
