--------------------------- MODULE SessionsProofs ----------------------------
(***************************************************************************)
(* Proofs of SessionsAccounted and LeftoversAccounted, for any loggers on  *)
(* one database and any bounds.                                            *)
(*                                                                         *)
(* The properties speak of a logger that is at rest.  The invariant says   *)
(* what holds of the watched session while handlers are under way: that a  *)
(* logger which has ended its current session is going to have another     *)
(* (Giving), or that something the property names has happened.            *)
(***************************************************************************)
EXTENDS Sessions, SequenceTheorems, TLAPS

Row  == [owner : Loggers, named : BOOLEAN, open : BOOLEAN]
Call == [id : Nat, at : 1 .. 3]

SessionTypes ==
  /\ sessions \in Seq(Row)
  /\ beat \in [Loggers -> [session : Nat, connected : BOOLEAN, fresh : BOOLEAN]]
  /\ process \in [Loggers -> {"down", "clears", "sweeps", "opens", "up", "quits"}]
  /\ birth \in [Loggers -> Nat] /\ current \in [Loggers -> Nat]
  /\ connected \in [Loggers -> BOOLEAN] /\ first \in [Loggers -> BOOLEAN]
  /\ limbo \in [Loggers -> BOOLEAN]
  /\ inserts \in [Loggers -> Nat]
  /\ stores \in [Loggers -> SUBSET Nat]
  /\ namings \in [Loggers -> SUBSET Call]
  /\ endings \in [Loggers -> SUBSET Call]
  /\ queue \in [Loggers -> SUBSET Nat]
  /\ watched \in Nat \ {0}

\* What a logger's calls are about is its own, and it has none when it is not
\* running.
Runs(l) ==
  /\ ~Up(l) => /\ inserts[l] = 0 /\ stores[l] = {} /\ namings[l] = {} /\ queue[l] = {}
               /\ first[l] /\ ~connected[l] /\ ~limbo[l]
  /\ process[l] \notin {"up", "quits"} => endings[l] = {}
  /\ Up(l) => birth[l] \in Of(l) /\ current[l] \in Of(l) /\ birth[l] <= current[l]
  /\ current[l] \notin stores[l]
  /\ \A i \in stores[l] : i \in Of(l) /\ birth[l] <= i /\ ~BeingEnded(l, i)
  /\ \A n \in namings[l] : n.id \in Of(l)
  /\ \A e \in endings[l] : e.id \in Of(l) /\ (e.at = 2 => e.id \notin Open)
  /\ queue[l] \subseteq Of(l)
  /\ beat[l].session \in Of(l) \cup {NoSession}
  /\ connected[l] \/ limbo[l] => ~first[l]

Titled == {i \in Known : sessions[i].named}

\* Nothing has happened to a session that there has not been.
Unborn == watched \notin Known => cause = {}

\* l is going to have a session other than its current one.
Giving(l) ==
  \/ inserts[l] > 0 \/ stores[l] # {} \/ limbo[l]
  \/ ~connected[l] /\ ~first[l]

\* The watched session is one of l's present run; l has it, or is about to.
Mine(l) == Up(l) /\ watched \in Of(l) /\ birth[l] <= watched
Held(l) == watched = current[l] \/ watched \in stores[l]
Beats(l) == beat[l].session = watched /\ beat[l].connected /\ beat[l].fresh

\* What has closed it, or is going to.
Closed(l) ==
  /\ watched \notin Open => cause \cap {"ended", "superseded", "stale"} # {}
  /\ "stale" \in cause => watched \notin Open
  /\ watched \in stores[l] => cause \cap {"ended", "beaten"} = {}
  /\ watched = current[l] /\ ("ended" \in cause \/ BeingEnded(l, watched)) =>
       Giving(l) \/ cause \cap {"refused", "early"} # {}
  /\ Held(l) /\ ("superseded" \in cause \/ \E n \in namings[l] : n.id # watched) =>
       "raced" \in cause
  /\ watched = current[l] /\ "beaten" \in cause =>
       /\ ~first[l]
       /\ Beats(l) \/ Giving(l) \/ "refused" \in cause
       /\ "stale" \in cause => Giving(l) \/ "refused" \in cause

\* What is open is current, is about to be, or is about to be closed.  Only
\* the session of the start may have no name, and nothing is opened beside it.
Excused(l) == BeingEnded(l, watched) \/ "undone" \in cause
Beside(l) == watched \in Open =>
  /\ Held(l) \/ Excused(l) \/ "doubled" \in cause
  /\ Held(l) /\ stores[l] \ {watched} # {} => Excused(l) \/ "doubled" \in cause
  /\ watched \notin Titled => Excused(l) \/ (watched = current[l] /\ ~Giving(l))

\* The presence of what is over is about to be dropped.
Dropped(l) ==
  watched \in presence \ Open =>
    BeingDropped(l, watched) \/ cause \cap {"late", "undone", "stale"} # {}

\* What an earlier run left open was passed over.
Left(l) == watched \in Of(l) \cap Open =>
  /\ process[l] = "opens" \/ (Up(l) /\ watched < birth[l]) => cause \cap {"spared", "undone"} # {}
  /\ process[l] = "sweeps" =>
       ~beat[l].connected \/ beat[l].session # watched \/ "undone" \in cause

\* All that is asked of the watched session when it is one of these.
Kept(l) == Mine(l) => Closed(l) /\ Beside(l) /\ Dropped(l)

SessionInv ==
  /\ SessionTypes /\ Unborn
  /\ \A l \in Loggers : Runs(l) /\ Left(l) /\ Kept(l)

-----------------------------------------------------------------------------
(* The table of sessions: what the statements do to its sets.              *)

LEMMA TableFacts ==
  ASSUME SessionTypes
  PROVE  /\ Known = 1 .. Len(sessions) /\ Len(sessions) \in Nat
         /\ \A i \in Known : sessions[i] \in Row /\ i \in Nat \ {0}
         /\ \A l : Of(l) \subseteq Known
         /\ \A l, m : l # m => Of(l) \cap Of(m) = {}
<1>1. Known = 1 .. Len(sessions) /\ Len(sessions) \in Nat
  BY LenProperties DEF SessionTypes, Known
<1>2. \A i \in Known : sessions[i] \in Row /\ i \in Nat \ {0}
  BY <1>1, ElementOfSeq DEF SessionTypes
<1> QED
  BY <1>1, <1>2 DEF Of

\* A row is added.
LEMMA TableAppend ==
  ASSUME SessionTypes, NEW l \in Loggers, NEW b \in BOOLEAN,
         sessions' = Append(sessions, Session(l, b))
  PROVE  LET new == Len(sessions) + 1 IN
         /\ sessions' \in Seq(Row) /\ Len(sessions') = new
         /\ new \in Nat \ {0} /\ new \notin Known /\ \A i \in Known : i < new
         /\ Known' = Known \cup {new}
         /\ Of(l)' = Of(l) \cup {new}
         /\ \A m \in Loggers \ {l} : Of(m)' = Of(m)
         /\ Open' = Open \cup {new}
         /\ Titled' = Titled \cup (IF b THEN {new} ELSE {})
<1> DEFINE new == Len(sessions) + 1
           r == Session(l, b)
<1>1. Known = 1 .. Len(sessions) /\ Len(sessions) \in Nat
  BY TableFacts
<1>2. r \in Row /\ r.owner = l /\ r.named = b /\ r.open
  BY DEF Row, Session
<1>3. sessions \in Seq(Row)
  BY DEF SessionTypes
<1>4. /\ sessions' \in Seq(Row) /\ Len(sessions') = new
      /\ \A i \in 1 .. Len(sessions) : sessions'[i] = sessions[i]
      /\ sessions'[new] = r
  BY <1>2, <1>3, AppendProperties
<1>5. Known' = 1 .. Len(sessions')
  BY <1>4, LenProperties DEF Known
<1>6. new \in Nat \ {0} /\ new \notin Known /\ \A i \in Known : i < new
  BY <1>1
<1>7. Known' = Known \cup {new}
  BY <1>1, <1>4, <1>5
<1> HIDE DEF new, r
<1>8. \A i \in Known : sessions'[i] = sessions[i]
  BY <1>1, <1>4
<1>9. sessions'[new].owner = l /\ (sessions'[new].named <=> b) /\ sessions'[new].open
  BY <1>2, <1>4
<1>10. Of(l)' = Of(l) \cup {new}
  BY <1>7, <1>8, <1>9, Zenon DEF Of
<1>11. ASSUME NEW m \in Loggers \ {l} PROVE Of(m)' = Of(m)
  BY <1>6, <1>7, <1>8, <1>9, Zenon DEF Of
<1>12. Open' = Open \cup {new}
  BY <1>7, <1>8, <1>9, Zenon DEF Open
<1>13. Titled' = Titled \cup (IF b THEN {new} ELSE {})
  <2>1. ASSUME NEW i PROVE i \in Titled' <=> i \in Titled \/ (b /\ i = new)
    BY <1>7, <1>8, <1>9, Zenon DEF Titled
  <2> QED
    BY <2>1
<1> QED
  BY <1>4, <1>6, <1>7, <1>10, <1>11, <1>12, <1>13 DEF new

\* Rows are closed,
LEMMA TableWithout ==
  ASSUME SessionTypes, NEW S, sessions' = Without(S)
  PROVE  /\ sessions' \in Seq(Row) /\ Known' = Known
         /\ \A m : Of(m)' = Of(m)
         /\ Open' = Open \ S /\ Titled' = Titled
<1>1. Known = 1 .. Len(sessions) /\ Len(sessions) \in Nat
      /\ \A i \in Known : sessions[i] \in Row
  BY TableFacts
<1>2. sessions' = [i \in Known |-> [sessions[i] EXCEPT !.open = @ /\ i \notin S]]
  BY DEF Without
<1>3. ASSUME NEW i \in Known
      PROVE  /\ sessions'[i] \in Row
             /\ sessions'[i].owner = sessions[i].owner
             /\ sessions'[i].named = sessions[i].named
             /\ sessions'[i].open <=> sessions[i].open /\ i \notin S
  <2> DEFINE r == sessions[i]
             q == r.open /\ i \notin S
  <2>1. sessions'[i] = [r EXCEPT !.open = q]
    BY <1>2
  <2>2. r \in Row
    BY <1>1
  <2>3. q \in BOOLEAN
    OBVIOUS
  <2>4. (q <=> r.open /\ i \notin S) /\ r = sessions[i]
    OBVIOUS
  <2> HIDE DEF r, q
  <2>5. /\ [r EXCEPT !.open = q] \in Row
        /\ [r EXCEPT !.open = q].owner = r.owner
        /\ [r EXCEPT !.open = q].named = r.named
        /\ [r EXCEPT !.open = q].open = q
    BY <2>2, <2>3 DEF Row
  <2> QED
    BY <2>1, <2>4, <2>5
<1>4. sessions' \in [1 .. Len(sessions) -> Row]
  BY <1>1, <1>2, <1>3
<1>5. sessions' \in Seq(Row)
  BY <1>1, <1>4, IsASeq
<1>6. Known' = Known
  BY <1>2 DEF Known
<1>7. ASSUME NEW m PROVE Of(m)' = Of(m)
  BY <1>3, <1>6, Zenon DEF Of
<1>8. ASSUME NEW i PROVE i \in Open' <=> i \in Open \ S
  BY <1>3, <1>6, Zenon DEF Open
<1>9. ASSUME NEW i PROVE i \in Titled' <=> i \in Titled
  BY <1>3, <1>6, Zenon DEF Titled
<1> QED
  BY <1>5, <1>6, <1>7, <1>8, <1>9

\* or one is given its name.
LEMMA TableNamed ==
  ASSUME SessionTypes, NEW j \in Known, sessions' = [sessions EXCEPT ![j].named = TRUE]
  PROVE  /\ sessions' \in Seq(Row) /\ Known' = Known
         /\ \A m : Of(m)' = Of(m)
         /\ Open' = Open /\ Titled' = Titled \cup {j}
<1>1. Known = 1 .. Len(sessions) /\ Len(sessions) \in Nat
      /\ \A i \in Known : sessions[i] \in Row
  BY TableFacts
<1>2. sessions' = [i \in Known |-> IF i = j THEN [sessions[i] EXCEPT !.named = TRUE] ELSE sessions[i]]
  BY DEF Known
<1>3. ASSUME NEW i \in Known
      PROVE  /\ sessions'[i] \in Row
             /\ sessions'[i].owner = sessions[i].owner
             /\ sessions'[i].named <=> sessions[i].named \/ i = j
             /\ sessions'[i].open = sessions[i].open
  <2> DEFINE r == sessions[i]
  <2>1. sessions'[i] = IF i = j THEN [r EXCEPT !.named = TRUE] ELSE r
    BY <1>2
  <2>2. r \in Row
    BY <1>1
  <2> HIDE DEF r
  <2>3. /\ [r EXCEPT !.named = TRUE] \in Row
        /\ [r EXCEPT !.named = TRUE].owner = r.owner
        /\ [r EXCEPT !.named = TRUE].named = TRUE
        /\ [r EXCEPT !.named = TRUE].open = r.open
    BY <2>2 DEF Row
  <2>4. CASE i = j
    BY <2>1, <2>3, <2>4 DEF r
  <2>5. CASE i # j
    BY <2>1, <2>2, <2>5 DEF r
  <2> QED
    BY <2>4, <2>5
<1>4. sessions' \in [1 .. Len(sessions) -> Row]
  BY <1>1, <1>2, <1>3
<1>5. sessions' \in Seq(Row)
  BY <1>1, <1>4, IsASeq
<1>6. Known' = Known
  BY <1>2 DEF Known
<1>7. ASSUME NEW m PROVE Of(m)' = Of(m)
  BY <1>3, <1>6, Zenon DEF Of
<1>8. ASSUME NEW i PROVE i \in Open' <=> i \in Open
  BY <1>3, <1>6, Zenon DEF Open
<1>9. ASSUME NEW i PROVE i \in Titled' <=> i \in Titled \cup {j}
  BY <1>3, <1>6, Zenon DEF Titled
<1> QED
  BY <1>5, <1>6, <1>7, <1>8, <1>9

LEMMA TableStays ==
  ASSUME UNCHANGED sessions
  PROVE  /\ Known' = Known /\ Open' = Open /\ Titled' = Titled
         /\ \A m : Of(m)' = Of(m)
BY DEF Known, Open, Titled, Of

-----------------------------------------------------------------------------
(* The statements that fail, one by one.                                   *)

ClearFails(l) ==
  /\ process[l] = "clears"
  /\ process' = [process EXCEPT ![l] = "sweeps"]
  /\ Note("undone", {beat[l].session})
  /\ UNCHANGED <<database, services, tasks, watched>>

SweepFails(l) ==
  /\ process[l] = "sweeps"
  /\ process' = [process EXCEPT ![l] = AfterSweep(l)]
  /\ Note("undone", Open)
  /\ UNCHANGED <<database, services, tasks, watched>>

\* The process is gone: a kill, an exit, or the exit that could not clear.
Leaves(l) == Down(l) /\ UNCHANGED <<database, watched>>

LEMMA StartFailsSplit ==
  ASSUME NEW l, StartFails(l)
  PROVE  ClearFails(l) \/ SweepFails(l) \/ Leaves(l)
BY DEF StartFails, ClearFails, SweepFails, Leaves

InsertFails(l) ==
  /\ inserts[l] > 0
  /\ inserts' = [inserts EXCEPT ![l] = @ - 1]
  /\ Note("refused", {current[l]})
  /\ UNCHANGED <<database, process, services, stores, namings, endings, queue, watched>>

NamingFails(l) == \E n \in namings[l] :
  /\ namings' = [namings EXCEPT ![l] = @ \ {n}]
  /\ Note("undone", SupersededPresence(l))
  /\ UNCHANGED <<database, process, services, inserts, stores, endings, queue, watched>>

EndingFails(l) == \E e \in endings[l] :
  /\ endings' = [endings EXCEPT ![l] = @ \ {e}]
  /\ Note("undone", {e.id})
  /\ UNCHANGED <<database, process, services, inserts, stores, namings, queue, watched>>

LEMMA TaskFailsSplit ==
  ASSUME NEW l, TaskFails(l)
  PROVE  InsertFails(l) \/ NamingFails(l) \/ EndingFails(l) \/ Leaves(l)
BY DEF TaskFails, InsertFails, NamingFails, EndingFails, Leaves

-----------------------------------------------------------------------------
(* The types of the state.                                                 *)

\* What a call leaves in its set.
LEMMA NamedType ==
  ASSUME SessionTypes, NEW l \in Loggers, NEW n \in namings[l], Named(l, n)
  PROVE  namings' \in [Loggers -> SUBSET Call]
<1>1. namings \in [Loggers -> SUBSET Call] /\ n \in Call
  BY DEF SessionTypes
<1>2. n.at < 3 => [n EXCEPT !.at = @ + 1] \in Call
  BY <1>1 DEF Call
<1>3. (namings[l] \ {n}) \cup (IF n.at < 3 THEN {[n EXCEPT !.at = @ + 1]} ELSE {}) \in SUBSET Call
  BY <1>1, <1>2
<1> QED
  BY <1>1, <1>3 DEF Named

LEMMA EndedType ==
  ASSUME SessionTypes, NEW l \in Loggers, NEW e \in endings[l], Ended(l, e)
  PROVE  endings' \in [Loggers -> SUBSET Call]
<1>1. endings \in [Loggers -> SUBSET Call] /\ e \in Call
  BY DEF SessionTypes
<1>2. [e EXCEPT !.at = 2] \in Call
  BY <1>1 DEF Call
<1>3. (endings[l] \ {e}) \cup (IF e.at = 1 THEN {[e EXCEPT !.at = 2]} ELSE {}) \in SUBSET Call
  BY <1>1, <1>2
<1> QED
  BY <1>1, <1>3 DEF Ended

LEMMA BeginEndingType ==
  ASSUME SessionTypes, NEW l \in Loggers
  PROVE  BeginEnding(l) \in SUBSET Call
<1>1. endings[l] \in SUBSET Call /\ current[l] \in Nat
  BY DEF SessionTypes
<1>2. [id |-> current[l], at |-> 1] \in Call
  BY <1>1 DEF Call
<1> QED
  BY <1>1, <1>2 DEF BeginEnding

\* Down and Reset leave values of the right types, too.
LEMMA ResetType ==
  ASSUME SessionTypes, NEW l \in Loggers, Reset(l)
  PROVE  /\ birth' \in [Loggers -> Nat] /\ current' \in [Loggers -> Nat]
         /\ connected' \in [Loggers -> BOOLEAN] /\ first' \in [Loggers -> BOOLEAN]
         /\ limbo' \in [Loggers -> BOOLEAN]
         /\ inserts' \in [Loggers -> Nat]
         /\ stores' \in [Loggers -> SUBSET Nat]
         /\ namings' \in [Loggers -> SUBSET Call]
         /\ queue' \in [Loggers -> SUBSET Nat]
BY DEF SessionTypes, Reset, NoSession

LEMMA DownType ==
  ASSUME SessionTypes, NEW l \in Loggers, Down(l), UNCHANGED <<sessions, watched>>,
         beat' \in [Loggers -> [session : Nat, connected : BOOLEAN, fresh : BOOLEAN]]
  PROVE  SessionTypes'
<1>1. /\ process' \in [Loggers -> {"down", "clears", "sweeps", "opens", "up", "quits"}]
      /\ endings' \in [Loggers -> SUBSET Call]
  BY DEF SessionTypes, Down
<1>2. Reset(l)
  BY DEF Down
<1>3. sessions' \in Seq(Row) /\ watched' \in Nat \ {0}
  BY DEF SessionTypes
<1> QED
  BY <1>1, <1>2, <1>3, ResetType DEF SessionTypes

\* The start of a process.
LEMMA TypesOfStart ==
  ASSUME SessionTypes, NEW l \in Loggers,
         Start(l) \/ ClearHeartbeat(l) \/ CloseStale(l) \/ OpenFirst(l) \/ Crash(l) \/ StartFails(l)
  PROVE  SessionTypes'
<1>0. beat \in [Loggers -> [session : Nat, connected : BOOLEAN, fresh : BOOLEAN]]
  BY DEF SessionTypes
<1>a. AfterSweep(l) \in {"opens", "down"}
  BY DEF AfterSweep
<1>1. CASE Start(l)
  BY <1>1 DEF SessionTypes, Start, database, services, tasks
<1>2. CASE ClearHeartbeat(l)
  <2>1. ClearedBeat(l) \in [Loggers -> [session : Nat, connected : BOOLEAN, fresh : BOOLEAN]]
    BY <1>0 DEF ClearedBeat
  <2> QED
    BY <1>2, <2>1 DEF SessionTypes, ClearHeartbeat, services, tasks, bounds
<1>3. CASE CloseStale(l)
  <2>1. PICK S : sessions' = Without(S)
    BY <1>3 DEF CloseStale
  <2>2. sessions' \in Seq(Row)
    BY <2>1, TableWithout
  <2> QED
    BY <1>3, <1>a, <2>2 DEF SessionTypes, CloseStale, services, tasks, bounds
<1>4. CASE OpenFirst(l)
  <2>1. sessions' \in Seq(Row) /\ Len(sessions') \in Nat
    BY <1>4, TableAppend DEF OpenFirst
  <2> QED
    BY <1>4, <2>1 DEF SessionTypes, OpenFirst, tasks, bounds
<1>5. CASE Crash(l)
  BY <1>0, <1>5, DownType DEF Crash, database, bounds
<1>6. CASE StartFails(l)
  <2>1. CASE ClearFails(l) \/ SweepFails(l)
    BY <1>a, <2>1 DEF SessionTypes, ClearFails, SweepFails, database, services, tasks
  <2>2. CASE Leaves(l)
    BY <1>0, <2>2, DownType DEF Leaves, database
  <2> QED
    BY <1>6, <2>1, <2>2, StartFailsSplit
<1> QED
  BY <1>1, <1>2, <1>3, <1>4, <1>5, <1>6

\* The events of the game.
LEMMA TypesOfEvents ==
  ASSUME SessionTypes, NEW l \in Loggers,
         \/ Login(l) \/ Spawn(l) \/ Disconnect(l) \/ EnterQueue(l) \/ LeaveQueue(l)
         \/ Shutdown(l) \/ See(l)
  PROVE  SessionTypes'
<1>0. BeginEnding(l) \in SUBSET Call
  BY BeginEndingType
<1>1. CASE Login(l)
  <2>0. inserts' = inserts \/ inserts' = [inserts EXCEPT ![l] = @ + 1]
    BY <1>1, Zenon DEF Login
  <2>a. inserts \in [Loggers -> Nat]
    BY DEF SessionTypes
  <2>1. inserts' \in [Loggers -> Nat]
    BY <2>0, <2>a
  <2>2. connected' \in [Loggers -> BOOLEAN] /\ first' \in [Loggers -> BOOLEAN]
    BY <1>1 DEF SessionTypes, Login
  <2> QED
    BY <1>1, <2>1, <2>2 DEF SessionTypes, Login, database, bounds
<1>2. CASE Spawn(l)
  <2>1. [id |-> current[l], at |-> 1] \in Call
    BY DEF SessionTypes, Call
  <2> QED
    BY <1>2, <2>1 DEF SessionTypes, Spawn, database, services, bounds
<1>3. CASE Disconnect(l)
  BY <1>0, <1>3 DEF SessionTypes, Disconnect, EndOnDisconnect, database, bounds
<1>4. CASE EnterQueue(l)
  BY <1>0, <1>4 DEF SessionTypes, EnterQueue, database, bounds
<1>5. CASE LeaveQueue(l)
  BY <1>5 DEF SessionTypes, LeaveQueue, database, bounds
<1>6. CASE Shutdown(l)
  <2>1. /\ Reset(l) /\ UNCHANGED <<sessions, beat, watched>>
        /\ process' \in [Loggers -> {"down", "clears", "sweeps", "opens", "up", "quits"}]
        /\ endings' \in [Loggers -> SUBSET Call]
    BY <1>0, <1>6 DEF SessionTypes, Shutdown, database, bounds
  <2> QED
    BY <2>1, ResetType DEF SessionTypes
<1>7. CASE See(l)
  BY <1>7 DEF SessionTypes, See, database, services, bounds
<1> QED
  BY <1>1, <1>2, <1>3, <1>4, <1>5, <1>6, <1>7

\* The statements of the handlers.
LEMMA TypesOfCalls ==
  ASSUME SessionTypes, NEW l \in Loggers, Runs(l),
         \/ Insert(l) \/ Store(l) \/ NameSession(l) \/ SupersedeOthers(l)
         \/ DropSuperseded(l) \/ EndSession(l) \/ DropPresence(l)
  PROVE  SessionTypes'
<1>1. CASE Insert(l)
  <2>1. sessions' \in Seq(Row)
    BY <1>1, TableAppend DEF Insert
  <2>2. Len(sessions) + 1 \in Nat
    BY TableFacts
  <2>3. inserts' \in [Loggers -> Nat]
    BY <1>1 DEF Insert, SessionTypes
  <2>4. stores' \in [Loggers -> SUBSET Nat]
    BY <1>1, <2>2 DEF Insert, SessionTypes
  <2> QED
    BY <1>1, <2>1, <2>3, <2>4 DEF SessionTypes, Insert, services, bounds
<1>2. CASE Store(l)
  BY <1>2 DEF SessionTypes, Store, database, bounds
<1>3. CASE NameSession(l)
  <2>1. PICK n \in namings[l] : Named(l, n) /\ sessions' = [sessions EXCEPT ![n.id].named = TRUE]
    BY <1>3 DEF NameSession
  <2>2. n.id \in Known
    BY TableFacts DEF Runs
  <2>3. sessions' \in Seq(Row) /\ namings' \in [Loggers -> SUBSET Call]
    BY <2>1, <2>2, TableNamed, NamedType
  <2> QED
    BY <1>3, <2>3 DEF SessionTypes, NameSession, services, bounds
<1>4. CASE SupersedeOthers(l)
  <2>1. PICK n \in namings[l] : Named(l, n) /\ sessions' = Without(Superseded(l, n.id))
    BY <1>4 DEF SupersedeOthers
  <2>2. sessions' \in Seq(Row) /\ namings' \in [Loggers -> SUBSET Call]
    BY <2>1, TableWithout, NamedType
  <2> QED
    BY <1>4, <2>2 DEF SessionTypes, SupersedeOthers, services, bounds
<1>5. CASE DropSuperseded(l)
  <2>1. namings' \in [Loggers -> SUBSET Call]
    BY <1>5, NamedType DEF DropSuperseded
  <2> QED
    BY <1>5, <2>1 DEF SessionTypes, DropSuperseded, services, bounds
<1>6. CASE EndSession(l)
  <2>1. PICK e \in endings[l] : Ended(l, e) /\ sessions' = Without({e.id})
    BY <1>6 DEF EndSession
  <2>2. sessions' \in Seq(Row) /\ endings' \in [Loggers -> SUBSET Call]
    BY <2>1, TableWithout, EndedType
  <2> QED
    BY <1>6, <2>2 DEF SessionTypes, EndSession, services, bounds
<1>7. CASE DropPresence(l)
  <2>1. endings' \in [Loggers -> SUBSET Call]
    BY <1>7, EndedType DEF DropPresence
  <2> QED
    BY <1>7, <2>1 DEF SessionTypes, DropPresence, services, bounds
<1> QED
  BY <1>1, <1>2, <1>3, <1>4, <1>5, <1>6, <1>7

\* The rest.
LEMMA TypesOfRest ==
  ASSUME SessionTypes, NEW l \in Loggers,
         Quit(l) \/ TaskFails(l) \/ Flush(l) \/ Heartbeat(l) \/ GrowStale(l)
  PROVE  SessionTypes'
<1>0. beat \in [Loggers -> [session : Nat, connected : BOOLEAN, fresh : BOOLEAN]]
  BY DEF SessionTypes
<1>1. CASE Quit(l)
  <2>1. beat' \in [Loggers -> [session : Nat, connected : BOOLEAN, fresh : BOOLEAN]]
    BY <1>0, <1>1 DEF Quit, ClearedBeat
  <2> QED
    BY <1>1, <2>1, DownType DEF Quit, bounds
<1>2. CASE TaskFails(l)
  <2>1. CASE InsertFails(l)
    <3>1. inserts' \in [Loggers -> Nat]
      BY <2>1 DEF SessionTypes, InsertFails
    <3> QED
      BY <2>1, <3>1 DEF SessionTypes, InsertFails, database, services
  <2>2. CASE NamingFails(l)
    <3>1. namings' \in [Loggers -> SUBSET Call]
      BY <2>2 DEF SessionTypes, NamingFails
    <3> QED
      BY <2>2, <3>1 DEF SessionTypes, NamingFails, database, services
  <2>3. CASE EndingFails(l)
    <3>1. endings' \in [Loggers -> SUBSET Call]
      BY <2>3 DEF SessionTypes, EndingFails
    <3> QED
      BY <2>3, <3>1 DEF SessionTypes, EndingFails, database, services
  <2>4. CASE Leaves(l)
    BY <1>0, <2>4, DownType DEF Leaves, database
  <2> QED
    BY <1>2, <2>1, <2>2, <2>3, <2>4, TaskFailsSplit
<1>3. CASE Flush(l)
  BY <1>3 DEF SessionTypes, Flush, services, bounds
<1>4. CASE Heartbeat(l)
  <2>1. beat' \in [Loggers -> [session : Nat, connected : BOOLEAN, fresh : BOOLEAN]]
    BY <1>4 DEF Heartbeat, SessionTypes
  <2> QED
    BY <1>4, <2>1 DEF SessionTypes, Heartbeat, services, tasks, bounds
<1>5. CASE GrowStale(l)
  <2>1. beat' \in [Loggers -> [session : Nat, connected : BOOLEAN, fresh : BOOLEAN]]
    BY <1>0, <1>5 DEF GrowStale
  <2> QED
    BY <1>5, <2>1 DEF SessionTypes, GrowStale, services, tasks, bounds
<1> QED
  BY <1>1, <1>2, <1>3, <1>4, <1>5

-----------------------------------------------------------------------------
(* What a step of one logger leaves alone of another.                      *)

\* Nothing of m's memory or heartbeat changes.
Still(m) ==
  /\ process'[m] = process[m] /\ birth'[m] = birth[m] /\ current'[m] = current[m]
  /\ connected'[m] = connected[m] /\ first'[m] = first[m] /\ limbo'[m] = limbo[m]
  /\ inserts'[m] = inserts[m] /\ stores'[m] = stores[m] /\ namings'[m] = namings[m]
  /\ endings'[m] = endings[m] /\ queue'[m] = queue[m] /\ beat'[m] = beat[m]

LEMMA ResetStill ==
  ASSUME SessionTypes, NEW l \in Loggers, NEW m \in Loggers \ {l}, Reset(l)
  PROVE  /\ birth'[m] = birth[m] /\ current'[m] = current[m]
         /\ connected'[m] = connected[m] /\ first'[m] = first[m] /\ limbo'[m] = limbo[m]
         /\ inserts'[m] = inserts[m] /\ stores'[m] = stores[m] /\ namings'[m] = namings[m]
         /\ queue'[m] = queue[m]
BY DEF SessionTypes, Reset

LEMMA DownStill ==
  ASSUME SessionTypes, NEW l \in Loggers, NEW m \in Loggers \ {l}, Down(l), beat'[m] = beat[m]
  PROVE  Still(m)
<1>1. process'[m] = process[m] /\ endings'[m] = endings[m] /\ Reset(l)
  BY DEF SessionTypes, Down
<1> QED
  BY <1>1, ResetStill DEF Still

LEMMA StartStill ==
  ASSUME SessionTypes, NEW l \in Loggers, NEW m \in Loggers \ {l},
         Start(l) \/ ClearHeartbeat(l) \/ CloseStale(l) \/ OpenFirst(l) \/ Crash(l) \/ StartFails(l)
  PROVE  Still(m)
<1>1. CASE Start(l)
  BY <1>1 DEF SessionTypes, Start, Still, database, services, tasks
<1>2. CASE ClearHeartbeat(l)
  BY <1>2 DEF SessionTypes, ClearHeartbeat, ClearedBeat, Still, services, tasks
<1>3. CASE CloseStale(l)
  BY <1>3 DEF SessionTypes, CloseStale, Still, services, tasks
<1>4. CASE OpenFirst(l)
  BY <1>4 DEF SessionTypes, OpenFirst, Still, tasks
<1>5. CASE Crash(l)
  BY <1>5, DownStill DEF Crash, database
<1>6. CASE StartFails(l)
  <2>1. CASE ClearFails(l) \/ SweepFails(l)
    BY <2>1 DEF SessionTypes, ClearFails, SweepFails, Still, database, services, tasks
  <2>2. CASE Leaves(l)
    BY <2>2, DownStill DEF Leaves, database
  <2> QED
    BY <1>6, <2>1, <2>2, StartFailsSplit
<1> QED
  BY <1>1, <1>2, <1>3, <1>4, <1>5, <1>6

LEMMA EventsStill ==
  ASSUME SessionTypes, NEW l \in Loggers, NEW m \in Loggers \ {l},
         \/ Login(l) \/ Spawn(l) \/ Disconnect(l) \/ EnterQueue(l) \/ LeaveQueue(l)
         \/ Shutdown(l) \/ See(l)
  PROVE  Still(m)
<1>1. CASE Login(l)
  <2>1. inserts' = inserts \/ inserts' = [inserts EXCEPT ![l] = @ + 1]
    BY <1>1, Zenon DEF Login
  <2>2. inserts'[m] = inserts[m]
    BY <2>1 DEF SessionTypes
  <2> QED
    BY <1>1, <2>2 DEF SessionTypes, Login, Still, database
<1>2. CASE Spawn(l)
  BY <1>2 DEF SessionTypes, Spawn, Still, database, services
<1>3. CASE Disconnect(l)
  BY <1>3 DEF SessionTypes, Disconnect, Still, database
<1>4. CASE EnterQueue(l)
  BY <1>4 DEF SessionTypes, EnterQueue, Still, database
<1>5. CASE LeaveQueue(l)
  BY <1>5 DEF SessionTypes, LeaveQueue, Still, database
<1>6. CASE Shutdown(l)
  BY <1>6, ResetStill DEF SessionTypes, Shutdown, Still, database
<1>7. CASE See(l)
  BY <1>7 DEF SessionTypes, See, Still, database, services
<1> QED
  BY <1>1, <1>2, <1>3, <1>4, <1>5, <1>6, <1>7

LEMMA CallsStill ==
  ASSUME SessionTypes, NEW l \in Loggers, NEW m \in Loggers \ {l},
         \/ Insert(l) \/ Store(l) \/ NameSession(l) \/ SupersedeOthers(l)
         \/ DropSuperseded(l) \/ EndSession(l) \/ DropPresence(l)
  PROVE  Still(m)
<1>0. ASSUME NEW n, Named(l, n) PROVE namings'[m] = namings[m]
  BY <1>0 DEF Named, SessionTypes
<1>a. ASSUME NEW e, Ended(l, e) PROVE endings'[m] = endings[m]
  BY <1>a DEF Ended, SessionTypes
<1>1. CASE Insert(l)
  BY <1>1 DEF SessionTypes, Insert, Still, services
<1>2. CASE Store(l)
  BY <1>2 DEF SessionTypes, Store, Still, database
<1>3. CASE NameSession(l)
  BY <1>0, <1>3 DEF NameSession, Still, services
<1>4. CASE SupersedeOthers(l)
  BY <1>0, <1>4 DEF SupersedeOthers, Still, services
<1>5. CASE DropSuperseded(l)
  BY <1>0, <1>5 DEF DropSuperseded, Still, services
<1>6. CASE EndSession(l)
  BY <1>a, <1>6 DEF EndSession, Still, services
<1>7. CASE DropPresence(l)
  BY <1>a, <1>7 DEF DropPresence, Still, services
<1> QED
  BY <1>1, <1>2, <1>3, <1>4, <1>5, <1>6, <1>7

LEMMA RestStill ==
  ASSUME SessionTypes, NEW l \in Loggers, NEW m \in Loggers \ {l},
         Quit(l) \/ TaskFails(l) \/ Flush(l) \/ Heartbeat(l) \/ GrowStale(l)
  PROVE  Still(m)
<1>1. CASE Quit(l)
  <2>1. beat'[m] = beat[m]
    BY <1>1 DEF SessionTypes, Quit, ClearedBeat
  <2> QED
    BY <1>1, <2>1, DownStill DEF Quit
<1>2. CASE TaskFails(l)
  <2>1. CASE InsertFails(l)
    BY <2>1 DEF SessionTypes, InsertFails, Still, database, services
  <2>2. CASE NamingFails(l)
    BY <2>2 DEF SessionTypes, NamingFails, Still, database, services
  <2>3. CASE EndingFails(l)
    BY <2>3 DEF SessionTypes, EndingFails, Still, database, services
  <2>4. CASE Leaves(l)
    BY <2>4, DownStill DEF Leaves, database
  <2> QED
    BY <1>2, <2>1, <2>2, <2>3, <2>4, TaskFailsSplit
<1>3. CASE Flush(l)
  BY <1>3 DEF SessionTypes, Flush, Still, services
<1>4. CASE Heartbeat(l)
  BY <1>4 DEF SessionTypes, Heartbeat, Still, services, tasks
<1>5. CASE GrowStale(l)
  BY <1>5 DEF SessionTypes, GrowStale, Still, services, tasks
<1> QED
  BY <1>1, <1>2, <1>3, <1>4, <1>5

\* Nothing happens to m's sessions.
Spared(m) ==
  /\ Of(m)' = Of(m)
  /\ \A i \in Of(m) : /\ i \in Open' <=> i \in Open
                      /\ i \in Titled' <=> i \in Titled
                      /\ i \in presence' <=> i \in presence
  /\ watched' = watched
  /\ watched \in Of(m) => cause' = cause

\* What is about l's sessions is not about m's,
LEMMA NoteSpares ==
  ASSUME SessionTypes, NEW l \in Loggers, NEW m \in Loggers \ {l}, watched \in Of(m),
         NEW c, NEW S, S \cap Of(m) = {}, Note(c, S)
  PROVE  cause' = cause
BY DEF Note

LEMMA DownSpares ==
  ASSUME SessionTypes, NEW l \in Loggers, NEW m \in Loggers \ {l}, Down(l),
         UNCHANGED <<sessions, presence, watched>>
  PROVE  Spared(m)
<1>1. watched \in Of(m) => cause' = cause
  BY TableFacts DEF Down
<1> QED
  BY <1>1, TableStays DEF Spared

LEMMA AppendSpares ==
  ASSUME SessionTypes, NEW l \in Loggers, NEW m \in Loggers \ {l}, NEW b \in BOOLEAN,
         sessions' = Append(sessions, Session(l, b)),
         UNCHANGED <<presence, watched>>,
         watched \in Of(m) => cause' = cause
  PROVE  Spared(m)
<1> DEFINE new == Len(sessions) + 1
<1>1. new \notin Known /\ Of(m)' = Of(m) /\ Open' = Open \cup {new}
  BY TableAppend
<1>2. Titled' = Titled \cup (IF b THEN {new} ELSE {})
  BY TableAppend
<1> HIDE DEF new
<1>3. \A i \in Of(m) : i # new
  BY <1>1, TableFacts
<1>4. \A i \in Of(m) : (i \in Open' <=> i \in Open) /\ (i \in Titled' <=> i \in Titled)
  BY <1>1, <1>2, <1>3
<1> QED
  BY <1>1, <1>4 DEF Spared

\* in the start, but for the sweep,
LEMMA StartSpares ==
  ASSUME SessionTypes, NEW l \in Loggers, Runs(l), NEW m \in Loggers \ {l},
         \/ Start(l) \/ ClearHeartbeat(l) \/ OpenFirst(l) \/ Crash(l)
         \/ ClearFails(l) \/ Leaves(l)
  PROVE  Spared(m)
<1>0. Of(l) \cap Of(m) = {} /\ NoSession \notin Of(m)
  BY TableFacts DEF NoSession
<1>1. CASE Start(l) \/ ClearHeartbeat(l)
  BY <1>1, TableStays DEF Start, ClearHeartbeat, Spared, database, bounds
<1>2. CASE OpenFirst(l)
  <2>1. sessions' = Append(sessions, Session(l, FALSE)) /\ UNCHANGED <<presence, watched, cause>>
    BY <1>2 DEF OpenFirst, bounds
  <2> QED
    BY <2>1, AppendSpares
<1>3. CASE Crash(l) \/ Leaves(l)
  BY <1>3, DownSpares DEF Crash, Leaves, database, bounds
<1>4. CASE ClearFails(l)
  <2>1. Note("undone", {beat[l].session}) /\ UNCHANGED <<sessions, presence, watched>>
    BY <1>4 DEF ClearFails, database
  <2>2. {beat[l].session} \cap Of(m) = {}
    BY <1>0 DEF Runs
  <2>3. watched \in Of(m) => cause' = cause
    BY <2>1, <2>2, NoteSpares
  <2> QED
    BY <2>1, <2>3, TableStays DEF Spared
<1> QED
  BY <1>1, <1>2, <1>3, <1>4

\* when something happens in the game,
LEMMA EventsSpare ==
  ASSUME SessionTypes, NEW l \in Loggers, Runs(l), NEW m \in Loggers \ {l},
         \/ Login(l) \/ Spawn(l) \/ Disconnect(l) \/ EnterQueue(l) \/ LeaveQueue(l)
         \/ Shutdown(l) \/ See(l)
  PROVE  Spared(m)
<1>0. Of(l) \cap Of(m) = {} /\ NoSession \notin Of(m)
  BY TableFacts DEF NoSession
<1>1. UNCHANGED <<sessions, presence, watched>>
  BY DEF Login, Spawn, Disconnect, EnterQueue, LeaveQueue, Shutdown, See, database, bounds
<1>2. watched \in Of(m) => cause' = cause
  <2>1. CASE Spawn(l)
    <3>1. stores[l] \cap Of(m) = {} /\ Note("raced", stores[l])
      BY <1>0, <2>1 DEF Spawn, Runs
    <3> QED
      BY <3>1, NoteSpares
  <2>2. CASE Disconnect(l)
    <3>1. current[l] \in Of(l)
      BY <2>2 DEF Disconnect, Runs
    <3>2. (IF first[l] THEN {current[l]} ELSE {}) \cap Of(m) = {}
      BY <1>0, <3>1
    <3>3. Note("early", IF first[l] THEN {current[l]} ELSE {})
      BY <2>2 DEF Disconnect
    <3> QED
      BY <3>2, <3>3, NoteSpares
  <2>3. CASE ~Spawn(l) /\ ~Disconnect(l)
    BY <2>3 DEF Login, EnterQueue, LeaveQueue, Shutdown, See
  <2> QED
    BY <2>1, <2>2, <2>3
<1> QED
  BY <1>1, <1>2, TableStays DEF Spared

\* and when a statement is done.
LEMMA CallsSpare ==
  ASSUME SessionTypes, Unborn, NEW l \in Loggers, Runs(l), NEW m \in Loggers \ {l},
         \/ Insert(l) \/ Store(l) \/ NameSession(l) \/ SupersedeOthers(l)
         \/ DropSuperseded(l) \/ EndSession(l) \/ DropPresence(l)
  PROVE  Spared(m)
<1>0. Of(l) \cap Of(m) = {} /\ Of(m) \subseteq Known
  BY TableFacts
<1>1. CASE Insert(l)
  <2>1. sessions' = Append(sessions, Session(l, TRUE)) /\ UNCHANGED <<presence, watched>>
    BY <1>1 DEF Insert, bounds
  <2>2. \A i \in Of(m) : i # Len(sessions) + 1
    BY <1>0, TableAppend, <2>1
  <2>3. watched \in Of(m) => watched \notin (stores[l] \cup {current[l]})
    BY <1>0, <1>1 DEF Runs, Insert
  <2>4. watched \in Of(m) => cause' = cause
    BY <1>1, <2>2, <2>3 DEF Insert
  <2> QED
    BY <2>1, <2>4, AppendSpares
<1>2. CASE Store(l)
  BY <1>2, TableStays DEF Store, Spared, database, bounds
<1>3. CASE NameSession(l)
  <2>1. PICK n \in namings[l] : sessions' = [sessions EXCEPT ![n.id].named = TRUE]
    BY <1>3 DEF NameSession
  <2>2. n.id \in Of(l)
    BY DEF Runs
  <2>3. n.id \in Known
    BY <2>2, TableFacts
  <2>4. UNCHANGED <<presence, watched, cause>>
    BY <1>3 DEF NameSession, bounds
  <2> QED
    BY <1>0, <2>1, <2>2, <2>3, <2>4, TableNamed DEF Spared
<1>4. CASE SupersedeOthers(l)
  <2>1. PICK n \in namings[l] :
          /\ sessions' = Without(Superseded(l, n.id))
          /\ cause' = (IF watched \in Of(l) \ {n.id} THEN cause \ {"doubled"} ELSE cause)
               \cup (IF watched \in Open \cap Superseded(l, n.id) THEN {"superseded"} ELSE {})
    BY <1>4 DEF SupersedeOthers
  <2>2. Superseded(l, n.id) \subseteq Of(l)
    BY DEF Superseded
  <2>3. UNCHANGED <<presence, watched>>
    BY <1>4 DEF SupersedeOthers, bounds
  <2>4. watched \in Of(m) => cause' = cause
    BY <1>0, <2>1, <2>2
  <2> QED
    BY <1>0, <2>1, <2>2, <2>3, <2>4, TableWithout DEF Spared
<1>5. CASE DropSuperseded(l)
  <2>1. presence' = presence \ SupersededPresence(l) /\ UNCHANGED <<sessions, watched, cause>>
    BY <1>5 DEF DropSuperseded, bounds
  <2>2. SupersededPresence(l) \subseteq Of(l)
    BY DEF SupersededPresence
  <2> QED
    BY <1>0, <2>1, <2>2, TableStays DEF Spared
<1>6. CASE EndSession(l)
  <2>1. PICK e \in endings[l] : sessions' = Without({e.id}) /\ Note("ended", {e.id} \cap Open)
    BY <1>6 DEF EndSession
  <2>2. e.id \in Of(l) /\ UNCHANGED <<presence, watched>>
    BY <1>6 DEF EndSession, Runs, bounds
  <2>3. ({e.id} \cap Open) \cap Of(m) = {}
    BY <1>0, <2>2
  <2>4. watched \in Of(m) => cause' = cause
    BY <2>1, <2>3, NoteSpares
  <2> QED
    BY <1>0, <2>1, <2>2, <2>4, TableWithout DEF Spared
<1>7. CASE DropPresence(l)
  <2>1. PICK e \in endings[l] : presence' = presence \ {e.id}
    BY <1>7 DEF DropPresence, PresenceWithout
  <2>2. e.id \in Of(l) /\ UNCHANGED <<sessions, watched, cause>>
    BY <1>7 DEF DropPresence, Runs, bounds
  <2> QED
    BY <1>0, <2>1, <2>2, TableStays DEF Spared
<1> QED
  BY <1>1, <1>2, <1>3, <1>4, <1>5, <1>6, <1>7

LEMMA RestSpares ==
  ASSUME SessionTypes, NEW l \in Loggers, Runs(l), NEW m \in Loggers \ {l},
         \/ Quit(l) \/ InsertFails(l) \/ NamingFails(l) \/ EndingFails(l)
         \/ Flush(l) \/ Heartbeat(l) \/ GrowStale(l)
  PROVE  Spared(m)
<1>0. Of(l) \cap Of(m) = {}
  BY TableFacts
<1>1. CASE Quit(l)
  BY <1>1, DownSpares DEF Quit, bounds
<1>2. CASE InsertFails(l)
  <2>1. Note("refused", {current[l]}) /\ UNCHANGED <<sessions, presence, watched>>
    BY <1>2 DEF InsertFails, database
  <2>2. {current[l]} \cap Of(m) = {}
    BY <1>0, <1>2 DEF InsertFails, Runs, SessionTypes
  <2>3. watched \in Of(m) => cause' = cause
    BY <2>1, <2>2, NoteSpares
  <2> QED
    BY <2>1, <2>3, TableStays DEF Spared
<1>3. CASE NamingFails(l)
  <2>1. Note("undone", SupersededPresence(l)) /\ UNCHANGED <<sessions, presence, watched>>
    BY <1>3 DEF NamingFails, database
  <2>2. SupersededPresence(l) \cap Of(m) = {}
    BY <1>0 DEF SupersededPresence
  <2>3. watched \in Of(m) => cause' = cause
    BY <2>1, <2>2, NoteSpares
  <2> QED
    BY <2>1, <2>3, TableStays DEF Spared
<1>4. CASE EndingFails(l)
  <2>1. PICK e \in endings[l] : Note("undone", {e.id})
    BY <1>4 DEF EndingFails
  <2>2. {e.id} \cap Of(m) = {}
    BY <1>0 DEF Runs
  <2>3. watched \in Of(m) => cause' = cause
    BY <2>1, <2>2, NoteSpares
  <2>4. UNCHANGED <<sessions, presence, watched>>
    BY <1>4 DEF EndingFails, database
  <2> QED
    BY <2>3, <2>4, TableStays DEF Spared
<1>5. CASE Flush(l)
  <2> DEFINE S == {i \in queue[l] \ Open : ~BeingDropped(l, i)}
  <2>1. presence' = presence \cup queue[l] /\ Note("late", S) /\ UNCHANGED <<sessions, watched>>
    BY <1>5 DEF Flush, bounds
  <2>2. queue[l] \cap Of(m) = {} /\ S \cap Of(m) = {}
    BY <1>0 DEF Runs
  <2> HIDE DEF S
  <2>3. watched \in Of(m) => cause' = cause
    BY <2>1, <2>2, NoteSpares
  <2> QED
    BY <2>1, <2>2, <2>3, TableStays DEF Spared
<1>6. CASE Heartbeat(l)
  <2> DEFINE S == IF connected[l] THEN {current[l]} \cap Open ELSE {}
  <2>1. Note("beaten", S) /\ UNCHANGED <<sessions, presence, watched>>
    BY <1>6 DEF Heartbeat, bounds
  <2>2. S \cap Of(m) = {}
    BY <1>0, <1>6 DEF Heartbeat, Runs
  <2> HIDE DEF S
  <2>3. watched \in Of(m) => cause' = cause
    BY <2>1, <2>2, NoteSpares
  <2> QED
    BY <2>1, <2>3, TableStays DEF Spared
<1>7. CASE GrowStale(l)
  BY <1>7, TableStays DEF GrowStale, Spared, bounds
<1> QED
  BY <1>1, <1>2, <1>3, <1>4, <1>5, <1>6, <1>7

LEMMA RunsStay ==
  ASSUME NEW m \in Loggers, Runs(m), Still(m), Of(m)' = Of(m),
         \A i \in Of(m) : i \in Open' => i \in Open
  PROVE  Runs(m)'
BY DEF Runs, Still, Up, BeingEnded, NoSession

\* Nothing that is asked of it is disturbed.
LEMMA Elsewhere ==
  ASSUME SessionTypes, NEW m \in Loggers, Runs(m), Left(m), Kept(m), Still(m), Spared(m)
  PROVE  Runs(m)' /\ Left(m)' /\ Kept(m)'
<1>1. Runs(m)'
  BY RunsStay DEF Spared
<1>2. CASE watched \notin Of(m)
  BY <1>1, <1>2 DEF Spared, Left, Kept, Mine
<1>3. CASE watched \in Of(m)
  <2> DEFINE w == watched
  <2>1. /\ cause' = cause /\ watched' = w /\ w \in Of(m)'
        /\ w \in Open' <=> w \in Open
        /\ w \in Titled' <=> w \in Titled
        /\ w \in presence' <=> w \in presence
    BY <1>3 DEF Spared
  <2>2. w \in Known /\ w \in Known'
    BY <2>1, <1>3 DEF Of
  <2>3. sessions'[w].named <=> sessions[w].named
    BY <2>1, <2>2, Zenon DEF Titled
  <2>4. (Mine(m)' <=> Mine(m)) /\ (Held(m)' <=> Held(m)) /\ (Giving(m)' <=> Giving(m))
    BY <1>3, <2>1 DEF Mine, Up, Held, Giving, Still
  <2>5. Left(m)'
    BY <1>3, <2>1 DEF Left, Still, Up
  <2>6. /\ BeingEnded(m, watched)' <=> BeingEnded(m, watched)
        /\ BeingDropped(m, watched)' <=> BeingDropped(m, watched)
    BY <2>1, <2>3 DEF BeingEnded, BeingDropped, Still
  <2>7. Closed(m) => Closed(m)'
    BY <2>1, <2>4, <2>6 DEF Closed, Beats, Still
  <2>8. Beside(m) => Beside(m)'
    BY <2>1, <2>4, <2>6 DEF Beside, Excused, Still
  <2>9. Dropped(m) => Dropped(m)'
    BY <2>1, <2>6 DEF Dropped
  <2> QED
    BY <1>1, <2>4, <2>5, <2>7, <2>8, <2>9 DEF Kept
<1> QED
  BY <1>2, <1>3

-----------------------------------------------------------------------------
(* The start and the end of a process, for the logger itself.              *)

LEMMA OwnStart ==
  ASSUME SessionTypes, NEW l \in Loggers, Runs(l), Left(l), Start(l)
  PROVE  Runs(l)' /\ Left(l)' /\ Kept(l)'
<1>1. /\ process[l] = "down" /\ process'[l] = "clears"
      /\ UNCHANGED <<sessions, presence, beat, services, tasks, watched, cause>>
  BY DEF SessionTypes, Start, database
<1>2. Runs(l)'
  BY <1>1, TableStays DEF Runs, Up, BeingEnded, services, tasks, NoSession
<1> QED
  BY <1>1, <1>2 DEF Left, Kept, Mine, Up

LEMMA OwnClears ==
  ASSUME SessionTypes, NEW l \in Loggers, Runs(l), Left(l), ClearHeartbeat(l) \/ ClearFails(l)
  PROVE  Runs(l)' /\ Left(l)' /\ Kept(l)'
<1>1. /\ process[l] = "clears" /\ process'[l] = "sweeps"
      /\ UNCHANGED <<sessions, presence, services, tasks, watched>>
      /\ beat'[l].session = beat[l].session
  BY DEF SessionTypes, ClearHeartbeat, ClearFails, ClearedBeat, database, bounds
<1>2. Runs(l)'
  BY <1>1, TableStays DEF Runs, Up, BeingEnded, services, tasks, NoSession
<1>3. ~beat'[l].connected \/ beat'[l].session # watched \/ "undone" \in cause'
  BY DEF SessionTypes, ClearHeartbeat, ClearFails, ClearedBeat, Note, database
<1> QED
  BY <1>1, <1>2, <1>3 DEF Left, Kept, Mine, Up

LEMMA OwnDown ==
  ASSUME SessionTypes, NEW l \in Loggers, Runs(l), Down(l), UNCHANGED sessions,
         beat'[l].session = beat[l].session
  PROVE  Runs(l)' /\ Left(l)' /\ Kept(l)'
<1>1. /\ process'[l] = "down" /\ inserts'[l] = 0 /\ stores'[l] = {} /\ namings'[l] = {}
      /\ queue'[l] = {} /\ endings'[l] = {}
      /\ first'[l] /\ ~connected'[l] /\ ~limbo'[l]
  BY DEF SessionTypes, Down, Reset
<1>2. Runs(l)'
  BY <1>1, TableStays DEF Runs, Up, BeingEnded, NoSession
<1> QED
  BY <1>1, <1>2 DEF Left, Kept, Mine, Up

LEMMA OwnGrowStale ==
  ASSUME SessionTypes, NEW l \in Loggers, Runs(l), Left(l), GrowStale(l)
  PROVE  Runs(l)' /\ Left(l)' /\ Kept(l)'
<1>1. /\ ~Up(l) /\ UNCHANGED <<sessions, process, services, tasks, watched, cause>>
      /\ beat'[l].session = beat[l].session /\ beat[l].connected
  BY DEF SessionTypes, GrowStale, Up, bounds
<1>2. Runs(l)'
  BY <1>1, TableStays DEF Runs, Up, BeingEnded, services, tasks, NoSession
<1> QED
  BY <1>1, <1>2, TableStays DEF Left, Kept, Mine, Up, services

LEMMA OwnShutdown ==
  ASSUME SessionTypes, NEW l \in Loggers, Runs(l), Shutdown(l)
  PROVE  Runs(l)' /\ Left(l)' /\ Kept(l)'
<1>1. /\ process'[l] = "quits" /\ inserts'[l] = 0 /\ stores'[l] = {} /\ namings'[l] = {}
      /\ queue'[l] = {} /\ UNCHANGED <<sessions, beat>>
      /\ first'[l] /\ ~connected'[l] /\ ~limbo'[l]
  BY DEF SessionTypes, Shutdown, Reset, database
<1>2. endings'[l] = BeginEnding(l)
  BY DEF SessionTypes, Shutdown
<1>3. current[l] \in Of(l)
  BY DEF Shutdown, Runs
<1>4. \A e \in endings'[l] : e.id \in Of(l) /\ (e.at = 2 => e.id \notin Open)
  BY <1>2, <1>3 DEF Runs, BeginEnding
<1>5. Runs(l)'
  BY <1>1, <1>4, TableStays DEF Runs, Up, BeingEnded, NoSession
<1> QED
  BY <1>1, <1>5 DEF Left, Kept, Mine, Up

LEMMA OwnOpenFirst ==
  ASSUME SessionTypes, Unborn, NEW l \in Loggers, Runs(l), Left(l), OpenFirst(l)
  PROVE  Runs(l)' /\ Left(l)' /\ Kept(l)'
<1> DEFINE new == Len(sessions) + 1
<1>1. /\ sessions' = Append(sessions, Session(l, FALSE))
      /\ UNCHANGED <<presence, beat, connected, first, limbo, tasks, watched, cause>>
      /\ process[l] = "opens" /\ process'[l] = "up"
  BY DEF SessionTypes, OpenFirst, bounds
<1>2. /\ Len(sessions') = new /\ new \notin Known /\ new \in Nat
      /\ Of(l)' = Of(l) \cup {new} /\ Open' = Open \cup {new}
      /\ \A i \in Known : i < new
  BY <1>1, TableAppend
<1>3. birth'[l] = new /\ current'[l] = new
  BY <1>2 DEF SessionTypes, OpenFirst
<1> HIDE DEF new
<1>4. /\ inserts'[l] = 0 /\ stores'[l] = {} /\ namings'[l] = {} /\ queue'[l] = {}
      /\ first'[l] /\ ~connected'[l] /\ ~limbo'[l] /\ endings'[l] = {}
  BY <1>1 DEF Runs, Up, tasks
<1>5. Runs(l)'
  BY <1>1, <1>2, <1>3, <1>4 DEF Runs, Up, BeingEnded, NoSession
<1>6. Left(l)'
  BY <1>1, <1>2, <1>3 DEF Left, Up
<1>7. ASSUME Mine(l)' PROVE watched = new /\ cause = {}
  <2>1. watched \in Of(l) \cup {new} /\ new <= watched
    BY <1>1, <1>2, <1>3, <1>7 DEF Mine
  <2>2. Of(l) \subseteq Known
    BY TableFacts
  <2> QED
    BY <1>2, <2>1, <2>2 DEF Unborn, SessionTypes
<1>8. ~Giving(l)'
  BY <1>4 DEF Giving
<1>9. Kept(l)'
  BY <1>1, <1>2, <1>3, <1>4, <1>7, <1>8 DEF Kept, Closed, Beside, Dropped, Held, BeingEnded
<1> QED
  BY <1>5, <1>6, <1>9

-----------------------------------------------------------------------------
(* The sweep, for all loggers at once.                                     *)

\* Of a logger that is not running, only the sweep's result is asked.
LEMMA SweeperKept ==
  ASSUME SessionTypes, NEW l \in Loggers, process[l] = "sweeps", Runs(l),
         process' = [process EXCEPT ![l] = AfterSweep(l)],
         UNCHANGED <<beat, services, tasks>>,
         Of(l)' = Of(l), \A i \in Of(l) : i \in Open' => i \in Open,
         watched' = watched,
         watched \in Of(l) \cap Open' => cause' \cap {"spared", "undone"} # {}
  PROVE  Runs(l)' /\ Left(l)' /\ Kept(l)'
<1>1. ~Up(l) /\ process'[l] \in {"opens", "down"}
  BY DEF SessionTypes, Up, AfterSweep
<1>2. Runs(l)'
  BY <1>1 DEF Runs, Up, BeingEnded, services, tasks, NoSession
<1> QED
  BY <1>1, <1>2 DEF Left, Kept, Mine, Up

LEMMA SweepFailsKept ==
  ASSUME SessionTypes, NEW l \in Loggers, SweepFails(l), NEW m \in Loggers,
         Runs(m), Left(m), Kept(m), Still(m) \/ m = l
  PROVE  Runs(m)' /\ Left(m)' /\ Kept(m)'
<1>1. /\ process[l] = "sweeps" /\ process' = [process EXCEPT ![l] = AfterSweep(l)]
      /\ Note("undone", Open)
      /\ UNCHANGED <<sessions, presence, beat, services, tasks, watched>>
  BY DEF SweepFails, database
<1>2. watched \in Open => "undone" \in cause'
  BY <1>1 DEF Note
<1>3. Known' = Known /\ Open' = Open /\ Titled' = Titled /\ Of(m)' = Of(m)
  BY <1>1, TableStays
<1>4. CASE m = l
  <2>1. UNCHANGED <<beat, services, tasks>>
    BY <1>1
  <2> QED
    BY <1>1, <1>2, <1>3, <1>4, <2>1, SweeperKept
<1>5. CASE m # l
  <2>1. Still(m)
    BY <1>5
  <2>2. Runs(m)'
    BY <1>3, <2>1, RunsStay
  <2>3. cause \subseteq cause' /\ \A c : c \in cause' /\ c # "undone" => c \in cause
    BY <1>1 DEF Note
  <2>4. Left(m)'
    BY <1>1, <1>3, <2>1, <2>3 DEF Left, Still, Up
  <2>5. /\ (Mine(m)' <=> Mine(m)) /\ (Held(m)' <=> Held(m)) /\ (Giving(m)' <=> Giving(m))
        /\ (BeingEnded(m, watched)' <=> BeingEnded(m, watched))
        /\ (BeingDropped(m, watched)' <=> BeingDropped(m, watched))
    BY <1>1, <1>3, <2>1 DEF Mine, Up, Held, Giving, BeingEnded, BeingDropped, Still
  <2>6. Closed(m) => Closed(m)'
    BY <1>1, <1>3, <2>1, <2>3, <2>5 DEF Closed, Beats, Still
  <2>7. Beside(m) => Beside(m)'
    BY <1>1, <1>3, <2>1, <2>3, <2>5 DEF Beside, Excused, Still
  <2>8. Dropped(m) => Dropped(m)'
    BY <1>1, <1>3, <2>3, <2>5 DEF Dropped
  <2> QED
    BY <2>2, <2>4, <2>5, <2>6, <2>7, <2>8 DEF Kept
<1> QED
  BY <1>4, <1>5

LEMMA CloseStaleKept ==
  ASSUME SessionTypes, NEW l \in Loggers, CloseStale(l), Left(l),
         \A k \in Loggers : Runs(k),
         NEW m \in Loggers, Left(m), Kept(m), Still(m) \/ m = l
  PROVE  Runs(m)' /\ Left(m)' /\ Kept(m)'
<1>1. PICK recent \in SUBSET (presence \cap Open) :
        /\ sessions' = Without((Open \ recent) \ Heartbeated)
        /\ cause' = cause \cup (IF watched \in (Open \ recent) \ Heartbeated THEN {"stale"} ELSE {})
                          \cup (IF watched \in recent THEN {"spared"} ELSE {})
  BY DEF CloseStale
<1> DEFINE stale == (Open \ recent) \ Heartbeated
<1>2. /\ process[l] = "sweeps" /\ process' = [process EXCEPT ![l] = AfterSweep(l)]
      /\ UNCHANGED <<presence, beat, services, tasks, watched>>
  BY DEF CloseStale, bounds
<1>3. Known' = Known /\ Open' = Open \ stale /\ Titled' = Titled /\ \A k : Of(k)' = Of(k)
  BY <1>1, TableWithout
<1>4. watched \in Open' => watched \in recent \/ watched \in Heartbeated
  BY <1>3
<1>5. /\ cause \subseteq cause'
      /\ watched \in stale <=> (watched \in Open /\ watched \notin Open')
      /\ watched \in stale => "stale" \in cause' /\ watched \notin Heartbeated
      /\ watched \in recent => "spared" \in cause'
      /\ \A c : c \in cause' /\ c # "spared" => c \in cause \/ (c = "stale" /\ watched \in stale)
  BY <1>1, <1>3
<1> HIDE DEF stale
<1>6. CASE m = l
  <2>1. ASSUME watched \in Of(l) \cap Open' PROVE cause' \cap {"spared", "undone"} # {}
    <3>1. CASE watched \in recent
      BY <1>5, <3>1
    <3>2. CASE watched \in Heartbeated
      <4>1. PICK k \in Loggers : beat[k].session = watched /\ beat[k].connected
        BY <3>2 DEF Heartbeated
      <4>2. watched \in Of(k)
        BY <4>1 DEF Runs, SessionTypes, NoSession
      <4>3. k = l
        BY <2>1, <4>2, TableFacts
      <4>4. "undone" \in cause
        BY <1>2, <1>3, <2>1, <4>1, <4>3 DEF Left
      <4> QED
        BY <1>5, <4>4
    <3> QED
      BY <1>4, <2>1, <3>1, <3>2
  <2>2. \A i \in Of(l) : i \in Open' => i \in Open
    BY <1>3
  <2>3. UNCHANGED <<beat, services, tasks>> /\ Runs(l) /\ watched' = watched /\ Of(l)' = Of(l)
    BY <1>2, <1>3
  <2> QED
    BY <1>2, <1>6, <2>1, <2>2, <2>3, SweeperKept
<1>7. CASE m # l
  <2>1. Still(m) /\ \A i \in Of(m) : i \in Open' => i \in Open
    BY <1>3, <1>7
  <2>2. Runs(m)'
    BY <1>3, <2>1, RunsStay
  <2>3. Left(m)'
    BY <1>2, <1>3, <1>5, <2>1 DEF Left, Still, Up
  <2>4. /\ (Mine(m)' <=> Mine(m)) /\ (Held(m)' <=> Held(m)) /\ (Giving(m)' <=> Giving(m))
        /\ (BeingEnded(m, watched)' <=> BeingEnded(m, watched)) /\ (Beats(m)' <=> Beats(m))
    BY <1>2, <1>3, <2>1 DEF Mine, Up, Held, Giving, BeingEnded, Beats, Still
  <2>5. watched \in stale => ~Beats(m)
    BY <1>5 DEF Heartbeated, Beats
  <2>6. Closed(m) => Closed(m)'
    BY <1>2, <1>3, <1>5, <2>1, <2>4, <2>5 DEF Closed, Still
  <2>7. Beside(m) => Beside(m)'
    BY <1>2, <1>3, <1>5, <2>1, <2>4 DEF Beside, Excused, Still
  <2>8. Dropped(m) /\ Mine(m) => Dropped(m)'
    <3>1. ASSUME Mine(m), BeingDropped(m, watched) PROVE BeingDropped(m, watched)'
      <4>1. watched \in Known /\ watched \in Known' /\ watched' = watched
        BY <1>2, <1>3, <3>1 DEF Mine, Of
      <4>2. sessions'[watched].named <=> sessions[watched].named
        BY <1>3, <4>1, Zenon DEF Titled
      <4> QED
        BY <2>1, <2>4, <3>1, <4>1, <4>2 DEF BeingDropped, Still
    <3> QED
      BY <1>2, <1>3, <1>5, <3>1 DEF Dropped
  <2> QED
    BY <2>2, <2>3, <2>4, <2>6, <2>7, <2>8 DEF Kept
<1> QED
  BY <1>6, <1>7

-----------------------------------------------------------------------------
(* The events of the game, for the logger itself.                          *)

\* Of a logger that is up and stays it, little is left to ask.
LEMMA LeftUp ==
  ASSUME NEW l \in Loggers, Left(l), Up(l), UNCHANGED <<process, birth, watched>>,
         watched \in Of(l)' \cap Open' => watched \in Of(l) \cap Open \/ birth[l] <= watched,
         cause \cap {"spared", "undone"} \subseteq cause',
         SessionTypes
  PROVE  Left(l)'
BY DEF Left, Up, SessionTypes

\* BeginEnding, in terms of which session is being ended.
LEMMA BeginEndingFacts ==
  ASSUME SessionTypes, NEW l \in Loggers
  PROVE  /\ \A e \in BeginEnding(l) : e \in endings[l] \/ (e.id = current[l] /\ e.at = 1)
         /\ endings[l] \subseteq BeginEnding(l)
         /\ \E e \in BeginEnding(l) : e.id = current[l]
<1> DEFINE e1 == [id |-> current[l], at |-> 1]
<1>1. e1.id = current[l] /\ e1.at = 1
  OBVIOUS
<1> HIDE DEF e1
<1>2. CASE BeingEnded(l, current[l])
  <2>1. BeginEnding(l) = endings[l]
    BY <1>2 DEF BeginEnding
  <2>2. \E e \in endings[l] : e.id = current[l]
    BY <1>2 DEF BeingEnded
  <2> QED
    BY <2>1, <2>2
<1>3. CASE ~BeingEnded(l, current[l])
  <2>1. BeginEnding(l) = endings[l] \cup {e1}
    BY <1>3 DEF BeginEnding, e1
  <2> QED
    BY <1>1, <2>1
<1> QED
  BY <1>2, <1>3

LEMMA OwnLogin ==
  ASSUME SessionTypes, NEW l \in Loggers, Runs(l), Left(l), Kept(l), Login(l)
  PROVE  Runs(l)' /\ Left(l)' /\ Kept(l)'
<1>1. /\ Up(l) /\ ~connected[l] /\ connected'[l] /\ ~first'[l]
      /\ UNCHANGED <<database, process, birth, current, limbo, stores, namings, endings,
                     queue, watched, cause>>
  BY DEF SessionTypes, Login, bounds
<1>2. inserts[l] \in Nat /\ inserts'[l] \in Nat
      /\ (first[l] => inserts'[l] = inserts[l]) /\ (~first[l] => inserts'[l] > 0)
      /\ (inserts[l] > 0 => inserts'[l] > 0)
  <2>1. inserts \in [Loggers -> Nat]
    BY DEF SessionTypes
  <2>2. \/ first[l] /\ inserts' = inserts
        \/ ~first[l] /\ inserts' = [inserts EXCEPT ![l] = @ + 1]
    BY Zenon DEF Login
  <2>3. CASE first[l] /\ inserts' = inserts
    BY <2>1, <2>3
  <2>4. CASE ~first[l] /\ inserts' = [inserts EXCEPT ![l] = @ + 1]
    <3>1. inserts'[l] = inserts[l] + 1
      BY <2>1, <2>4
    <3> QED
      BY <2>1, <2>4, <3>1
  <2> QED
    BY <2>2, <2>3, <2>4
<1>3. Known' = Known /\ Open' = Open /\ Titled' = Titled /\ Of(l)' = Of(l)
  BY <1>1, TableStays DEF database
<1>4. Runs(l)'
  BY <1>1, <1>3 DEF Runs, Up, BeingEnded, NoSession, database
<1>5. Left(l)'
  BY <1>1, <1>3, LeftUp
<1>6. (Mine(l)' => Mine(l)) /\ (Held(l)' <=> Held(l)) /\ (Giving(l) => Giving(l)')
  BY <1>1, <1>2, <1>3 DEF Mine, Up, Held, Giving
<1>7. Giving(l)' => Giving(l)
  BY <1>1, <1>2, <1>3 DEF Giving
<1>8. /\ BeingEnded(l, watched)' <=> BeingEnded(l, watched)
      /\ BeingDropped(l, watched)' <=> BeingDropped(l, watched)
      /\ Beats(l)' <=> Beats(l)
  BY <1>1 DEF BeingEnded, BeingDropped, Beats, database
<1>9. Closed(l) => Closed(l)'
  BY <1>1, <1>3, <1>6, <1>8 DEF Closed
<1>10. Beside(l) => Beside(l)'
  BY <1>1, <1>3, <1>6, <1>7, <1>8 DEF Beside, Excused
<1>11. Dropped(l) => Dropped(l)'
  BY <1>1, <1>3, <1>8 DEF Dropped, database
<1> QED
  BY <1>4, <1>5, <1>6, <1>9, <1>10, <1>11 DEF Kept

LEMMA OwnSpawn ==
  ASSUME SessionTypes, NEW l \in Loggers, Runs(l), Left(l), Kept(l), Spawn(l)
  PROVE  Runs(l)' /\ Left(l)' /\ Kept(l)'
<1>1. /\ Up(l) /\ Note("raced", stores[l])
      /\ UNCHANGED <<database, process, services, inserts, stores, endings, queue, watched>>
  BY DEF Spawn, bounds
<1>2. namings'[l] = namings[l] \cup {[id |-> current[l], at |-> 1]}
  BY DEF SessionTypes, Spawn
<1>3. Known' = Known /\ Open' = Open /\ Titled' = Titled /\ Of(l)' = Of(l)
  BY <1>1, TableStays DEF database
<1>4. Runs(l)'
  BY <1>1, <1>2, <1>3 DEF Runs, Up, BeingEnded, NoSession, database, services
<1>5. /\ cause \subseteq cause' /\ (watched \in stores[l] => "raced" \in cause')
      /\ \A c : c \in cause' /\ c # "raced" => c \in cause
  BY <1>1 DEF Note
<1>6. Left(l)'
  BY <1>1, <1>3, <1>5, LeftUp DEF services
<1>7. (Mine(l)' <=> Mine(l)) /\ (Held(l)' <=> Held(l)) /\ (Giving(l)' <=> Giving(l))
  BY <1>1, <1>3 DEF Mine, Up, Held, Giving, services
<1>8. /\ BeingEnded(l, watched)' <=> BeingEnded(l, watched)
      /\ BeingDropped(l, watched) => BeingDropped(l, watched)'
      /\ Beats(l)' <=> Beats(l)
  BY <1>1, <1>2 DEF BeingEnded, BeingDropped, Beats, database
<1>9. ASSUME Held(l), \E n \in namings'[l] : n.id # watched
      PROVE  watched \in stores[l] \/ \E n \in namings[l] : n.id # watched
  BY <1>2, <1>9 DEF Held
<1>10. Closed(l) => Closed(l)'
  BY <1>1, <1>3, <1>5, <1>7, <1>8, <1>9 DEF Closed, services
<1>11. Beside(l) => Beside(l)'
  BY <1>1, <1>3, <1>5, <1>7, <1>8 DEF Beside, Excused, services
<1>12. Dropped(l) => Dropped(l)'
  BY <1>1, <1>3, <1>5, <1>8 DEF Dropped, database
<1> QED
  BY <1>4, <1>6, <1>7, <1>10, <1>11, <1>12 DEF Kept

LEMMA OwnDisconnect ==
  ASSUME SessionTypes, NEW l \in Loggers, Runs(l), Left(l), Kept(l), Disconnect(l)
  PROVE  Runs(l)' /\ Left(l)' /\ Kept(l)'
<1>1. /\ Up(l) /\ Note("early", IF first[l] THEN {current[l]} ELSE {})
      /\ UNCHANGED <<database, process, birth, current, first, limbo, inserts, stores,
                     namings, queue, watched>>
  BY DEF Disconnect, bounds
<1>2. ~connected'[l] /\ endings'[l] = BeginEnding(l)
  BY DEF SessionTypes, Disconnect, EndOnDisconnect
<1>3. Known' = Known /\ Open' = Open /\ Titled' = Titled /\ Of(l)' = Of(l)
  BY <1>1, TableStays DEF database
<1>4. /\ \A e \in endings'[l] : e \in endings[l] \/ (e.id = current[l] /\ e.at = 1)
      /\ endings[l] \subseteq endings'[l]
      /\ \E e \in endings'[l] : e.id = current[l]
  BY <1>2, BeginEndingFacts
<1>5. Runs(l)'
  BY <1>1, <1>2, <1>3, <1>4 DEF Runs, Up, BeingEnded, NoSession, database
<1>6. /\ cause \subseteq cause' /\ (first[l] /\ watched = current[l] => "early" \in cause')
      /\ \A c : c \in cause' /\ c # "early" => c \in cause
  BY <1>1 DEF Note
<1>7. Left(l)'
  BY <1>1, <1>3, <1>6, LeftUp
<1>8. (Mine(l)' <=> Mine(l)) /\ (Held(l)' <=> Held(l)) /\ (Giving(l) => Giving(l)')
  BY <1>1, <1>2, <1>3 DEF Mine, Up, Held, Giving
<1>9. /\ BeingEnded(l, watched)' <=> BeingEnded(l, watched) \/ watched = current[l]
      /\ BeingDropped(l, watched) => BeingDropped(l, watched)'
      /\ Beats(l)' <=> Beats(l)
  BY <1>1, <1>4 DEF BeingEnded, BeingDropped, Beats, database
<1>10. (~first[l] => Giving(l)') /\ (first[l] /\ Giving(l)' => Giving(l))
  BY <1>1, <1>2 DEF Giving
<1>11. Closed(l) => Closed(l)'
  BY <1>1, <1>3, <1>6, <1>8, <1>9, <1>10 DEF Closed
<1>12. Beside(l) => Beside(l)'
  BY <1>1, <1>3, <1>6, <1>8, <1>9, <1>10 DEF Beside, Excused
<1>13. Dropped(l) => Dropped(l)'
  BY <1>1, <1>3, <1>6, <1>9 DEF Dropped, database
<1> QED
  BY <1>5, <1>7, <1>8, <1>11, <1>12, <1>13 DEF Kept

LEMMA OwnEnterQueue ==
  ASSUME SessionTypes, NEW l \in Loggers, Runs(l), Left(l), Kept(l), EnterQueue(l)
  PROVE  Runs(l)' /\ Left(l)' /\ Kept(l)'
<1>1. /\ Up(l) /\ connected[l]
      /\ UNCHANGED <<database, process, birth, current, connected, first, inserts, stores,
                     namings, queue, watched, cause>>
  BY DEF EnterQueue, bounds
<1>2. limbo'[l] /\ endings'[l] = BeginEnding(l)
  BY DEF SessionTypes, EnterQueue
<1>3. Known' = Known /\ Open' = Open /\ Titled' = Titled /\ Of(l)' = Of(l)
  BY <1>1, TableStays DEF database
<1>4. /\ \A e \in endings'[l] : e \in endings[l] \/ (e.id = current[l] /\ e.at = 1)
      /\ endings[l] \subseteq endings'[l]
      /\ \E e \in endings'[l] : e.id = current[l]
  BY <1>2, BeginEndingFacts
<1>5. Runs(l)'
  BY <1>1, <1>2, <1>3, <1>4 DEF Runs, Up, BeingEnded, NoSession, database
<1>6. Left(l)'
  BY <1>1, <1>3, LeftUp
<1>7. (Mine(l)' <=> Mine(l)) /\ (Held(l)' <=> Held(l)) /\ Giving(l)'
  BY <1>1, <1>2, <1>3 DEF Mine, Up, Held, Giving
<1>8. /\ BeingEnded(l, watched)' <=> BeingEnded(l, watched) \/ watched = current[l]
      /\ BeingDropped(l, watched) => BeingDropped(l, watched)'
  BY <1>1, <1>4 DEF BeingEnded, BeingDropped, database
<1>9. Closed(l) => Closed(l)'
  BY <1>1, <1>3, <1>7, <1>8 DEF Closed
<1>10. Beside(l) => Beside(l)'
  BY <1>1, <1>3, <1>7, <1>8 DEF Beside, Excused
<1>11. Dropped(l) => Dropped(l)'
  BY <1>1, <1>3, <1>8 DEF Dropped, database
<1> QED
  BY <1>5, <1>6, <1>7, <1>9, <1>10, <1>11 DEF Kept

LEMMA OwnLeaveQueue ==
  ASSUME SessionTypes, NEW l \in Loggers, Runs(l), Left(l), Kept(l), LeaveQueue(l)
  PROVE  Runs(l)' /\ Left(l)' /\ Kept(l)'
<1>1. /\ Up(l) /\ connected[l] /\ limbo[l]
      /\ UNCHANGED <<database, process, birth, current, connected, first, stores, namings,
                     endings, queue, watched, cause>>
  BY DEF LeaveQueue, bounds
<1>2. ~limbo'[l] /\ inserts'[l] > 0
  BY DEF SessionTypes, LeaveQueue
<1>3. Known' = Known /\ Open' = Open /\ Titled' = Titled /\ Of(l)' = Of(l)
  BY <1>1, TableStays DEF database
<1>4. Runs(l)'
  BY <1>1, <1>2, <1>3 DEF Runs, Up, BeingEnded, NoSession, database
<1>5. Left(l)'
  BY <1>1, <1>3, LeftUp
<1>6. (Mine(l)' <=> Mine(l)) /\ (Held(l)' <=> Held(l)) /\ Giving(l) /\ Giving(l)'
  BY <1>1, <1>2, <1>3 DEF Mine, Up, Held, Giving
<1>7. /\ BeingEnded(l, watched)' <=> BeingEnded(l, watched)
      /\ BeingDropped(l, watched)' <=> BeingDropped(l, watched)
  BY <1>1 DEF BeingEnded, BeingDropped, database
<1>8. Closed(l) => Closed(l)'
  BY <1>1, <1>3, <1>6, <1>7 DEF Closed
<1>9. Beside(l) => Beside(l)'
  BY <1>1, <1>3, <1>6, <1>7 DEF Beside, Excused
<1>10. Dropped(l) => Dropped(l)'
  BY <1>1, <1>3, <1>7 DEF Dropped, database
<1> QED
  BY <1>4, <1>5, <1>6, <1>8, <1>9, <1>10 DEF Kept

LEMMA OwnSee ==
  ASSUME SessionTypes, NEW l \in Loggers, Runs(l), Left(l), Kept(l), See(l)
  PROVE  Runs(l)' /\ Left(l)' /\ Kept(l)'
<1>1. /\ Up(l)
      /\ UNCHANGED <<database, process, services, inserts, stores, namings, endings,
                     watched, cause>>
  BY DEF See, bounds
<1>2. queue'[l] = queue[l] \cup {current[l]}
  BY DEF SessionTypes, See
<1>3. Known' = Known /\ Open' = Open /\ Titled' = Titled /\ Of(l)' = Of(l)
  BY <1>1, TableStays DEF database
<1>4. Runs(l)'
  BY <1>1, <1>2, <1>3 DEF Runs, Up, BeingEnded, NoSession, database, services
<1>5. Left(l)'
  BY <1>1, <1>3, LeftUp DEF services
<1>6. Kept(l)'
  BY <1>1, <1>3 DEF Kept, Mine, Up, Closed, Beside, Dropped, Held, Giving, Beats, Excused,
                    BeingEnded, BeingDropped, database, services
<1> QED
  BY <1>4, <1>5, <1>6

-----------------------------------------------------------------------------
(* The statements of the handlers, for the logger itself.                  *)

LEMMA NamedFacts ==
  ASSUME SessionTypes, NEW l \in Loggers, NEW n \in namings[l], Named(l, n)
  PROVE  /\ \A p \in namings'[l] : \E q \in namings[l] : q.id = p.id
         /\ \A p \in namings[l] : p # n => p \in namings'[l]
         /\ n.at = 2 => \E p \in namings'[l] : p.at = 3
<1>1. namings \in [Loggers -> SUBSET Call] /\ n \in Call
  BY DEF SessionTypes
<1> DEFINE next == [n EXCEPT !.at = @ + 1]
<1>2. next.id = n.id /\ next.at = n.at + 1
  BY <1>1 DEF Call
<1>3. namings'[l] = (namings[l] \ {n}) \cup (IF n.at < 3 THEN {next} ELSE {})
  BY <1>1 DEF Named
<1> HIDE DEF next
<1> QED
  BY <1>1, <1>2, <1>3

LEMMA EndedFacts ==
  ASSUME SessionTypes, NEW l \in Loggers, NEW e \in endings[l], Ended(l, e)
  PROVE  /\ \A p \in endings'[l] : p \in endings[l] \/ (e.at = 1 /\ p.id = e.id /\ p.at = 2)
         /\ \A p \in endings[l] : p # e => p \in endings'[l]
         /\ e.at = 1 => \E p \in endings'[l] : p.id = e.id
<1>1. endings \in [Loggers -> SUBSET Call] /\ e \in Call
  BY DEF SessionTypes
<1> DEFINE next == [e EXCEPT !.at = 2]
<1>2. next.id = e.id /\ next.at = 2
  BY <1>1 DEF Call
<1>3. endings'[l] = (endings[l] \ {e}) \cup (IF e.at = 1 THEN {next} ELSE {})
  BY <1>1 DEF Ended
<1> HIDE DEF next
<1> QED
  BY <1>1, <1>2, <1>3

LEMMA OwnInsert ==
  ASSUME SessionTypes, Unborn, NEW l \in Loggers, Runs(l), Left(l), Kept(l), Insert(l)
  PROVE  Runs(l)' /\ Left(l)' /\ Kept(l)'
<1> DEFINE new == Len(sessions) + 1
           live == {i \in (stores[l] \cup {current[l]}) \cap Open : ~BeingEnded(l, i)}
<1>1. /\ inserts[l] > 0 /\ sessions' = Append(sessions, Session(l, TRUE))
      /\ UNCHANGED <<presence, beat, process, services, namings, endings, queue, watched>>
      /\ cause' = cause
           \cup (IF watched = new /\ namings[l] # {} THEN {"raced"} ELSE {})
           \cup (IF watched \in live \/ (watched = new /\ stores[l] # {})
                   THEN {"doubled"} ELSE {})
  BY DEF Insert, bounds
<1>2. /\ new \notin Known /\ new \in Nat /\ \A i \in Known : i < new
      /\ Known' = Known \cup {new} /\ Of(l)' = Of(l) \cup {new}
      /\ Open' = Open \cup {new}
  BY <1>1, TableAppend
<1>3. Titled' = Titled \cup {new}
  BY <1>1, TableAppend
<1>4. stores'[l] = stores[l] \cup {new} /\ inserts'[l] = inserts[l] - 1
  BY DEF SessionTypes, Insert
<1>5. /\ cause \subseteq cause'
      /\ \A c : c \in cause' => c \in cause \/ c \in {"raced", "doubled"}
      /\ watched \in live => "doubled" \in cause'
      /\ watched = new /\ namings[l] # {} => "raced" \in cause'
      /\ watched = new /\ stores[l] # {} => "doubled" \in cause'
      /\ watched = new => cause = {}
  BY <1>1, <1>2 DEF Unborn
<1>6. watched \in live <=> watched \in stores[l] \cup {current[l]} /\ watched \in Open
                             /\ ~BeingEnded(l, watched)
  OBVIOUS
<1> HIDE DEF new, live
<1>7. Up(l) /\ current[l] \in Of(l) /\ birth[l] \in Of(l) /\ birth[l] <= current[l]
      /\ Of(l) \subseteq Known
  BY <1>1, TableFacts DEF Runs, SessionTypes
<1>8. birth[l] <= new /\ current[l] # new /\ new \notin stores[l]
      /\ \A e \in endings[l] : e.id # new
      /\ \A n \in namings[l] : n.id # new
  BY <1>2, <1>7 DEF Runs, SessionTypes
<1>9. Runs(l)'
  BY <1>1, <1>2, <1>4, <1>7, <1>8 DEF Runs, Up, BeingEnded, NoSession, services
<1>10. watched \in Of(l)' \cap Open' => watched \in Of(l) \cap Open \/ birth[l] <= watched
  BY <1>2, <1>7, <1>8 DEF Open
<1>11. Left(l)'
  BY <1>1, <1>5, <1>7, <1>10, LeftUp DEF services
<1>12. watched # new => (Mine(l)' <=> Mine(l)) /\ (Held(l)' <=> Held(l))
  BY <1>1, <1>2, <1>4 DEF Mine, Up, Held, services
<1>13. Giving(l) /\ Giving(l)'
  BY <1>1, <1>4 DEF Giving
<1>14. /\ BeingEnded(l, watched)' <=> BeingEnded(l, watched)
       /\ Beats(l)' <=> Beats(l)
  BY <1>1 DEF BeingEnded, Beats
<1>15. CASE watched = new
  <2>1. watched' = watched /\ watched \in Open' /\ watched \in Titled'
    BY <1>1, <1>2, <1>3, <1>15
  <2>2. Closed(l)'
    BY <1>1, <1>5, <1>8, <1>15, <2>1 DEF Closed, services
  <2>3. stores'[l] \ {watched} # {} => "doubled" \in cause'
    BY <1>4, <1>5, <1>15
  <2>4. Held(l)'
    BY <1>4, <1>15, <2>1 DEF Held
  <2>5. Beside(l)'
    BY <2>1, <2>3, <2>4 DEF Beside
  <2> QED
    BY <1>9, <1>11, <2>1, <2>2, <2>5 DEF Kept, Dropped
<1>16. CASE watched # new
  <2>1. /\ watched' = watched
        /\ watched \in Open' <=> watched \in Open
        /\ watched \in Titled' <=> watched \in Titled
    BY <1>1, <1>2, <1>3, <1>16
  <2>2. watched \in stores'[l] <=> watched \in stores[l]
    BY <1>4, <1>16
  <2>3. Closed(l) => Closed(l)'
    BY <1>1, <1>5, <1>12, <1>13, <1>14, <1>16, <2>1, <2>2 DEF Closed, services
  <2>4. Held(l) /\ watched \in Open => BeingEnded(l, watched) \/ "doubled" \in cause'
    BY <1>5, <1>6 DEF Held
  <2>5. Beside(l) => Beside(l)'
    BY <1>1, <1>5, <1>12, <1>13, <1>14, <1>16, <2>1, <2>4 DEF Beside, Excused, services
  <2>6. ASSUME Mine(l), BeingDropped(l, watched) PROVE BeingDropped(l, watched)'
    <3>1. watched \in Known /\ watched \in Known' /\ watched' = watched
      BY <1>2, <1>7, <2>1, <2>6 DEF Mine
    <3>2. sessions'[watched].named <=> sessions[watched].named
      BY <2>1, <3>1, Zenon DEF Titled
    <3> QED
      BY <1>1, <1>14, <2>6, <3>1, <3>2 DEF BeingDropped
  <2>7. Mine(l) /\ Dropped(l) => Dropped(l)'
    BY <1>1, <1>5, <2>1, <2>6 DEF Dropped
  <2> QED
    BY <1>9, <1>11, <1>12, <1>16, <2>3, <2>5, <2>7 DEF Kept
<1> QED
  BY <1>15, <1>16

LEMMA OwnStore ==
  ASSUME SessionTypes, NEW l \in Loggers, Runs(l), Left(l), Kept(l), Store(l)
  PROVE  Runs(l)' /\ Left(l)' /\ Kept(l)'
<1>1. PICK id \in stores[l] :
        /\ stores' = [stores EXCEPT ![l] = @ \ {id}]
        /\ current' = [current EXCEPT ![l] = id]
  BY DEF Store
<1>2. UNCHANGED <<database, process, birth, connected, first, limbo, inserts, namings,
                  endings, queue, watched, cause>>
  BY DEF Store, bounds
<1>3. stores'[l] = stores[l] \ {id} /\ current'[l] = id
  BY <1>1 DEF SessionTypes
<1>4. Known' = Known /\ Open' = Open /\ Titled' = Titled /\ Of(l)' = Of(l)
  BY <1>2, TableStays DEF database
<1>5. Up(l) /\ id \in Of(l) /\ birth[l] <= id /\ ~BeingEnded(l, id) /\ id # current[l]
      /\ current[l] \notin stores[l]
  BY DEF Runs
<1>6. Runs(l)'
  BY <1>2, <1>3, <1>4, <1>5 DEF Runs, Up, BeingEnded, NoSession, database
<1>7. Left(l)'
  BY <1>2, <1>4, <1>5, LeftUp
<1>8. (Mine(l)' <=> Mine(l)) /\ (Held(l)' => Held(l)) /\ Giving(l)
  BY <1>2, <1>3, <1>4 DEF Mine, Up, Held, Giving
<1>9. /\ BeingEnded(l, watched)' <=> BeingEnded(l, watched)
      /\ BeingDropped(l, watched)' <=> BeingDropped(l, watched)
  BY <1>2 DEF BeingEnded, BeingDropped, database
<1>10. Closed(l) => Closed(l)'
  BY <1>2, <1>3, <1>4, <1>5, <1>8, <1>9 DEF Closed
<1>11. ASSUME Held(l), ~Held(l)' PROVE stores[l] \ {watched} # {}
  BY <1>2, <1>3, <1>11 DEF Held
<1>12. Beside(l) => Beside(l)'
  BY <1>2, <1>3, <1>4, <1>8, <1>9, <1>11 DEF Beside, Excused
<1>13. Dropped(l) => Dropped(l)'
  BY <1>2, <1>4, <1>9 DEF Dropped, database
<1> QED
  BY <1>6, <1>7, <1>8, <1>10, <1>12, <1>13 DEF Kept

LEMMA OwnName ==
  ASSUME SessionTypes, NEW l \in Loggers, Runs(l), Left(l), Kept(l), NameSession(l)
  PROVE  Runs(l)' /\ Left(l)' /\ Kept(l)'
<1>1. PICK n \in namings[l] :
        n.at = 1 /\ Named(l, n) /\ sessions' = [sessions EXCEPT ![n.id].named = TRUE]
  BY DEF NameSession
<1>2. UNCHANGED <<presence, beat, process, services, inserts, stores, endings, queue,
                  watched, cause>>
  BY DEF NameSession, bounds
<1>3. n.id \in Known /\ Of(l) \subseteq Known /\ Up(l)
  BY TableFacts DEF Runs
<1>4. Known' = Known /\ Open' = Open /\ Titled' = Titled \cup {n.id} /\ Of(l)' = Of(l)
  BY <1>1, <1>3, TableNamed
<1>5. /\ \A p \in namings'[l] : \E q \in namings[l] : q.id = p.id
      /\ \A p \in namings[l] : p # n => p \in namings'[l]
  BY <1>1, NamedFacts
<1>6. Runs(l)'
  BY <1>2, <1>3, <1>4, <1>5 DEF Runs, Up, BeingEnded, NoSession, services
<1>7. Left(l)'
  BY <1>2, <1>3, <1>4, LeftUp DEF services
<1>8. (Mine(l)' <=> Mine(l)) /\ (Held(l)' <=> Held(l)) /\ (Giving(l)' <=> Giving(l))
  BY <1>2, <1>4 DEF Mine, Up, Held, Giving, services
<1>9. (BeingEnded(l, watched)' <=> BeingEnded(l, watched)) /\ (Beats(l)' <=> Beats(l))
  BY <1>2 DEF BeingEnded, Beats
<1>10. (\E p \in namings'[l] : p.id # watched) => \E q \in namings[l] : q.id # watched
  BY <1>5
<1>11. Closed(l) => Closed(l)'
  BY <1>2, <1>4, <1>8, <1>9, <1>10 DEF Closed, services
<1>12. Beside(l) => Beside(l)'
  BY <1>2, <1>4, <1>8, <1>9 DEF Beside, Excused, services
<1>13. ASSUME Mine(l), BeingDropped(l, watched) PROVE BeingDropped(l, watched)'
  <2>1. watched \in Known /\ watched \in Known' /\ watched' = watched
    BY <1>2, <1>3, <1>4, <1>13 DEF Mine
  <2>2. sessions[watched].named => sessions'[watched].named
    BY <1>4, <2>1, Zenon DEF Titled
  <2>3. (\E p \in namings[l] : p.at = 3) => \E p \in namings'[l] : p.at = 3
    BY <1>1, <1>5
  <2> QED
    BY <1>9, <1>13, <2>1, <2>2, <2>3 DEF BeingDropped
<1>14. Mine(l) /\ Dropped(l) => Dropped(l)'
  BY <1>2, <1>4, <1>13 DEF Dropped
<1> QED
  BY <1>6, <1>7, <1>8, <1>11, <1>12, <1>14 DEF Kept

LEMMA OwnSupersede ==
  ASSUME SessionTypes, NEW l \in Loggers, Runs(l), Left(l), Kept(l), SupersedeOthers(l)
  PROVE  Runs(l)' /\ Left(l)' /\ Kept(l)'
<1>1. PICK n \in namings[l] :
        /\ n.at = 2 /\ Named(l, n) /\ sessions' = Without(Superseded(l, n.id))
        /\ cause' = (IF watched \in Of(l) \ {n.id} THEN cause \ {"doubled"} ELSE cause)
             \cup (IF watched \in Open \cap Superseded(l, n.id) THEN {"superseded"} ELSE {})
  BY DEF SupersedeOthers
<1>2. UNCHANGED <<presence, beat, process, services, inserts, stores, endings, queue, watched>>
  BY DEF SupersedeOthers, bounds
<1>3. Of(l) \subseteq Known /\ Up(l)
  BY TableFacts DEF Runs
<1>4. /\ Known' = Known /\ Open' = Open \ Superseded(l, n.id) /\ Titled' = Titled
      /\ Of(l)' = Of(l)
  BY <1>1, TableWithout
<1>5. /\ \A p \in namings'[l] : \E q \in namings[l] : q.id = p.id
      /\ \A p \in namings[l] : p # n => p \in namings'[l]
      /\ \E p \in namings'[l] : p.at = 3
  BY <1>1, NamedFacts
<1>6. watched \in Of(l) =>
        (watched \in Superseded(l, n.id) <=> watched # n.id /\ watched \in Titled)
  BY <1>3 DEF Superseded, Titled
<1>7. /\ \A c \in cause : c # "doubled" => c \in cause'
      /\ watched = n.id /\ "doubled" \in cause => "doubled" \in cause'
      /\ watched \in Open /\ watched \notin Open' => "superseded" \in cause'
      /\ \A c \in cause' : c \in cause \/
           (c = "superseded" /\ watched \in Superseded(l, n.id))
  BY <1>1, <1>4
<1>8. Runs(l)'
  BY <1>2, <1>3, <1>4, <1>5 DEF Runs, Up, BeingEnded, NoSession, services
<1>9. Left(l)'
  <2>1. cause \cap {"spared", "undone"} \subseteq cause'
    BY <1>7
  <2> QED
    BY <1>2, <1>3, <1>4, <2>1, LeftUp DEF services
<1>10. (Mine(l)' <=> Mine(l)) /\ (Held(l)' <=> Held(l)) /\ (Giving(l)' <=> Giving(l))
  BY <1>2, <1>4 DEF Mine, Up, Held, Giving, services
<1>11. (BeingEnded(l, watched)' <=> BeingEnded(l, watched)) /\ (Beats(l)' <=> Beats(l))
  BY <1>2 DEF BeingEnded, Beats
<1>12. (\E p \in namings'[l] : p.id # watched) => \E q \in namings[l] : q.id # watched
  BY <1>5
<1>13. watched \in Superseded(l, n.id) => \E q \in namings[l] : q.id # watched
  BY DEF Superseded
<1>14. Closed(l) => Closed(l)'
  BY <1>2, <1>4, <1>7, <1>10, <1>11, <1>12, <1>13 DEF Closed, services
<1>15. Mine(l) /\ Beside(l) => Beside(l)'
  <2>1. Mine(l) => watched \in Of(l)
    BY DEF Mine
  <2>2. Giving(l) \/ stores[l] = {}
    BY DEF Giving
  <2> QED
    BY <1>2, <1>4, <1>6, <1>7, <1>10, <1>11, <2>1, <2>2 DEF Beside, Excused, Held, services
<1>16. ASSUME Mine(l) PROVE BeingDropped(l, watched)' <=>
                              BeingEnded(l, watched) \/ watched \in Titled
  <2>1. watched \in Known /\ watched \in Known' /\ watched' = watched
    BY <1>2, <1>3, <1>4, <1>16 DEF Mine
  <2>2. sessions'[watched].named <=> watched \in Titled
    BY <1>4, <2>1, Zenon DEF Titled
  <2> QED
    BY <1>5, <1>11, <2>1, <2>2 DEF BeingDropped
<1>17. Mine(l) /\ BeingDropped(l, watched) => BeingEnded(l, watched) \/ watched \in Titled
  BY <1>3 DEF Mine, BeingDropped, Titled
<1>18. Mine(l) /\ watched \in Open /\ watched \notin Open' => watched \in Titled
  BY <1>4, <1>6 DEF Mine
<1>19. Mine(l) /\ Dropped(l) => Dropped(l)'
  BY <1>2, <1>4, <1>7, <1>16, <1>17, <1>18 DEF Dropped
<1> QED
  BY <1>8, <1>9, <1>10, <1>14, <1>15, <1>19 DEF Kept

LEMMA OwnDropSuperseded ==
  ASSUME SessionTypes, NEW l \in Loggers, Runs(l), Left(l), Kept(l), DropSuperseded(l)
  PROVE  Runs(l)' /\ Left(l)' /\ Kept(l)'
<1>1. PICK n \in namings[l] :
        n.at = 3 /\ Named(l, n) /\ presence' = presence \ SupersededPresence(l)
  BY DEF DropSuperseded
<1>2. UNCHANGED <<sessions, beat, process, services, inserts, stores, endings, queue,
                  watched, cause>>
  BY DEF DropSuperseded, bounds
<1>3. Up(l) /\ Of(l) \subseteq Known
  BY TableFacts DEF Runs
<1>4. Known' = Known /\ Open' = Open /\ Titled' = Titled /\ Of(l)' = Of(l)
  BY <1>2, TableStays
<1>5. \A p \in namings'[l] : \E q \in namings[l] : q.id = p.id
  BY <1>1, NamedFacts
<1>6. Runs(l)'
  BY <1>2, <1>3, <1>4, <1>5 DEF Runs, Up, BeingEnded, NoSession, services
<1>7. Left(l)'
  BY <1>2, <1>3, <1>4, LeftUp DEF services
<1>8. (Mine(l)' <=> Mine(l)) /\ (Held(l)' <=> Held(l)) /\ (Giving(l)' <=> Giving(l))
  BY <1>2, <1>4 DEF Mine, Up, Held, Giving, services
<1>9. (BeingEnded(l, watched)' <=> BeingEnded(l, watched)) /\ (Beats(l)' <=> Beats(l))
  BY <1>2 DEF BeingEnded, Beats
<1>10. (\E p \in namings'[l] : p.id # watched) => \E q \in namings[l] : q.id # watched
  BY <1>5
<1>11. Closed(l) => Closed(l)'
  BY <1>2, <1>4, <1>8, <1>9, <1>10 DEF Closed, services
<1>12. Beside(l) => Beside(l)'
  BY <1>2, <1>4, <1>8, <1>9 DEF Beside, Excused, services
<1>13. ASSUME Mine(l), watched \in presence', watched \notin Open, BeingDropped(l, watched)
       PROVE  BeingEnded(l, watched)
  BY <1>1, <1>3, <1>13 DEF Mine, BeingDropped, SupersededPresence
<1>14. BeingEnded(l, watched)' => BeingDropped(l, watched)'
  BY DEF BeingDropped
<1>15. Mine(l) /\ Dropped(l) => Dropped(l)'
  BY <1>1, <1>2, <1>4, <1>9, <1>13, <1>14 DEF Dropped
<1> QED
  BY <1>6, <1>7, <1>8, <1>11, <1>12, <1>15 DEF Kept

LEMMA LeftStays ==
  ASSUME NEW l \in Loggers, Left(l), UNCHANGED <<process, birth, beat, watched>>,
         Of(l)' = Of(l), watched \in Open' => watched \in Open,
         cause \cap {"spared", "undone"} \subseteq cause'
  PROVE  Left(l)'
BY DEF Left, Up

LEMMA OwnEnd ==
  ASSUME SessionTypes, NEW l \in Loggers, Runs(l), Left(l), Kept(l), EndSession(l)
  PROVE  Runs(l)' /\ Left(l)' /\ Kept(l)'
<1>1. PICK e \in endings[l] :
        e.at = 1 /\ Ended(l, e) /\ sessions' = Without({e.id}) /\ Note("ended", {e.id} \cap Open)
  BY DEF EndSession
<1>2. UNCHANGED <<presence, beat, process, services, inserts, stores, namings, queue, watched>>
  BY DEF EndSession, bounds
<1>3. Of(l) \subseteq Known /\ e.id \in Of(l)
  BY TableFacts DEF Runs
<1>4. Known' = Known /\ Open' = Open \ {e.id} /\ Titled' = Titled /\ Of(l)' = Of(l)
  BY <1>1, TableWithout
<1>5. /\ \A p \in endings'[l] : p \in endings[l] \/ (p.id = e.id /\ p.at = 2)
      /\ \A p \in endings[l] : p # e => p \in endings'[l]
      /\ \E p \in endings'[l] : p.id = e.id
  BY <1>1, EndedFacts
<1>6. \A i : BeingEnded(l, i)' <=> BeingEnded(l, i)
  BY <1>5 DEF BeingEnded
<1>7. \A p \in endings'[l] : p.id \in Of(l) /\ (p.at = 2 => p.id \notin Open')
  BY <1>3, <1>4, <1>5 DEF Runs
<1>8. Runs(l)'
  <2>1. process[l] \in {"up", "quits"}
    BY <1>1 DEF Runs
  <2> QED
    BY <1>2, <1>4, <1>6, <1>7, <2>1 DEF Runs, Up, NoSession, services
<1>9. /\ cause \subseteq cause' /\ \A c \in cause' : c # "ended" => c \in cause
      /\ watched = e.id /\ watched \in Open => "ended" \in cause'
      /\ "ended" \in cause' => "ended" \in cause \/ watched = e.id
  BY <1>1 DEF Note
<1>10. BeingEnded(l, e.id)
  BY DEF BeingEnded
<1>11. e.id \notin stores[l]
  BY <1>10 DEF Runs
<1>12. Left(l)'
  BY <1>2, <1>4, <1>9, LeftStays DEF services
<1>13. (Mine(l)' <=> Mine(l)) /\ (Held(l)' <=> Held(l)) /\ (Giving(l)' <=> Giving(l))
       /\ (Beats(l)' <=> Beats(l))
  BY <1>2, <1>4 DEF Mine, Up, Held, Giving, Beats, services
<1>14. BeingEnded(l, watched)' <=> BeingEnded(l, watched)
  BY <1>2, <1>6 DEF BeingEnded
<1>15. Closed(l) => Closed(l)'
  BY <1>2, <1>4, <1>9, <1>10, <1>11, <1>13, <1>14 DEF Closed, services
<1>16. Beside(l) => Beside(l)'
  BY <1>2, <1>4, <1>9, <1>13, <1>14 DEF Beside, Excused, services
<1>17. ASSUME Mine(l), BeingDropped(l, watched) PROVE BeingDropped(l, watched)'
  <2>1. watched \in Known /\ watched \in Known' /\ watched' = watched
    BY <1>2, <1>3, <1>4, <1>17 DEF Mine
  <2>2. sessions'[watched].named <=> sessions[watched].named
    BY <1>4, <2>1, Zenon DEF Titled
  <2> QED
    BY <1>2, <1>14, <1>17, <2>1, <2>2 DEF BeingDropped
<1>18. watched = e.id => BeingDropped(l, watched)'
  BY <1>10, <1>14 DEF BeingDropped
<1>19. Mine(l) /\ Dropped(l) => Dropped(l)'
  BY <1>2, <1>4, <1>9, <1>17, <1>18 DEF Dropped
<1> QED
  BY <1>8, <1>12, <1>13, <1>15, <1>16, <1>19 DEF Kept

LEMMA OwnDrop ==
  ASSUME SessionTypes, NEW l \in Loggers, Runs(l), Left(l), Kept(l), DropPresence(l)
  PROVE  Runs(l)' /\ Left(l)' /\ Kept(l)'
<1>1. PICK e \in endings[l] : e.at = 2 /\ Ended(l, e) /\ presence' = presence \ {e.id}
  BY DEF DropPresence, PresenceWithout
<1>2. UNCHANGED <<sessions, beat, process, services, inserts, stores, namings, queue,
                  watched, cause>>
  BY DEF DropPresence, bounds
<1>3. Known' = Known /\ Open' = Open /\ Titled' = Titled /\ Of(l)' = Of(l)
  BY <1>2, TableStays
<1>4. /\ \A p \in endings'[l] : p \in endings[l]
      /\ \A p \in endings[l] : p # e => p \in endings'[l]
  BY <1>1, EndedFacts
<1>5. e.id \notin Open
  BY <1>1 DEF Runs
<1>6. Runs(l)'
  <2>1. process[l] \in {"up", "quits"}
    BY <1>1 DEF Runs
  <2> QED
    BY <1>2, <1>3, <1>4, <2>1 DEF Runs, Up, BeingEnded, NoSession, services
<1>7. Left(l)'
  BY <1>2, <1>3, LeftStays DEF services
<1>8. (Mine(l)' <=> Mine(l)) /\ (Held(l)' <=> Held(l)) /\ (Giving(l)' <=> Giving(l))
      /\ (Beats(l)' <=> Beats(l))
  BY <1>2, <1>3 DEF Mine, Up, Held, Giving, Beats, services
<1>9. /\ BeingEnded(l, watched)' => BeingEnded(l, watched)
      /\ BeingEnded(l, watched) /\ watched # e.id => BeingEnded(l, watched)'
  BY <1>2, <1>4 DEF BeingEnded
<1>10. Closed(l) => Closed(l)'
  BY <1>2, <1>3, <1>8, <1>9 DEF Closed, services
<1>11. Beside(l) => Beside(l)'
  BY <1>2, <1>3, <1>5, <1>8, <1>9 DEF Beside, Excused, services
<1>12. ASSUME BeingDropped(l, watched), watched # e.id PROVE BeingDropped(l, watched)'
  BY <1>2, <1>9, <1>12 DEF BeingDropped
<1>13. Dropped(l) => Dropped(l)'
  BY <1>1, <1>2, <1>3, <1>12 DEF Dropped
<1> QED
  BY <1>6, <1>7, <1>8, <1>10, <1>11, <1>13 DEF Kept

LEMMA OwnInsertFails ==
  ASSUME SessionTypes, NEW l \in Loggers, Runs(l), Left(l), Kept(l), InsertFails(l)
  PROVE  Runs(l)' /\ Left(l)' /\ Kept(l)'
<1>1. /\ inserts[l] > 0 /\ Note("refused", {current[l]})
      /\ UNCHANGED <<database, process, services, stores, namings, endings, queue, watched>>
  BY DEF InsertFails
<1>2. inserts'[l] = inserts[l] - 1 /\ inserts[l] \in Nat
  BY DEF SessionTypes, InsertFails
<1>3. Known' = Known /\ Open' = Open /\ Titled' = Titled /\ Of(l)' = Of(l)
  BY <1>1, TableStays DEF database
<1>4. Up(l)
  BY <1>1, <1>2 DEF Runs
<1>5. Runs(l)'
  BY <1>1, <1>2, <1>3, <1>4 DEF Runs, Up, BeingEnded, NoSession, database, services
<1>6. /\ cause \subseteq cause' /\ (watched = current[l] => "refused" \in cause')
      /\ \A c \in cause' : c # "refused" => c \in cause
  BY <1>1 DEF Note
<1>7. Left(l)'
  BY <1>1, <1>3, <1>6, LeftStays DEF database, services
<1>8. (Mine(l)' <=> Mine(l)) /\ (Held(l)' <=> Held(l)) /\ (Giving(l)' => Giving(l))
  BY <1>1, <1>2, <1>3 DEF Mine, Up, Held, Giving, services
<1>9. /\ BeingEnded(l, watched)' <=> BeingEnded(l, watched)
      /\ BeingDropped(l, watched)' <=> BeingDropped(l, watched)
  BY <1>1 DEF BeingEnded, BeingDropped, database
<1>10. Closed(l) => Closed(l)'
  BY <1>1, <1>3, <1>6, <1>8, <1>9 DEF Closed, services
<1>11. Beside(l) => Beside(l)'
  BY <1>1, <1>3, <1>6, <1>8, <1>9 DEF Beside, Excused, services
<1>12. Dropped(l) => Dropped(l)'
  BY <1>1, <1>3, <1>6, <1>9 DEF Dropped, database
<1> QED
  BY <1>5, <1>7, <1>8, <1>10, <1>11, <1>12 DEF Kept

LEMMA OwnNamingFails ==
  ASSUME SessionTypes, NEW l \in Loggers, Runs(l), Left(l), Kept(l), NamingFails(l)
  PROVE  Runs(l)' /\ Left(l)' /\ Kept(l)'
<1>1. /\ namings[l] # {} /\ Note("undone", SupersededPresence(l))
      /\ UNCHANGED <<database, process, services, inserts, stores, endings, queue, watched>>
  BY DEF NamingFails
<1>2. namings'[l] \subseteq namings[l]
  BY DEF SessionTypes, NamingFails
<1>3. Known' = Known /\ Open' = Open /\ Titled' = Titled /\ Of(l)' = Of(l)
  BY <1>1, TableStays DEF database
<1>4. Up(l) /\ Of(l) \subseteq Known
  BY <1>1, TableFacts DEF Runs
<1>5. Runs(l)'
  BY <1>1, <1>2, <1>3, <1>4 DEF Runs, Up, BeingEnded, NoSession, database, services
<1>6. /\ cause \subseteq cause' /\ (watched \in SupersededPresence(l) => "undone" \in cause')
      /\ \A c \in cause' : c # "undone" => c \in cause
  BY <1>1 DEF Note
<1>7. Left(l)'
  BY <1>1, <1>3, <1>6, LeftStays DEF database, services
<1>8. (Mine(l)' <=> Mine(l)) /\ (Held(l)' <=> Held(l)) /\ (Giving(l)' <=> Giving(l))
      /\ (Beats(l)' <=> Beats(l)) /\ (BeingEnded(l, watched)' <=> BeingEnded(l, watched))
  BY <1>1, <1>3 DEF Mine, Up, Held, Giving, Beats, BeingEnded, database, services
<1>9. Closed(l) => Closed(l)'
  BY <1>1, <1>2, <1>3, <1>6, <1>8 DEF Closed, services
<1>10. Beside(l) => Beside(l)'
  BY <1>1, <1>3, <1>6, <1>8 DEF Beside, Excused, services
<1>11. ASSUME Mine(l), watched \notin Open, BeingDropped(l, watched), ~BeingEnded(l, watched)
       PROVE  watched \in SupersededPresence(l)
  BY <1>4, <1>11 DEF Mine, BeingDropped, SupersededPresence
<1>12. BeingEnded(l, watched)' => BeingDropped(l, watched)'
  BY DEF BeingDropped
<1>13. Mine(l) /\ Dropped(l) => Dropped(l)'
  BY <1>1, <1>3, <1>6, <1>8, <1>11, <1>12 DEF Dropped, database
<1> QED
  BY <1>5, <1>7, <1>8, <1>9, <1>10, <1>13 DEF Kept

LEMMA OwnEndingFails ==
  ASSUME SessionTypes, NEW l \in Loggers, Runs(l), Left(l), Kept(l), EndingFails(l)
  PROVE  Runs(l)' /\ Left(l)' /\ Kept(l)'
<1>1. PICK e \in endings[l] :
        endings' = [endings EXCEPT ![l] = @ \ {e}] /\ Note("undone", {e.id})
  BY DEF EndingFails
<1>2. UNCHANGED <<database, process, services, inserts, stores, namings, queue, watched>>
  BY DEF EndingFails
<1>3. Known' = Known /\ Open' = Open /\ Titled' = Titled /\ Of(l)' = Of(l)
  BY <1>2, TableStays DEF database
<1>4. endings'[l] = endings[l] \ {e}
  BY <1>1 DEF SessionTypes
<1>5. Runs(l)'
  <2>1. process[l] \in {"up", "quits"}
    BY <1>1 DEF Runs
  <2> QED
    BY <1>2, <1>3, <1>4, <2>1 DEF Runs, Up, BeingEnded, NoSession, database, services
<1>6. /\ cause \subseteq cause' /\ (watched = e.id => "undone" \in cause')
      /\ \A c \in cause' : c # "undone" => c \in cause
  BY <1>1 DEF Note
<1>7. Left(l)'
  BY <1>2, <1>3, <1>6, LeftStays DEF database, services
<1>8. (Mine(l)' <=> Mine(l)) /\ (Held(l)' <=> Held(l)) /\ (Giving(l)' <=> Giving(l))
      /\ (Beats(l)' <=> Beats(l))
  BY <1>2, <1>3 DEF Mine, Up, Held, Giving, Beats, database, services
<1>9. /\ BeingEnded(l, watched)' => BeingEnded(l, watched)
      /\ BeingEnded(l, watched) /\ watched # e.id => BeingEnded(l, watched)'
  BY <1>2, <1>4 DEF BeingEnded
<1>10. Closed(l) => Closed(l)'
  BY <1>2, <1>3, <1>6, <1>8, <1>9 DEF Closed, services
<1>11. Beside(l) => Beside(l)'
  BY <1>2, <1>3, <1>6, <1>8, <1>9 DEF Beside, Excused, services
<1>12. ASSUME BeingDropped(l, watched), watched # e.id PROVE BeingDropped(l, watched)'
  BY <1>2, <1>9, <1>12 DEF BeingDropped, database
<1>13. Dropped(l) => Dropped(l)'
  BY <1>2, <1>3, <1>6, <1>12 DEF Dropped, database
<1> QED
  BY <1>5, <1>7, <1>8, <1>10, <1>11, <1>13 DEF Kept

LEMMA OwnFlush ==
  ASSUME SessionTypes, NEW l \in Loggers, Runs(l), Left(l), Kept(l), Flush(l)
  PROVE  Runs(l)' /\ Left(l)' /\ Kept(l)'
<1>1. /\ queue[l] # {} /\ presence' = presence \cup queue[l]
      /\ Note("late", {i \in queue[l] \ Open : ~BeingDropped(l, i)})
      /\ UNCHANGED <<sessions, beat, process, services, inserts, stores, namings, endings,
                     watched>>
  BY DEF Flush, bounds
<1>2. Known' = Known /\ Open' = Open /\ Titled' = Titled /\ Of(l)' = Of(l)
  BY <1>1, TableStays
<1>3. queue'[l] = {}
  BY DEF SessionTypes, Flush
<1>4. Runs(l)'
  BY <1>1, <1>2, <1>3 DEF Runs, Up, BeingEnded, NoSession, services
<1>5. /\ cause \subseteq cause' /\ \A c \in cause' : c # "late" => c \in cause
      /\ watched \in queue[l] /\ watched \notin Open /\ ~BeingDropped(l, watched)
           => "late" \in cause'
  BY <1>1 DEF Note
<1>6. Left(l)'
  BY <1>1, <1>2, <1>5, LeftStays DEF services
<1>7. (Mine(l)' <=> Mine(l)) /\ (Held(l)' <=> Held(l)) /\ (Giving(l)' <=> Giving(l))
      /\ (Beats(l)' <=> Beats(l)) /\ (BeingEnded(l, watched)' <=> BeingEnded(l, watched))
      /\ (BeingDropped(l, watched)' <=> BeingDropped(l, watched))
  BY <1>1, <1>2 DEF Mine, Up, Held, Giving, Beats, BeingEnded, BeingDropped, services
<1>8. Closed(l) => Closed(l)'
  BY <1>1, <1>2, <1>5, <1>7 DEF Closed, services
<1>9. Beside(l) => Beside(l)'
  BY <1>1, <1>2, <1>5, <1>7 DEF Beside, Excused, services
<1>10. Dropped(l) => Dropped(l)'
  BY <1>1, <1>2, <1>5, <1>7 DEF Dropped
<1> QED
  BY <1>4, <1>6, <1>7, <1>8, <1>9, <1>10 DEF Kept

LEMMA OwnHeartbeat ==
  ASSUME SessionTypes, NEW l \in Loggers, Runs(l), Left(l), Kept(l), Heartbeat(l)
  PROVE  Runs(l)' /\ Left(l)' /\ Kept(l)'
<1>1. /\ Up(l) /\ Note("beaten", IF connected[l] THEN {current[l]} \cap Open ELSE {})
      /\ UNCHANGED <<sessions, presence, process, services, tasks, watched>>
  BY DEF Heartbeat, bounds
<1>2. /\ beat'[l].session = current[l] /\ beat'[l].fresh
      /\ beat'[l].connected <=> connected[l]
  BY DEF SessionTypes, Heartbeat
<1>3. Known' = Known /\ Open' = Open /\ Titled' = Titled /\ Of(l)' = Of(l)
  BY <1>1, TableStays
<1>4. Runs(l)'
  BY <1>1, <1>2, <1>3 DEF Runs, Up, BeingEnded, NoSession, services, tasks
<1>5. /\ cause \subseteq cause' /\ \A c \in cause' : c # "beaten" => c \in cause
      /\ "beaten" \in cause' =>
           "beaten" \in cause \/ (connected[l] /\ watched = current[l] /\ watched \in Open)
  BY <1>1 DEF Note
<1>6. Left(l)'
  BY <1>1, <1>3, <1>5, LeftUp DEF services
<1>7. (Mine(l)' <=> Mine(l)) /\ (Held(l)' <=> Held(l)) /\ (Giving(l)' <=> Giving(l))
      /\ (BeingEnded(l, watched)' <=> BeingEnded(l, watched))
      /\ (BeingDropped(l, watched)' <=> BeingDropped(l, watched))
  BY <1>1, <1>3 DEF Mine, Up, Held, Giving, BeingEnded, BeingDropped, services, tasks
<1>8. watched = current[l] => (Beats(l)' <=> connected[l])
  BY <1>1, <1>2 DEF Beats
<1>9. connected[l] => ~first[l]
  BY DEF Runs
<1>10. ~connected[l] /\ ~first[l] => Giving(l)
  BY DEF Giving
<1>11. current[l] \notin stores[l]
  BY DEF Runs
<1>12. Closed(l) => Closed(l)'
  BY <1>1, <1>3, <1>5, <1>7, <1>8, <1>9, <1>10, <1>11 DEF Closed, services, tasks
<1>13. Beside(l) => Beside(l)'
  BY <1>1, <1>3, <1>5, <1>7 DEF Beside, Excused, services, tasks
<1>14. Dropped(l) => Dropped(l)'
  BY <1>1, <1>3, <1>5, <1>7 DEF Dropped
<1> QED
  BY <1>4, <1>6, <1>7, <1>12, <1>13, <1>14 DEF Kept

-----------------------------------------------------------------------------
(* What has not been opened yet has no history.                            *)

LEMMA NoteKnown ==
  ASSUME Unborn, NEW c, NEW S, S \subseteq Known, Note(c, S), Known \subseteq Known',
         watched' = watched
  PROVE  Unborn'
BY DEF Unborn, Note

LEMMA UnbornStart ==
  ASSUME SessionTypes, Unborn, NEW l \in Loggers, Runs(l),
         Start(l) \/ ClearHeartbeat(l) \/ CloseStale(l) \/ OpenFirst(l) \/ Crash(l) \/ StartFails(l)
  PROVE  Unborn'
<1>0. Open \subseteq Known /\ Of(l) \subseteq Known
  BY DEF Open, Of
<1>a. ASSUME Down(l), UNCHANGED <<sessions, watched>> PROVE Unborn'
  BY <1>a, TableStays DEF Down, Unborn
<1>1. CASE Start(l) \/ ClearHeartbeat(l)
  BY <1>1, TableStays DEF Start, ClearHeartbeat, Unborn, database, bounds
<1>2. CASE CloseStale(l)
  <2>1. PICK recent \in SUBSET (presence \cap Open) :
          /\ sessions' = Without((Open \ recent) \ Heartbeated)
          /\ cause' = cause
               \cup (IF watched \in (Open \ recent) \ Heartbeated THEN {"stale"} ELSE {})
               \cup (IF watched \in recent THEN {"spared"} ELSE {})
    BY <1>2 DEF CloseStale
  <2>2. Known' = Known /\ watched' = watched
    BY <1>2, <2>1, TableWithout DEF CloseStale, bounds
  <2> QED
    BY <1>0, <2>1, <2>2 DEF Unborn
<1>3. CASE OpenFirst(l)
  <2>1. sessions' = Append(sessions, Session(l, FALSE)) /\ UNCHANGED <<watched, cause>>
    BY <1>3 DEF OpenFirst, bounds
  <2>2. Known \subseteq Known'
    BY <2>1, TableAppend
  <2> QED
    BY <2>1, <2>2 DEF Unborn
<1>4. CASE Crash(l)
  BY <1>a, <1>4 DEF Crash, database, bounds
<1>5. CASE StartFails(l)
  <2>1. CASE ClearFails(l)
    <3>1. Note("undone", {beat[l].session}) /\ UNCHANGED <<sessions, watched>>
      BY <2>1 DEF ClearFails, database
    <3>2. watched \notin Known => watched # beat[l].session
      BY <1>0 DEF Runs, NoSession, SessionTypes
    <3> QED
      BY <3>1, <3>2, TableStays DEF Unborn, Note
  <2>2. CASE SweepFails(l)
    BY <1>0, <2>2, NoteKnown, TableStays DEF SweepFails, database
  <2>3. CASE Leaves(l)
    BY <1>a, <2>3 DEF Leaves, database
  <2> QED
    BY <1>5, <2>1, <2>2, <2>3, StartFailsSplit
<1> QED
  BY <1>1, <1>2, <1>3, <1>4, <1>5

LEMMA UnbornEvents ==
  ASSUME SessionTypes, Unborn, NEW l \in Loggers, Runs(l),
         \/ Login(l) \/ Spawn(l) \/ Disconnect(l) \/ EnterQueue(l) \/ LeaveQueue(l)
         \/ Shutdown(l) \/ See(l)
  PROVE  Unborn'
<1>0. Of(l) \subseteq Known
  BY DEF Of
<1>1. UNCHANGED <<sessions, watched>>
  BY DEF Login, Spawn, Disconnect, EnterQueue, LeaveQueue, Shutdown, See, database, bounds
<1>2. CASE Spawn(l)
  BY <1>0, <1>1, <1>2, NoteKnown, TableStays DEF Spawn, Runs
<1>3. CASE Disconnect(l)
  <2>1. (IF first[l] THEN {current[l]} ELSE {}) \subseteq Known
    BY <1>0, <1>3 DEF Disconnect, Runs
  <2>2. Note("early", IF first[l] THEN {current[l]} ELSE {})
    BY <1>3 DEF Disconnect
  <2> QED
    BY <1>1, <2>1, <2>2, NoteKnown, TableStays
<1>4. CASE ~Spawn(l) /\ ~Disconnect(l)
  <2>1. cause' = cause
    BY <1>4 DEF Login, EnterQueue, LeaveQueue, Shutdown, See
  <2> QED
    BY <1>1, <2>1, TableStays DEF Unborn
<1> QED
  BY <1>2, <1>3, <1>4

LEMMA UnbornCalls ==
  ASSUME SessionTypes, Unborn, NEW l \in Loggers, Runs(l),
         \/ Insert(l) \/ Store(l) \/ NameSession(l) \/ SupersedeOthers(l)
         \/ DropSuperseded(l) \/ EndSession(l) \/ DropPresence(l)
  PROVE  Unborn'
<1>0. Open \subseteq Known /\ Of(l) \subseteq Known
  BY DEF Open, Of
<1>1. CASE Insert(l)
  <2> DEFINE new == Len(sessions) + 1
             live == {i \in (stores[l] \cup {current[l]}) \cap Open : ~BeingEnded(l, i)}
  <2>1. /\ sessions' = Append(sessions, Session(l, TRUE)) /\ watched' = watched
        /\ cause' = cause
             \cup (IF watched = new /\ namings[l] # {} THEN {"raced"} ELSE {})
             \cup (IF watched \in live \/ (watched = new /\ stores[l] # {})
                     THEN {"doubled"} ELSE {})
    BY <1>1 DEF Insert, bounds
  <2>2. Known' = Known \cup {new}
    BY <2>1, TableAppend
  <2>3. live \subseteq Known
    BY <1>0
  <2> HIDE DEF new, live
  <2> QED
    BY <2>1, <2>2, <2>3 DEF Unborn
<1>2. CASE Store(l) \/ DropSuperseded(l) \/ DropPresence(l)
  BY <1>2, TableStays DEF Store, DropSuperseded, DropPresence, Unborn, database, bounds
<1>3. CASE NameSession(l)
  <2>1. PICK n \in namings[l] : sessions' = [sessions EXCEPT ![n.id].named = TRUE]
    BY <1>3 DEF NameSession
  <2>2. n.id \in Known
    BY <1>0 DEF Runs
  <2>3. Known' = Known /\ UNCHANGED <<watched, cause>>
    BY <1>3, <2>1, <2>2, TableNamed DEF NameSession, bounds
  <2> QED
    BY <2>3 DEF Unborn
<1>4. CASE SupersedeOthers(l)
  <2>1. PICK n \in namings[l] :
          /\ sessions' = Without(Superseded(l, n.id))
          /\ cause' = (IF watched \in Of(l) \ {n.id} THEN cause \ {"doubled"} ELSE cause)
               \cup (IF watched \in Open \cap Superseded(l, n.id) THEN {"superseded"} ELSE {})
    BY <1>4 DEF SupersedeOthers
  <2>2. Known' = Known /\ watched' = watched
    BY <1>4, <2>1, TableWithout DEF SupersedeOthers, bounds
  <2> QED
    BY <1>0, <2>1, <2>2 DEF Unborn
<1>5. CASE EndSession(l)
  <2>1. PICK e \in endings[l] : sessions' = Without({e.id}) /\ Note("ended", {e.id} \cap Open)
    BY <1>5 DEF EndSession
  <2>2. Known' = Known /\ watched' = watched
    BY <1>5, <2>1, TableWithout DEF EndSession, bounds
  <2> QED
    BY <1>0, <2>1, <2>2, NoteKnown
<1> QED
  BY <1>1, <1>2, <1>3, <1>4, <1>5

LEMMA UnbornRest ==
  ASSUME SessionTypes, Unborn, NEW l \in Loggers, Runs(l),
         Quit(l) \/ TaskFails(l) \/ Flush(l) \/ Heartbeat(l) \/ GrowStale(l)
  PROVE  Unborn'
<1>0. Open \subseteq Known /\ Of(l) \subseteq Known
  BY DEF Open, Of
<1>a. ASSUME Down(l), UNCHANGED <<sessions, watched>> PROVE Unborn'
  BY <1>a, TableStays DEF Down, Unborn
<1>1. CASE Quit(l)
  BY <1>a, <1>1 DEF Quit, bounds
<1>2. CASE TaskFails(l)
  <2>1. CASE InsertFails(l)
    <3>1. /\ Note("refused", {current[l]}) /\ UNCHANGED <<sessions, watched>>
          /\ current[l] \in Of(l)
      BY <2>1 DEF InsertFails, Runs, SessionTypes, database
    <3> QED
      BY <1>0, <3>1, NoteKnown, TableStays
  <2>2. CASE NamingFails(l)
    <3>1. /\ Note("undone", SupersededPresence(l)) /\ UNCHANGED <<sessions, watched>>
          /\ SupersededPresence(l) \subseteq Of(l)
      BY <2>2 DEF NamingFails, SupersededPresence, database
    <3> QED
      BY <1>0, <3>1, NoteKnown, TableStays
  <2>3. CASE EndingFails(l)
    <3>1. PICK e \in endings[l] : Note("undone", {e.id})
      BY <2>3 DEF EndingFails
    <3>2. e.id \in Of(l) /\ UNCHANGED <<sessions, watched>>
      BY <2>3 DEF EndingFails, Runs, database
    <3> QED
      BY <1>0, <3>1, <3>2, NoteKnown, TableStays
  <2>4. CASE Leaves(l)
    BY <1>a, <2>4 DEF Leaves, database
  <2> QED
    BY <1>2, <2>1, <2>2, <2>3, <2>4, TaskFailsSplit
<1>3. CASE Flush(l)
  <2> DEFINE S == {i \in queue[l] \ Open : ~BeingDropped(l, i)}
  <2>1. Note("late", S) /\ UNCHANGED <<sessions, watched>> /\ S \subseteq Known
    BY <1>0, <1>3 DEF Flush, Runs, bounds
  <2> HIDE DEF S
  <2> QED
    BY <2>1, NoteKnown, TableStays
<1>4. CASE Heartbeat(l)
  <2> DEFINE S == IF connected[l] THEN {current[l]} \cap Open ELSE {}
  <2>1. Note("beaten", S) /\ UNCHANGED <<sessions, watched>> /\ S \subseteq Known
    BY <1>0, <1>4 DEF Heartbeat, bounds
  <2> HIDE DEF S
  <2> QED
    BY <2>1, NoteKnown, TableStays
<1>5. CASE GrowStale(l)
  BY <1>5, TableStays DEF GrowStale, Unborn, bounds
<1> QED
  BY <1>1, <1>2, <1>3, <1>4, <1>5

-----------------------------------------------------------------------------
(* The theorems.                                                           *)

LEMMA SessionsInit == Init => SessionInv
<1> SUFFICES ASSUME Init PROVE SessionInv
  OBVIOUS
<1>1. SessionTypes
  <2>1. sessions \in Seq(Row)
    BY DEF Init
  <2>2. watched \in Nat \ {0}
    BY SessionsAssumption DEF Init, Ids, SessionsAssumption
  <2> QED
    BY <2>1, <2>2 DEF Init, SessionTypes, NoSession
<1>2. Unborn
  BY DEF Init, Unborn
<1>3. ASSUME NEW l \in Loggers PROVE Runs(l) /\ Left(l) /\ Kept(l)
  <2>1. process[l] = "down"
    BY DEF Init
  <2>2. Runs(l)
    BY <2>1 DEF Init, Runs, Up, NoSession, BeingEnded
  <2> QED
    BY <2>1, <2>2 DEF Left, Kept, Mine, Up
<1> QED
  BY <1>1, <1>2, <1>3 DEF SessionInv

LEMMA SessionsStep == SessionInv /\ [Next]_vars => SessionInv'
<1> SUFFICES ASSUME SessionInv, [Next]_vars PROVE SessionInv'
  OBVIOUS
<1>0. /\ SessionTypes /\ Unborn
      /\ \A l \in Loggers : Runs(l) /\ Left(l) /\ Kept(l)
  BY DEF SessionInv
<1>1. CASE UNCHANGED vars
  <2>1. SessionTypes'
    BY <1>0, <1>1 DEF SessionTypes, vars, database, services, tasks, bounds
  <2>2. Unborn'
    BY <1>0, <1>1 DEF Unborn, Known, vars, database, bounds
  <2>3. ASSUME NEW m \in Loggers PROVE Runs(m)' /\ Left(m)' /\ Kept(m)'
    <3>1. Still(m)
      BY <1>1 DEF Still, vars, database, services, tasks
    <3>2. Spared(m)
      BY <1>1, TableStays DEF Spared, vars, database, bounds
    <3> QED
      BY <1>0, <3>1, <3>2, Elsewhere
  <2> QED
    BY <2>1, <2>2, <2>3 DEF SessionInv
<1>2. ASSUME NEW l \in Loggers, SessionTypes', Unborn', Runs(l)' /\ Left(l)' /\ Kept(l)',
             \A m \in Loggers \ {l} : Still(m) /\ Spared(m)
      PROVE  SessionInv'
  <2>1. ASSUME NEW m \in Loggers PROVE Runs(m)' /\ Left(m)' /\ Kept(m)'
    <3>1. CASE m = l
      BY <1>2, <3>1
    <3>2. CASE m # l
      BY <1>0, <1>2, <3>2, Elsewhere
    <3> QED
      BY <3>1, <3>2
  <2> QED
    BY <1>2, <2>1 DEF SessionInv
<1>3. ASSUME NEW l \in Loggers, CloseStale(l) \/ SweepFails(l)  PROVE
             \A m \in Loggers : (Still(m) \/ m = l) => Runs(m)' /\ Left(m)' /\ Kept(m)'
  BY <1>0, <1>3, CloseStaleKept, SweepFailsKept
<1>4. ASSUME NEW l \in Loggers,
             Start(l) \/ ClearHeartbeat(l) \/ CloseStale(l) \/ OpenFirst(l) \/ Crash(l) \/ StartFails(l)
      PROVE  SessionInv'
  <2>1. SessionTypes'
    BY <1>0, <1>4, TypesOfStart
  <2>2. Unborn'
    BY <1>0, <1>4, UnbornStart
  <2>3. \A m \in Loggers \ {l} : Still(m)
    BY <1>0, <1>4, StartStill
  <2>4. CASE CloseStale(l) \/ SweepFails(l)
    <3>1. \A m \in Loggers : Runs(m)' /\ Left(m)' /\ Kept(m)'
      BY <1>3, <2>3, <2>4
    <3> QED
      BY <2>1, <2>2, <3>1 DEF SessionInv
  <2>5. ASSUME \/ Start(l) \/ ClearHeartbeat(l) \/ OpenFirst(l) \/ Crash(l)
               \/ ClearFails(l) \/ Leaves(l)
        PROVE  SessionInv'
    <3>1. \A m \in Loggers \ {l} : Spared(m)
      BY <1>0, <2>5, StartSpares
    <3>2. Runs(l)' /\ Left(l)' /\ Kept(l)'
      <4>1. CASE Start(l)
        BY <1>0, <4>1, OwnStart
      <4>2. CASE ClearHeartbeat(l) \/ ClearFails(l)
        BY <1>0, <4>2, OwnClears
      <4>3. CASE OpenFirst(l)
        BY <1>0, <4>3, OwnOpenFirst
      <4>4. CASE Crash(l) \/ Leaves(l)
        BY <1>0, <4>4, OwnDown DEF Crash, Leaves, database
      <4> QED
        BY <2>5, <4>1, <4>2, <4>3, <4>4
    <3> QED
      BY <1>2, <2>1, <2>2, <2>3, <3>1, <3>2
  <2> QED
    BY <1>4, <2>4, <2>5, StartFailsSplit
<1>5. ASSUME NEW l \in Loggers,
             \/ Login(l) \/ Spawn(l) \/ Disconnect(l) \/ EnterQueue(l) \/ LeaveQueue(l)
             \/ Shutdown(l) \/ See(l)
      PROVE  SessionInv'
  <2>1. SessionTypes'
    BY <1>0, <1>5, TypesOfEvents
  <2>2. Unborn'
    BY <1>0, <1>5, UnbornEvents
  <2>3. \A m \in Loggers \ {l} : Still(m) /\ Spared(m)
    BY <1>0, <1>5, EventsStill, EventsSpare
  <2>4. Runs(l)' /\ Left(l)' /\ Kept(l)'
    BY <1>0, <1>5, OwnLogin, OwnSpawn, OwnDisconnect, OwnEnterQueue, OwnLeaveQueue,
       OwnShutdown, OwnSee
  <2> QED
    BY <1>2, <2>1, <2>2, <2>3, <2>4
<1>6. ASSUME NEW l \in Loggers,
             \/ Insert(l) \/ Store(l) \/ NameSession(l) \/ SupersedeOthers(l)
             \/ DropSuperseded(l) \/ EndSession(l) \/ DropPresence(l)
      PROVE  SessionInv'
  <2>1. SessionTypes'
    BY <1>0, <1>6, TypesOfCalls
  <2>2. Unborn'
    BY <1>0, <1>6, UnbornCalls
  <2>3. \A m \in Loggers \ {l} : Still(m) /\ Spared(m)
    BY <1>0, <1>6, CallsStill, CallsSpare
  <2>4. Runs(l)' /\ Left(l)' /\ Kept(l)'
    BY <1>0, <1>6, OwnInsert, OwnStore, OwnName, OwnSupersede, OwnDropSuperseded, OwnEnd,
       OwnDrop
  <2> QED
    BY <1>2, <2>1, <2>2, <2>3, <2>4
<1>7. ASSUME NEW l \in Loggers,
             Quit(l) \/ TaskFails(l) \/ Flush(l) \/ Heartbeat(l) \/ GrowStale(l)
      PROVE  SessionInv'
  <2>1. SessionTypes'
    BY <1>0, <1>7, TypesOfRest
  <2>2. Unborn'
    BY <1>0, <1>7, UnbornRest
  <2>3. \A m \in Loggers \ {l} : Still(m)
    BY <1>0, <1>7, RestStill
  <2>4. \/ Quit(l) \/ Leaves(l) \/ InsertFails(l) \/ NamingFails(l) \/ EndingFails(l)
        \/ Flush(l) \/ Heartbeat(l) \/ GrowStale(l)
    BY <1>7, TaskFailsSplit
  <2>5. \A m \in Loggers \ {l} : Spared(m)
    BY <1>0, <2>4, RestSpares, StartSpares
  <2>6. Quit(l) => Down(l) /\ UNCHANGED sessions /\ beat'[l].session = beat[l].session
    BY <1>0 DEF Quit, ClearedBeat, SessionTypes
  <2>7. Leaves(l) => Down(l) /\ UNCHANGED sessions /\ beat'[l].session = beat[l].session
    BY DEF Leaves, database
  <2>8. Runs(l)' /\ Left(l)' /\ Kept(l)'
    BY <1>0, <2>4, <2>6, <2>7, OwnDown, OwnInsertFails, OwnNamingFails, OwnEndingFails,
       OwnFlush, OwnHeartbeat, OwnGrowStale
  <2> QED
    BY <1>2, <2>1, <2>2, <2>3, <2>5, <2>8
<1>8. CASE Next
  <2>1. PICK l \in Loggers :
          \/ Start(l) \/ ClearHeartbeat(l) \/ CloseStale(l) \/ OpenFirst(l)
          \/ Crash(l) \/ StartFails(l)
          \/ Login(l) \/ Spawn(l) \/ Disconnect(l) \/ EnterQueue(l) \/ LeaveQueue(l)
          \/ Shutdown(l) \/ See(l)
          \/ Insert(l) \/ Store(l)
          \/ NameSession(l) \/ SupersedeOthers(l) \/ DropSuperseded(l)
          \/ EndSession(l) \/ DropPresence(l) \/ Quit(l) \/ TaskFails(l)
          \/ Flush(l) \/ Heartbeat(l) \/ GrowStale(l)
    BY <1>8, Zenon DEF Next
  <2> QED
    BY <1>4, <1>5, <1>6, <1>7, <2>1
<1> QED
  BY <1>1, <1>8

THEOREM SessionsInvariant == Spec => []SessionInv
BY SessionsInit, SessionsStep, PTL DEF Spec

\* SessionsAccounted: a logger that is in the game with no handler under way
\* records under an open session, and has no other one of its run open,
\* unless one of the named things happened to it.
THEOREM SessionsKept == Spec => []SessionsAccounted
<1>1. SessionInv => SessionsAccounted
  <2> SUFFICES ASSUME SessionInv, NEW l \in Loggers, Settled(l)
               PROVE  /\ connected[l] /\ ~limbo[l] /\ current[l] = watched /\ watched \notin Open
                           => \/ "refused" \in cause
                              \/ {"ended", "early"} \subseteq cause
                              \/ {"superseded", "raced"} \subseteq cause
                              \/ "stale" \in cause /\ "beaten" \notin cause
                      /\ watched \in Of(l) \cap Open /\ watched >= birth[l] /\ watched # current[l]
                           => cause \cap {"doubled", "undone"} # {}
    BY DEF SessionsAccounted, CurrentAccounted, LiveAccounted
  <2>1. Runs(l) /\ Kept(l) /\ birth[l] \in Nat /\ watched \in Nat
    BY DEF SessionInv, SessionTypes
  <2>2. /\ Up(l) /\ stores[l] = {} /\ ~BeingEnded(l, watched)
        /\ connected[l] /\ ~limbo[l] => ~Giving(l)
    BY DEF Settled, Giving, BeingEnded
  <2>3. ASSUME connected[l], ~limbo[l], current[l] = watched, watched \notin Open
        PROVE  \/ "refused" \in cause
               \/ {"ended", "early"} \subseteq cause
               \/ {"superseded", "raced"} \subseteq cause
               \/ "stale" \in cause /\ "beaten" \notin cause
    <3>1. Mine(l)
      BY <2>1, <2>2, <2>3 DEF Runs, Mine
    <3>2. Closed(l)
      BY <2>1, <3>1 DEF Kept
    <3> QED
      BY <2>2, <2>3, <3>2 DEF Closed, Held
  <2>4. ASSUME watched \in Of(l) \cap Open, watched >= birth[l], watched # current[l]
        PROVE  cause \cap {"doubled", "undone"} # {}
    <3>1. Mine(l)
      BY <2>1, <2>2, <2>4 DEF Mine
    <3>2. Beside(l)
      BY <2>1, <3>1 DEF Kept
    <3> QED
      BY <2>2, <2>4, <3>2 DEF Beside, Held, Excused
  <2> QED
    BY <2>3, <2>4
<1> QED
  BY <1>1, SessionsInvariant, PTL

\* LeftoversAccounted: a start closes what the logger's earlier runs left
\* open, and presence goes with its session, unless one of the named things
\* happened.
THEOREM LeftoversKept == Spec => []LeftoversAccounted
<1>1. SessionInv => LeftoversAccounted
  <2> SUFFICES ASSUME SessionInv PROVE LeftoversClosed /\ PresenceDropped
    BY DEF LeftoversAccounted
  <2>1. LeftoversClosed
    BY DEF SessionInv, LeftoversClosed, Left
  <2>2. PresenceDropped
    <3> SUFFICES ASSUME NEW l \in Loggers, Settled(l),
                        watched \in (Of(l) \cap presence) \ Open, watched >= birth[l]
                 PROVE  cause \cap {"late", "undone", "stale"} # {}
      BY DEF PresenceDropped
    <3>1. Kept(l) /\ birth[l] \in Nat /\ watched \in Nat
      BY DEF SessionInv, SessionTypes
    <3>2. Mine(l) /\ ~BeingDropped(l, watched)
      BY <3>1 DEF Settled, Mine, BeingDropped, BeingEnded
    <3> QED
      BY <3>1, <3>2 DEF Kept, Dropped
  <2> QED
    BY <2>1, <2>2
<1> QED
  BY <1>1, SessionsInvariant, PTL
=============================================================================
