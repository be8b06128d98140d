--------------------------- MODULE PollFeedProofs ---------------------------
(***************************************************************************)
(* Proof of CursorsAccounted and ReplaysAccounted, for any number of       *)
(* loggers' connections, any page sizes and bounds.                        *)
(*                                                                         *)
(* A cursor is an id, so what it passes may still be uncommitted.  The     *)
(* invariant therefore speaks of ids: Passable(f) are those feed f may go  *)
(* by, whether rows or not, and it only grows (PassableGrows).  Whatever a *)
(* cursor, a stored cursor or a goal stands on, all ids up to there are    *)
(* passable, or are among the rows that this tick is about to post.        *)
(***************************************************************************)
EXTENDS PollFeed, FiniteSetTheorems, WellFoundedInduction, TLAPS

-----------------------------------------------------------------------------
(* The invariant.                                                          *)

Stages ==
  {"waits", "latest", "fetch", "mark", "routes", "post", "store chat", "store presence",
   "watch", "watch mark", "watch post", "watch latest", "store watch"}

\* Transactions under way have ids of their own, which are not yet rows.
TableTypes ==
  /\ last \in [Tables -> Nat]
  /\ writing \in [Writers -> [table : Tables, id : Nat]]
  /\ rows \in [Tables -> SUBSET Nat]
  /\ late \in [Tables -> SUBSET Nat]
  /\ unread \in SUBSET Nat
  /\ \A t \in Tables : rows[t] \subseteq Upto(last[t])
  /\ \A w \in Writers : writing[w] # NoId =>
       /\ writing[w].id \in Upto(last[writing[w].table])
       /\ writing[w].id \notin rows[writing[w].table]
       /\ \A v \in Writers \ {w} : writing[v] # writing[w]

HistoryTypes ==
  /\ posted \in [Feeds -> SUBSET Nat]
  /\ twice \in [Feeds -> SUBSET Nat]
  /\ passed \in [Feeds -> SUBSET Nat]
  /\ lost \in [Feeds -> SUBSET Nat]
  /\ unsure \in [Feeds -> SUBSET Nat]
  /\ replayable \in [Feeds -> SUBSET Nat]

\* No cursor is ahead of its table's sequence.
BridgeTypes ==
  /\ bot \in BOOLEAN /\ active \in BOOLEAN /\ tick \in Stages
  /\ command \in {"none", "latest", "memory", "chat", "presence"}
  /\ recent \in [Feeds -> SUBSET Nat]
  /\ fetched \in [Feeds -> SUBSET Nat]
  /\ cursor \in [Feeds -> Nat] /\ stored \in [Feeds -> Nat]
  /\ goal \in [Feeds -> Nat] /\ latest \in [Feeds -> Nat]
  /\ \A f \in Feeds :
       /\ fetched[f] \subseteq Upto(last[Table(f)])
       /\ cursor[f] <= last[Table(f)] /\ stored[f] <= last[Table(f)]
       /\ goal[f] <= last[Table(f)] /\ latest[f] <= last[Table(f)]
  /\ tick # "waits" \/ command # "none" => bot

\* The two halves of a tick do not hold rows at once.
Apart ==
  /\ tick \in {"mark", "routes", "post"} => fetched["watch"] = {}
  /\ tick \in {"watch mark", "watch post"} => \A f \in Polled : fetched[f] = {}

PollTypes == TableTypes /\ HistoryTypes /\ BridgeTypes /\ Apart /\ enabled \in BOOLEAN

\* What became of a row, as CursorsAccounted has it.
Accounted(f) == Dealt(f) \cup (IF f = "watch" THEN unread ELSE {})

\* The ids feed f may go by: accounted for, never to be rows, or to be rows
\* behind one that is there already.
Passable(f) ==
  Accounted(f) \cup
  {i \in Upto(last[Table(f)]) \ rows[Table(f)] : \A w \in Writers :
     writing[w] = [table |-> Table(f), id |-> i] => \E j \in rows[Table(f)] : j > i}

\* Cursors stand where all before them is passable.
Stands(f) == Upto(cursor[f]) \subseteq Passable(f) /\ Upto(stored[f]) \subseteq Passable(f)

\* A tick has read rows of f, knows where its cursor goes, and has not yet
\* posted them all.
Going(f) ==
  \/ tick \in {"routes", "post"} /\ f # "watch"
  \/ tick \in {"watch mark", "watch post", "watch latest"} /\ f = "watch"

\* A tick is about to move the cursor of f.
Due(f) ==
  \/ tick = "store chat" /\ f # "watch"
  \/ tick = "store presence" /\ f = "presence"
  \/ tick = "store watch" /\ f = "watch"

\* The rows a tick has read, and the place it will move its cursors to: what
\* is not passable before them is among these rows, until they are posted.
Reads(f) ==
  /\ tick = "mark" /\ f # "watch" =>
       \A r \in fetched[f] : Upto(r) \subseteq Passable(f) \cup fetched[f]
  /\ Going(f) => Upto(goal[f]) \subseteq Passable(f) \cup fetched[f]
  /\ Due(f) /\ (active \/ f = "watch") => Upto(goal[f]) \subseteq Passable(f)
  /\ tick = "latest" => ~active

\* A page of hits that is not full is all there was when it was read.
WholePage ==
  /\ Overlooking => rows["events"] \subseteq Accounted("watch") \cup fetched["watch"]
  /\ tick = "watch latest" => fetched["watch"] = {}

\* Rows that were remembered as posted and are this tick's to post.
Holding(f) ==
  \/ tick \in {"routes", "post"} /\ f = "presence"
  \/ tick = "watch post" /\ f = "watch"

\* A row is remembered as posted when its fate is known, or it is this tick's.
Remembered(f) ==
  recent[f] \subseteq Accounted(f) \cup (IF Holding(f) THEN fetched[f] ELSE {})

\* A command that has set the cursors stores what it set.
Skipped == command \in Polled => \A f \in Polled : Upto(latest[f]) \subseteq passed[f]

LossInv ==
  /\ \A f \in Feeds : Stands(f) /\ Reads(f) /\ (f # "chat" => Remembered(f))
  /\ WholePage
  /\ Skipped

\* The cursor a feed goes on from: in memory, or the stored one.
Base(f) == IF bot THEN cursor[f] ELSE stored[f]

\* A feed posts or has posted, and has not yet moved its cursor.
Moving(f) ==
  \/ Due(f)
  \/ tick = "post" /\ f # "watch"
  \/ tick \in {"watch post", "watch latest"} /\ f = "watch"

\* Rows ahead of a cursor that were posted are replayable.  So are those that
\* a tick has read again, but for what a message was said not to have posted.
Replays(f) ==
  /\ twice[f] \subseteq replayable[f] \cup unsure[f]
  /\ ~Moving(f) => {i \in posted[f] : i > Base(f)} \subseteq replayable[f]
  /\ tick \in {"mark", "routes", "post", "watch mark", "watch post"} =>
       fetched[f] \cap posted[f] \subseteq replayable[f] \cup unsure[f]

ReplayInv == \A f \in Feeds : Replays(f)

PollInv == PollTypes /\ LossInv /\ ReplayInv

-----------------------------------------------------------------------------
(* Pages of rows.                                                          *)

LEMMA LeastOf ==
  ASSUME NEW S \in SUBSET Nat, S # {}
  PROVE  \E m \in S : \A n \in S : m <= n
<1>1. PICK m \in S : \A n \in S : <<n, m>> \notin OpToRel(<, Nat)
  BY NatLessThanWellFounded, WFMin
<1>2. \A n \in S : ~(n < m)
  BY <1>1 DEF OpToRel
<1> QED
  BY <1>2

LEMMA MaxOf ==
  ASSUME NEW N \in Nat, NEW S \in SUBSET Upto(N), S # {}
  PROVE  Max(S) \in S /\ \A n \in S : n <= Max(S)
<1> DEFINE Left == {N - i : i \in S}
<1>0. \A i \in S : i \in Nat /\ i <= N
  BY DEF Upto
<1>1. Left \in SUBSET Nat /\ Left # {}
  BY <1>0
<1>2. PICK m \in Left : \A n \in Left : m <= n
  BY <1>1, LeastOf
<1>3. PICK i \in S : m = N - i
  BY <1>2
<1>4. \A n \in S : i >= n
  <2> TAKE n \in S
  <2>1. N - n \in Left /\ n \in Nat /\ i \in Nat
    BY <1>0
  <2>2. N - i <= N - n
    BY <2>1, <1>2, <1>3
  <2> QED
    BY <2>1, <2>2
<1>5. Max(S) \in S /\ \A n \in S : Max(S) >= n
  BY <1>4 DEF Max
<1> QED
  BY <1>5, <1>0

\* The ids of s that come before i.
Under(i, s) == {j \in s : j < i}

LEMMA UnderWorks ==
  ASSUME NEW N \in Nat, NEW S \in SUBSET Upto(N), NEW i \in Nat
  PROVE  /\ IsFiniteSet(Under(i, S))
         /\ Cardinality(Under(i, S)) \in Nat
         /\ \A k \in Nat : i <= k => Cardinality(Under(i, S)) <= Cardinality(Under(k, S))
<1>0. S \subseteq Nat /\ \A j \in S : j \in Nat
  BY DEF Upto
<1>1. IsFiniteSet(1..N)
  BY FS_Interval
<1>2. IsFiniteSet(S)
  BY <1>1, FS_Subset DEF Upto
<1>3. \A k \in Nat : IsFiniteSet(Under(k, S))
  BY <1>2, FS_Subset DEF Under
<1>4. ASSUME NEW k \in Nat, i <= k
      PROVE  Cardinality(Under(i, S)) <= Cardinality(Under(k, S))
  <2>1. \A j \in Under(i, S) : j \in Under(k, S)
    <3> TAKE j \in Under(i, S)
    <3>1. j \in S /\ j < i /\ j \in Nat
      BY <1>0 DEF Under
    <3>2. j < k
      BY <3>1, <1>4
    <3> QED
      BY <3>1, <3>2 DEF Under
  <2> QED
    BY <2>1, <1>3, FS_Subset
<1> QED
  BY <1>3, <1>4, FS_CardinalityType

LEMMA FirstWorks ==
  ASSUME NEW N \in Nat, NEW S \in SUBSET Upto(N), NEW n \in Nat
  PROVE  /\ First(n, S) \subseteq S
         /\ \A i \in First(n, S), j \in S : j <= i => j \in First(n, S)
<1>0. \A j \in S : j \in Nat
  BY DEF Upto
<1>1. First(n, S) = {i \in S : Cardinality(Under(i, S)) < n}
  BY DEF First, Under
<1>2. ASSUME NEW i \in First(n, S), NEW j \in S, j <= i
      PROVE  j \in First(n, S)
  <2>1. i \in Nat /\ j \in Nat
    BY <1>1, <1>0
  <2>2. Cardinality(Under(i, S)) \in Nat /\ Cardinality(Under(j, S)) \in Nat
    BY <2>1, UnderWorks
  <2>3. Cardinality(Under(j, S)) <= Cardinality(Under(i, S))
    BY <2>1, <1>2, UnderWorks
  <2> QED
    BY <2>2, <2>3, <1>1
<1> QED
  BY <1>1, <1>2

\* A page that is not full has all there is.
LEMMA ShortPage ==
  ASSUME NEW N \in Nat, NEW S \in SUBSET Upto(N), NEW n \in Nat \ {0},
         Cardinality(First(n, S)) # n
  PROVE  First(n, S) = S
<1> DEFINE P == First(n, S)
<1>0. S \subseteq Nat
  BY DEF Upto
<1>1. P = {i \in S : Cardinality(Under(i, S)) < n} /\ P \subseteq S
  BY DEF First, Under
<1>2. SUFFICES ASSUME S \ P # {} PROVE FALSE
  BY <1>1
<1>3. S \ P \in SUBSET Nat
  BY <1>0
<1>4. PICK x \in S \ P : \A y \in S \ P : x <= y
  BY <1>2, <1>3, LeastOf
<1>5. x \in Nat /\ Cardinality(Under(x, S)) \in Nat
  BY <1>3, <1>4, UnderWorks
<1>6. P = Under(x, S)
  <2>1. ASSUME NEW i \in Under(x, S) PROVE i \in P
    <3>1. i \in S /\ i < x /\ i \in Nat
      BY <1>0 DEF Under
    <3> QED
      BY <3>1, <1>4, <1>5
  <2>2. ASSUME NEW i \in P PROVE i < x
    <3>1. i \in S /\ i \in Nat
      BY <1>0, <1>1
    <3>2. x <= i => x \in P
      BY <3>1, <1>4, FirstWorks
    <3> QED
      BY <3>1, <3>2, <1>4, <1>5
  <2> QED
    BY <2>1, <2>2, <1>1 DEF Under
<1>7. Cardinality(P) \in Nat /\ Cardinality(P) >= n /\ IsFiniteSet(P)
  <2>1. ~(Cardinality(Under(x, S)) < n)
    BY <1>1, <1>4
  <2>2. IsFiniteSet(Under(x, S))
    BY <1>5, UnderWorks
  <2> QED
    BY <2>1, <2>2, <1>5, <1>6
<1>8. P # {}
  BY <1>7, FS_EmptySet
<1>9. PICK m \in P : \A i \in P : i <= m
  BY <1>8, <1>1, MaxOf
<1>10. P \ {m} = Under(m, S)
  <2>1. ASSUME NEW i \in P \ {m} PROVE i \in Under(m, S)
    <3>1. i \in S /\ i \in Nat /\ m \in Nat /\ i <= m /\ i # m
      BY <2>1, <1>0, <1>1, <1>9
    <3> QED
      BY <3>1 DEF Under
  <2>2. ASSUME NEW i \in Under(m, S) PROVE i \in P \ {m}
    <3>1. i \in S /\ i < m /\ i \in Nat /\ m \in Nat
      BY <1>0, <1>1, <1>9 DEF Under
    <3> QED
      BY <3>1, FirstWorks
  <2> QED
    BY <2>1, <2>2
<1>11. Cardinality(P \ {m}) = Cardinality(P) - 1
  BY <1>7, FS_RemoveElement
<1>12. Cardinality(P \ {m}) < n
  BY <1>1, <1>9, <1>10
<1> QED
  BY <1>7, <1>11, <1>12

-----------------------------------------------------------------------------
(* Types.                                                                  *)

LEMMA TableOf == \A f \in Feeds : Table(f) \in Tables
BY DEF Feeds, Table, Tables

LEMMA TypesInit == Init => PollTypes
<1> SUFFICES ASSUME Init PROVE PollTypes
  OBVIOUS
<1>1. TableTypes
  BY DEF Init, TableTypes, NoId, Tables
<1>2. HistoryTypes
  BY DEF Init, HistoryTypes, NoRows
<1>3. BridgeTypes
  <2>1. /\ bot = FALSE /\ active = FALSE /\ tick = "waits" /\ command = "none"
        /\ recent = NoRows /\ fetched = NoRows
        /\ cursor = NoGoal /\ stored = NoGoal /\ goal = NoGoal /\ latest = NoGoal
        /\ last = [t \in Tables |-> 0]
    BY DEF Init
  <2>2. NoRows \in [Feeds -> SUBSET Nat] /\ NoGoal \in [Feeds -> Nat]
    BY DEF NoRows, NoGoal
  <2>3. \A f \in Feeds : NoRows[f] = {} /\ NoGoal[f] = 0 /\ last[Table(f)] = 0
    BY <2>1, TableOf DEF NoRows, NoGoal
  <2>4. \A f \in Feeds :
          /\ fetched[f] \subseteq Upto(last[Table(f)])
          /\ cursor[f] <= last[Table(f)] /\ stored[f] <= last[Table(f)]
          /\ goal[f] <= last[Table(f)] /\ latest[f] <= last[Table(f)]
    BY <2>1, <2>3
  <2> QED
    BY <2>1, <2>2, <2>4 DEF BridgeTypes, Stages
<1>4. enabled \in BOOLEAN /\ Apart
  BY DEF Init, Apart
<1> QED
  BY <1>1, <1>2, <1>3, <1>4 DEF PollTypes

LEMMA UptoGrows == ASSUME NEW m \in Nat, NEW n \in Nat, m <= n PROVE Upto(m) \subseteq Upto(n)
BY DEF Upto

LEMMA InUpto == ASSUME NEW n \in Nat, NEW i PROVE i \in Upto(n) <=> i \in Nat /\ 1 <= i /\ i <= n
BY DEF Upto

LEMMA InsertTables ==
  ASSUME TableTypes, NEW w \in Writers, Insert(w)
  PROVE  TableTypes' /\ \A t \in Tables : last[t] <= last'[t]
<1>1. PICK t \in Tables :
        /\ last' = [last EXCEPT ![t] = last[t] + 1]
        /\ writing' = [writing EXCEPT ![w] = [table |-> t, id |-> last[t] + 1]]
  BY DEF Insert, Tables
<1>2. UNCHANGED <<rows, late, unread>> /\ writing[w] = NoId
  BY DEF Insert, history
<1>3. last' \in [Tables -> Nat] /\ writing' \in [Writers -> [table : Tables, id : Nat]]
  BY <1>1 DEF TableTypes
<1>4. \A u \in Tables : last[u] \in Nat /\ last'[u] \in Nat /\ last[u] <= last'[u]
  BY <1>1 DEF TableTypes
<1>5. \A u \in Tables : Upto(last[u]) \subseteq Upto(last'[u])
  BY <1>4, UptoGrows
<1>6. \A u \in Tables : rows[u] \subseteq Upto(last'[u])
  BY <1>5 DEF TableTypes
<1>7. writing'[w].table = t /\ writing'[w].id = last[t] + 1 /\ last'[t] = last[t] + 1
  BY <1>1 DEF TableTypes
<1>8. last[t] + 1 \in Upto(last'[t]) /\ last[t] + 1 \notin Upto(last[t])
  BY <1>4, <1>7 DEF Upto
<1>9. \A v \in Writers \ {w} : writing'[v] = writing[v]
  BY <1>1 DEF TableTypes
<1>10. \A v \in Writers : writing[v] # NoId => writing[v].id \in Upto(last[writing[v].table])
  BY DEF TableTypes
<1>11. \A v \in Writers \ {w} : writing'[v] # writing'[w]
  <2> TAKE v \in Writers \ {w}
  <2>1. CASE writing[v] = NoId
    BY <2>1, <1>4, <1>7, <1>9 DEF NoId, TableTypes
  <2>2. CASE writing[v] # NoId
    BY <2>2, <1>7, <1>8, <1>9, <1>10
  <2> QED
    BY <2>1, <2>2
<1>12. ASSUME NEW v \in Writers, writing'[v] # NoId
       PROVE  /\ writing'[v].id \in Upto(last'[writing'[v].table])
              /\ writing'[v].id \notin rows[writing'[v].table]
              /\ \A x \in Writers \ {v} : writing'[x] # writing'[v]
  <2>1. CASE v = w
    BY <2>1, <1>7, <1>8, <1>11 DEF TableTypes
  <2>2. CASE v # w
    <3>1. /\ writing[v].id \in Upto(last[writing[v].table])
          /\ writing[v].id \notin rows[writing[v].table]
          /\ \A x \in Writers \ {v} : writing[x] # writing[v]
          /\ writing[v].table \in Tables
      BY <2>2, <1>9, <1>12 DEF TableTypes
    <3>2. \A x \in Writers \ {v} : writing'[x] # writing'[v]
      BY <2>2, <3>1, <1>9, <1>11
    <3> QED
      BY <2>2, <3>1, <3>2, <1>5, <1>9
  <2> QED
    BY <2>1, <2>2
<1> QED
  BY <1>2, <1>3, <1>4, <1>6, <1>12 DEF TableTypes

LEMMA RollBackTables ==
  ASSUME TableTypes, NEW w \in Writers, writing' = [writing EXCEPT ![w] = NoId],
         UNCHANGED <<last, rows, late, unread>>
  PROVE  TableTypes'
<1>1. writing' \in [Writers -> [table : Tables, id : Nat]]
  BY DEF TableTypes, NoId, Tables
<1>2. writing'[w] = NoId /\ \A v \in Writers \ {w} : writing'[v] = writing[v]
  BY DEF TableTypes
<1>3. ASSUME NEW v \in Writers, writing'[v] # NoId
      PROVE  /\ writing'[v].id \in Upto(last[writing'[v].table])
             /\ writing'[v].id \notin rows[writing'[v].table]
             /\ \A x \in Writers \ {v} : writing'[x] # writing'[v]
  <2>1. v # w /\ writing[v] # NoId
    BY <1>2, <1>3
  <2>2. /\ writing[v].id \in Upto(last[writing[v].table])
        /\ writing[v].id \notin rows[writing[v].table]
        /\ \A x \in Writers \ {v} : writing[x] # writing[v]
    BY <2>1 DEF TableTypes
  <2> QED
    BY <2>1, <2>2, <1>2
<1> QED
  BY <1>1, <1>3 DEF TableTypes

\* What a commit does, named for the lemmas below.
LEMMA CommitFacts ==
  ASSUME TableTypes, NEW w \in Writers, Commit(w)
  PROVE  \E t \in Tables, i \in Nat :
           /\ writing[w] = [table |-> t, id |-> i]
           /\ writing[w] # NoId
           /\ i \in Upto(last[t]) /\ i \notin rows[t]
           /\ rows' = [rows EXCEPT ![t] = rows[t] \cup {i}]
           /\ late' = IF \E j \in rows[t] : j > i
                      THEN [late EXCEPT ![t] = late[t] \cup {i}] ELSE late
           /\ unread' = IF t = "events" /\ Overlooking
                        THEN unread \cup {i} ELSE unread
           /\ writing' = [writing EXCEPT ![w] = NoId]
           /\ last' = last
<1>1. PICK t \in Tables, i \in Nat : writing[w] = [table |-> t, id |-> i]
  BY DEF TableTypes
<1>2. writing[w] # NoId /\ writing[w].table = t /\ writing[w].id = i
  <2>1. writing[w] # NoId
    BY DEF Commit
  <2> QED
    BY <2>1, <1>1
<1>3. i \in Upto(last[t]) /\ i \notin rows[t]
  BY <1>2 DEF TableTypes
<1>4. /\ rows' = [rows EXCEPT ![t] = rows[t] \cup {i}]
      /\ late' = IF \E j \in rows[t] : j > i
                 THEN [late EXCEPT ![t] = late[t] \cup {i}] ELSE late
      /\ unread' = IF t = "events" /\ Overlooking
                   THEN unread \cup {i} ELSE unread
      /\ writing' = [writing EXCEPT ![w] = NoId]
      /\ last' = last
  BY <1>2 DEF Commit
<1> QED
  BY <1>1, <1>2, <1>3, <1>4

LEMMA CommitTables ==
  ASSUME TableTypes, NEW w \in Writers, Commit(w)
  PROVE  TableTypes'
<1>1. PICK t \in Tables, i \in Nat :
           /\ writing[w] = [table |-> t, id |-> i]
           /\ writing[w] # NoId
           /\ i \in Upto(last[t]) /\ i \notin rows[t]
           /\ rows' = [rows EXCEPT ![t] = rows[t] \cup {i}]
           /\ late' = IF \E j \in rows[t] : j > i
                      THEN [late EXCEPT ![t] = late[t] \cup {i}] ELSE late
           /\ unread' = IF t = "events" /\ Overlooking
                        THEN unread \cup {i} ELSE unread
           /\ writing' = [writing EXCEPT ![w] = NoId]
           /\ last' = last
  BY CommitFacts
<1>2. writing' \in [Writers -> [table : Tables, id : Nat]] /\ rows' \in [Tables -> SUBSET Nat]
  BY <1>1 DEF TableTypes, NoId, Tables
<1>3. late' \in [Tables -> SUBSET Nat] /\ unread' \in SUBSET Nat
  BY <1>1 DEF TableTypes
<1>4. \A u \in Tables : rows'[u] \subseteq Upto(last'[u])
  BY <1>1 DEF TableTypes
<1>5. writing'[w] = NoId /\ \A v \in Writers \ {w} : writing'[v] = writing[v]
  BY <1>1 DEF TableTypes
<1>6. ASSUME NEW v \in Writers, writing'[v] # NoId
      PROVE  /\ writing'[v].id \in Upto(last'[writing'[v].table])
             /\ writing'[v].id \notin rows'[writing'[v].table]
             /\ \A x \in Writers \ {v} : writing'[x] # writing'[v]
  <2>1. v # w /\ writing[v] # NoId
    BY <1>5, <1>6
  <2>2. /\ writing[v].id \in Upto(last[writing[v].table])
        /\ writing[v].id \notin rows[writing[v].table]
        /\ \A x \in Writers \ {v} : writing[x] # writing[v]
        /\ writing[v] \in [table : Tables, id : Nat]
    BY <2>1 DEF TableTypes
  <2>3. writing[v].table = t => writing[v].id # i
    BY <2>1, <2>2, <1>1
  <2>4. writing[v].id \notin rows'[writing[v].table]
    BY <2>2, <2>3, <1>1 DEF TableTypes
  <2> QED
    BY <2>1, <2>2, <2>4, <1>1, <1>5
<1> QED
  BY <1>1, <1>2, <1>3, <1>4, <1>6 DEF TableTypes

LEMMA TablesKept == TableTypes /\ [Next]_vars => TableTypes'
<1> SUFFICES ASSUME TableTypes, [Next]_vars PROVE TableTypes'
  OBVIOUS
<1>1. CASE UNCHANGED <<last, writing, rows, late, unread>>
  BY <1>1 DEF TableTypes
<1>2. ASSUME NEW w \in Writers, Insert(w) PROVE TableTypes'
  BY <1>2, InsertTables
<1>3. ASSUME NEW w \in Writers, Commit(w) PROVE TableTypes'
  BY <1>3, CommitTables
<1>4. ASSUME NEW w \in Writers, RollBack(w) PROVE TableTypes'
  BY <1>4, RollBackTables DEF RollBack, history
<1>5. CASE ReadLatestEvent
  <2>1. unread' \in {unread, unread \cup
                     {writing[w].id : w \in {v \in Writers : writing[v].table = "events"}}}
    BY <1>5 DEF ReadLatestEvent
  <2>2. unread' \in SUBSET Nat
    BY <2>1 DEF TableTypes
  <2>3. UNCHANGED <<last, writing, rows, late>>
    BY <1>5 DEF ReadLatestEvent, dbVars
  <2> QED
    BY <2>2, <2>3 DEF TableTypes
<1> QED
  BY <1>1, <1>2, <1>3, <1>4, <1>5
     DEF Next, Log, Start, Crash, Deliver, Tick, ReadLatest, Fetch, Mark, ReadRoutes, Post,
         PostUnsure, PostFails, PostDone, StoreChat,
         StorePresence, FetchHits, MarkHits, StoreWatch, TickFails, StoreFails, Command,
         SetEnabled, SetWatch, SkipToLatest, Skip, SkipRead, SkipMove, SkipStore, SkipFails,
         vars, dbVars, history

LEMMA LastGrows ==
  ASSUME TableTypes, [Next]_vars
  PROVE  \A t \in Tables : last[t] \in Nat /\ last'[t] \in Nat /\ last[t] <= last'[t]
<1>1. TableTypes'
  BY TablesKept
<1>2. \A t \in Tables : last[t] \in Nat /\ last'[t] \in Nat
  BY <1>1 DEF TableTypes
<1>3. CASE UNCHANGED last
  BY <1>2, <1>3
<1>4. ASSUME NEW w \in Writers, Insert(w) PROVE \A t \in Tables : last[t] <= last'[t]
  BY <1>4, InsertTables
<1> QED
  BY <1>2, <1>3, <1>4
     DEF Next, Log, Commit, RollBack, Start, Crash, Deliver, Tick, ReadLatest, Fetch, Mark,
         ReadRoutes, Post, PostUnsure, PostFails, PostDone,
         StoreChat, StorePresence, FetchHits, MarkHits, ReadLatestEvent, StoreWatch, TickFails,
         StoreFails, Command, SetEnabled, SetWatch, SkipToLatest, Skip, SkipRead, SkipMove,
         SkipStore, SkipFails, vars, dbVars

\* Nothing that was accounted for, and nothing replayable, is taken back.
Grows ==
  /\ \A f \in Feeds : /\ posted[f] \subseteq posted'[f]
                      /\ passed[f] \subseteq passed'[f]
                      /\ lost[f] \subseteq lost'[f]
                      /\ unsure[f] \subseteq unsure'[f]
                      /\ replayable[f] \subseteq replayable'[f]
  /\ \A t \in Tables : late[t] \subseteq late'[t]
  /\ unread \subseteq unread'

LEMMA BehindTypes ==
  ASSUME HistoryTypes, NEW c \in [Feeds -> Nat]
  PROVE  /\ Behind(c) \in [Feeds -> SUBSET Nat]
         /\ \A f \in Feeds : /\ Behind(c)[f] = replayable[f] \cup {i \in posted[f] : i > c[f]}
                             /\ replayable[f] \subseteq Behind(c)[f]
BY DEF HistoryTypes, Behind

\* What a move does.
LEMMA MoveFacts ==
  ASSUME PollTypes, NEW f \in Feeds, NEW saved \in BOOLEAN, MoveCursor(f, saved)
  PROVE  /\ cursor' \in [Feeds -> Nat] /\ stored' \in [Feeds -> Nat]
         /\ \A g \in Feeds \ {f} : cursor'[g] = cursor[g] /\ stored'[g] = stored[g]
                                   /\ passed'[g] = passed[g]
         /\ cursor'[f] \in {goal[f], cursor[f]} /\ stored'[f] \in {goal[f], stored[f]}
         /\ passed' \in [Feeds -> SUBSET Nat]
         /\ passed'[f] = IF active \/ f = "watch" THEN passed[f] ELSE passed[f] \cup Upto(goal[f])
         /\ replayable' \in [Feeds -> SUBSET Nat]
         /\ \A g \in Feeds : replayable[g] \subseteq replayable'[g]
         /\ {i \in posted[f] : i > cursor'[f]} \subseteq replayable'[f]
         /\ ~saved => \A g \in Feeds : {i \in posted[g] : i > cursor'[g]} \subseteq replayable'[g]
<1>1. /\ cursor \in [Feeds -> Nat] /\ stored \in [Feeds -> Nat] /\ goal \in [Feeds -> Nat]
      /\ passed \in [Feeds -> SUBSET Nat] /\ replayable \in [Feeds -> SUBSET Nat]
      /\ HistoryTypes
  BY DEF PollTypes, BridgeTypes, HistoryTypes
<1>2. PICK m \in {goal[f], cursor[f]}, n \in {goal[f], stored[f]} :
        /\ m = IF Moves(f) THEN goal[f] ELSE cursor[f]
        /\ n = IF Moves(f) /\ saved THEN goal[f] ELSE stored[f]
  OBVIOUS
<1>3. /\ cursor' = [cursor EXCEPT ![f] = m]
      /\ stored' = [stored EXCEPT ![f] = n]
      /\ passed' = [passed EXCEPT ![f] = IF active \/ f = "watch" THEN passed[f]
                                                                  ELSE passed[f] \cup Upto(goal[f])]
  BY <1>2 DEF MoveCursor
<1>4. cursor' \in [Feeds -> Nat] /\ stored' \in [Feeds -> Nat]
  BY <1>1, <1>3
<1>5. Upto(goal[f]) \subseteq Nat
  BY <1>1 DEF Upto
<1>6. passed' \in [Feeds -> SUBSET Nat]
  BY <1>1, <1>3, <1>5
<1>7. PICK b : b = Behind(cursor')
  OBVIOUS
<1>8. /\ b \in [Feeds -> SUBSET Nat]
      /\ \A g \in Feeds : /\ b[g] = replayable[g] \cup {i \in posted[g] : i > cursor'[g]}
                          /\ replayable[g] \subseteq b[g]
  BY <1>1, <1>4, <1>7, BehindTypes
<1>9. replayable' = IF saved THEN [replayable EXCEPT ![f] = b[f]] ELSE b
  BY <1>7 DEF MoveCursor
<1>10. replayable' \in [Feeds -> SUBSET Nat]
  BY <1>1, <1>8, <1>9
<1>11. replayable'[f] = b[f] /\ \A g \in Feeds : replayable'[g] \in {replayable[g], b[g]}
  BY <1>1, <1>8, <1>9
<1>12. ~saved => replayable' = b
  BY <1>9
<1>13. \A g \in Feeds \ {f} : /\ cursor'[g] = cursor[g] /\ stored'[g] = stored[g]
                              /\ passed'[g] = passed[g]
  BY <1>1, <1>3
<1>14. cursor'[f] \in {goal[f], cursor[f]} /\ stored'[f] \in {goal[f], stored[f]}
  BY <1>1, <1>3
<1>15. passed'[f] = IF active \/ f = "watch" THEN passed[f] ELSE passed[f] \cup Upto(goal[f])
  BY <1>1, <1>3
<1>16. \A g \in Feeds : replayable[g] \subseteq replayable'[g]
  BY <1>8, <1>11
<1>17. {i \in posted[f] : i > cursor'[f]} \subseteq replayable'[f]
  BY <1>8, <1>11
<1>18. ~saved => \A g \in Feeds : {i \in posted[g] : i > cursor'[g]} \subseteq replayable'[g]
  BY <1>8, <1>12
<1> QED
  BY <1>4, <1>6, <1>10, <1>13, <1>14, <1>15, <1>16, <1>17, <1>18

LEMMA HistoryStill ==
  ASSUME PollTypes, UNCHANGED <<posted, twice, passed, late, lost, unsure, unread, replayable>>
  PROVE  HistoryTypes' /\ Grows
BY DEF PollTypes, HistoryTypes, Grows

LEMMA MoveHistory ==
  ASSUME PollTypes, NEW f \in Feeds, NEW saved \in BOOLEAN, MoveCursor(f, saved),
         UNCHANGED <<posted, twice, late, lost, unsure, unread>>
  PROVE  HistoryTypes' /\ Grows
<1>1. /\ \A g \in Feeds \ {f} : passed'[g] = passed[g]
      /\ passed' \in [Feeds -> SUBSET Nat]
      /\ passed'[f] = IF active \/ f = "watch" THEN passed[f] ELSE passed[f] \cup Upto(goal[f])
      /\ replayable' \in [Feeds -> SUBSET Nat]
      /\ \A g \in Feeds : replayable[g] \subseteq replayable'[g]
  BY MoveFacts
<1>2. \A g \in Feeds : passed[g] \subseteq passed'[g]
  BY <1>1
<1> QED
  BY <1>1, <1>2 DEF PollTypes, HistoryTypes, Grows

\* A message holds rows of the tick; sending it adds them to what was posted.
LEMMA MessageFacts ==
  ASSUME PollTypes, NEW m \in Messages
  PROVE  m \in [Feeds -> SUBSET Nat] /\ \A f \in Feeds : m[f] \subseteq fetched[f]
BY DEF Messages, PollTypes, BridgeTypes

LEMMA SentFacts ==
  ASSUME PollTypes, NEW m \in Messages, Sent(m)
  PROVE  /\ posted' \in [Feeds -> SUBSET Nat] /\ twice' \in [Feeds -> SUBSET Nat]
         /\ \A f \in Feeds : /\ posted'[f] = posted[f] \cup m[f]
                             /\ twice'[f] = twice[f] \cup (m[f] \cap posted[f])
                             /\ posted[f] \subseteq posted'[f]
<1>1. /\ posted \in [Feeds -> SUBSET Nat] /\ twice \in [Feeds -> SUBSET Nat]
      /\ m \in [Feeds -> SUBSET Nat]
  BY MessageFacts DEF PollTypes, HistoryTypes
<1>2. /\ posted' = [f \in Feeds |-> posted[f] \cup m[f]]
      /\ twice' = [f \in Feeds |-> twice[f] \cup (m[f] \cap posted[f])]
  BY DEF Sent
<1> QED
  BY <1>1, <1>2

LEMMA FeedNames == "chat" \in Feeds /\ "presence" \in Feeds /\ "watch" \in Feeds
BY DEF Feeds

LEMMA HistoryKept == PollTypes /\ [Next]_vars => HistoryTypes' /\ Grows
<1> SUFFICES ASSUME PollTypes, [Next]_vars PROVE HistoryTypes' /\ Grows
  OBVIOUS
<1> USE FeedNames
<1>0. HistoryTypes /\ TableTypes /\ BridgeTypes
  BY DEF PollTypes
<1>1. CASE UNCHANGED history
  BY <1>1, HistoryStill DEF history
<1>2. ASSUME NEW w \in Writers, Commit(w) PROVE HistoryTypes' /\ Grows
  <2>1. PICK t \in Tables, i \in Nat :
           /\ late' = IF \E j \in rows[t] : j > i
                      THEN [late EXCEPT ![t] = late[t] \cup {i}] ELSE late
           /\ unread' = IF t = "events" /\ Overlooking
                        THEN unread \cup {i} ELSE unread
    BY <1>0, <1>2, CommitFacts
  <2>2. (\A u \in Tables : late[u] \subseteq late'[u]) /\ unread \subseteq unread'
    BY <2>1, <1>0 DEF TableTypes
  <2>3. UNCHANGED <<posted, twice, passed, lost, unsure, replayable>>
    BY <1>2 DEF Commit
  <2> QED
    BY <2>2, <2>3, <1>0 DEF HistoryTypes, Grows
<1>3. CASE Start
  <2>1. passed' = [f \in Feeds |-> IF f \in SeededFromLatest
                                   THEN passed[f] \cup Upto(last[Table(f)]) ELSE passed[f]]
    BY <1>3 DEF Start
  <2>2. \A f \in Feeds : Upto(last[Table(f)]) \subseteq Nat
    BY <1>0 DEF Upto
  <2>3. passed' \in [Feeds -> SUBSET Nat] /\ \A f \in Feeds : passed[f] \subseteq passed'[f]
    BY <2>1, <2>2, <1>0 DEF HistoryTypes
  <2>4. UNCHANGED <<posted, twice, late, lost, unsure, unread, replayable>>
    BY <1>3 DEF Start
  <2> QED
    BY <2>3, <2>4, <1>0 DEF HistoryTypes, Grows
<1>4. CASE Crash
  <2>1. replayable' = Behind(stored) /\ stored \in [Feeds -> Nat]
    BY <1>0, <1>4 DEF Crash, BridgeTypes
  <2>2. /\ replayable' \in [Feeds -> SUBSET Nat]
        /\ \A f \in Feeds : replayable[f] \subseteq replayable'[f]
    BY <2>1, <1>0, BehindTypes
  <2>3. UNCHANGED <<posted, twice, passed, late, lost, unsure, unread>>
    BY <1>4 DEF Crash
  <2> QED
    BY <2>2, <2>3, <1>0 DEF HistoryTypes, Grows
<1>5. CASE Post
  <2>1. PICK m \in Messages : Sent(m)
    BY <1>5 DEF Post
  <2>2. /\ posted' \in [Feeds -> SUBSET Nat] /\ twice' \in [Feeds -> SUBSET Nat]
        /\ \A f \in Feeds : posted[f] \subseteq posted'[f]
    BY <2>1, SentFacts
  <2>3. UNCHANGED <<passed, late, lost, unsure, unread, replayable>>
    BY <1>5 DEF Post
  <2> QED
    BY <2>2, <2>3, <1>0 DEF HistoryTypes, Grows
<1>6. CASE StoreChat
  BY <1>6, MoveHistory DEF StoreChat
<1>7. CASE StorePresence
  BY <1>7, MoveHistory DEF StorePresence
<1>8. CASE StoreWatch
  BY <1>8, MoveHistory DEF StoreWatch
<1>9. CASE StoreFails
  BY <1>9, MoveHistory DEF StoreFails
<1>10. CASE FetchHits
  <2>1. passed' = IF watching THEN passed
               ELSE [passed EXCEPT !["watch"] = passed["watch"] \cup Upto(last["events"])]
    BY <1>10 DEF FetchHits
  <2>2. Upto(last["events"]) \subseteq Nat
    BY <1>0 DEF Upto
  <2>3. passed' \in [Feeds -> SUBSET Nat] /\ \A f \in Feeds : passed[f] \subseteq passed'[f]
    BY <2>1, <2>2, <1>0 DEF HistoryTypes
  <2>4. UNCHANGED <<posted, twice, late, lost, unsure, unread, replayable>>
    BY <1>10 DEF FetchHits
  <2> QED
    BY <2>3, <2>4, <1>0 DEF HistoryTypes, Grows
<1>11. CASE PostUnsure
  <2>1. PICK m \in Messages :
          Sent(m) /\ unsure' = [f \in Feeds |-> unsure[f] \cup m[f]]
    BY <1>11 DEF PostUnsure
  <2>2. /\ posted' \in [Feeds -> SUBSET Nat] /\ twice' \in [Feeds -> SUBSET Nat]
        /\ \A f \in Feeds : posted[f] \subseteq posted'[f]
    BY <2>1, SentFacts
  <2>3. /\ unsure' \in [Feeds -> SUBSET Nat] /\ \A f \in Feeds : unsure[f] \subseteq unsure'[f]
    BY <2>1, <1>0, MessageFacts DEF HistoryTypes
  <2>4. UNCHANGED <<passed, late, lost, unread, replayable>>
    BY <1>11 DEF PostUnsure
  <2> QED
    BY <2>2, <2>3, <2>4, <1>0 DEF HistoryTypes, Grows
<1>15. CASE PostFails
  <2>1. PICK m \in Messages : lost' = [f \in Feeds |-> lost[f] \cup m[f]]
    BY <1>15 DEF PostFails
  <2>2. lost' \in [Feeds -> SUBSET Nat] /\ \A f \in Feeds : lost[f] \subseteq lost'[f]
    BY <2>1, <1>0, MessageFacts DEF HistoryTypes
  <2>3. UNCHANGED <<posted, twice, passed, late, unsure, unread, replayable>>
    BY <1>15 DEF PostFails
  <2> QED
    BY <2>2, <2>3, <1>0 DEF HistoryTypes, Grows
<1>12. CASE ReadLatestEvent
  BY <1>12, <1>0 DEF ReadLatestEvent, HistoryTypes, Grows
<1>13. CASE TickFails
  <2>1. lost' = IF tick = "routes"
                THEN [lost EXCEPT !["presence"] = lost["presence"] \cup fetched["presence"]]
                ELSE lost
    BY <1>13 DEF TickFails
  <2>2. lost' \in [Feeds -> SUBSET Nat] /\ \A f \in Feeds : lost[f] \subseteq lost'[f]
    BY <2>1, <1>0 DEF HistoryTypes, BridgeTypes
  <2>3. replayable' = Behind(cursor) /\ cursor \in [Feeds -> Nat]
    BY <1>0, <1>13 DEF TickFails, BridgeTypes
  <2>4. /\ replayable' \in [Feeds -> SUBSET Nat]
        /\ \A f \in Feeds : replayable[f] \subseteq replayable'[f]
    BY <2>3, <1>0, BehindTypes
  <2>5. UNCHANGED <<posted, twice, passed, late, unsure, unread>>
    BY <1>13 DEF TickFails
  <2> QED
    BY <2>2, <2>4, <2>5, <1>0 DEF HistoryTypes, Grows
<1>14. CASE SkipMove
  <2>1. passed' = [f \in Feeds |->
             IF f \in Polled THEN passed[f] \cup Upto(latest[f]) ELSE passed[f]]
    BY <1>14 DEF SkipMove
  <2>2. \A f \in Feeds : Upto(latest[f]) \subseteq Nat
    BY <1>0 DEF Upto
  <2>3. passed' \in [Feeds -> SUBSET Nat] /\ \A f \in Feeds : passed[f] \subseteq passed'[f]
    BY <2>1, <2>2, <1>0 DEF HistoryTypes
  <2>4. PICK b : b = Behind(latest)
    OBVIOUS
  <2>5. b \in [Feeds -> SUBSET Nat] /\ \A f \in Feeds : replayable[f] \subseteq b[f]
    BY <2>4, <1>0, BehindTypes DEF BridgeTypes
  <2>6. replayable' = [f \in Feeds |-> IF f \in Polled THEN b[f] ELSE replayable[f]]
    BY <2>4, <1>14 DEF SkipMove
  <2>7. /\ replayable' \in [Feeds -> SUBSET Nat]
        /\ \A f \in Feeds : replayable[f] \subseteq replayable'[f]
    BY <2>5, <2>6, <1>0 DEF HistoryTypes
  <2>8. UNCHANGED <<posted, twice, late, lost, unsure, unread>>
    BY <1>14 DEF SkipMove
  <2> QED
    BY <2>3, <2>7, <2>8, <1>0 DEF HistoryTypes, Grows
<1> QED
  BY <1>1, <1>2, <1>3, <1>4, <1>5, <1>6, <1>7, <1>8, <1>9, <1>10, <1>11, <1>12, <1>13, <1>14, <1>15
     DEF Next, Log, Insert, RollBack, Deliver, Tick, ReadLatest, Fetch, Mark, ReadRoutes, PostDone,
         MarkHits, Command,
         SetEnabled, SetWatch, SkipToLatest, Skip, SkipRead, SkipStore, SkipFails, vars

\* What a tick reads, and the places it computes from that.
LEMMA PageFacts ==
  ASSUME PollTypes, NEW f \in Feeds, NEW n \in Nat
  PROVE  /\ FetchNew(f, n) \subseteq rows[Table(f)]
         /\ FetchNew(f, n) \subseteq Upto(last[Table(f)])
         /\ FetchNew(f, n) \subseteq Nat
         /\ \A i \in FetchNew(f, n) : i > cursor[f]
BY TableOf DEF PollTypes, TableTypes, FetchNew, First

LEMMA AfterFacts ==
  ASSUME PollTypes, NEW f \in Feeds
  PROVE  /\ After(f) \in Nat /\ After(f) <= last[Table(f)]
         /\ fetched[f] # {} => After(f) \in fetched[f]
         /\ fetched[f] = {} => After(f) = 0
<1>1. last[Table(f)] \in Nat /\ fetched[f] \in SUBSET Upto(last[Table(f)])
  BY TableOf DEF PollTypes, TableTypes, BridgeTypes
<1>2. CASE fetched[f] = {}
  BY <1>1, <1>2 DEF After
<1>3. CASE fetched[f] # {}
  <2>1. Max(fetched[f]) \in fetched[f]
    BY <1>1, <1>3, MaxOf
  <2>2. After(f) = Max(fetched[f])
    BY <1>3 DEF After
  <2>3. After(f) \in Upto(last[Table(f)])
    BY <2>1, <2>2, <1>1
  <2> QED
    BY <1>1, <1>3, <2>1, <2>2, <2>3, InUpto
<1> QED
  BY <1>2, <1>3

LEMMA PageEndFacts ==
  ASSUME PollTypes, NEW hits \in SUBSET Upto(last["events"])
  PROVE  /\ PageEnd(hits) \in Nat /\ PageEnd(hits) <= last["events"]
         /\ PageEnd(hits) # 0 => PageEnd(hits) \in hits
         /\ PageEnd(hits) = 0 => Cardinality(hits) # HitsPerTick
<1>1. last["events"] \in Nat
  BY DEF PollTypes, TableTypes, Tables
<1>2. CASE Cardinality(hits) = HitsPerTick
  <2>1. hits # {}
    BY <1>2, FS_EmptySet, PollFeedAssumption
  <2>2. Max(hits) \in hits
    BY <1>1, <2>1, MaxOf
  <2>3. PageEnd(hits) = Max(hits)
    BY <1>2 DEF PageEnd
  <2>4. PageEnd(hits) \in Upto(last["events"])
    BY <2>2, <2>3
  <2>5. PageEnd(hits) # 0
    BY <1>1, <2>4, InUpto
  <2> QED
    BY <1>1, <2>2, <2>3, <2>4, <2>5, InUpto
<1>3. CASE Cardinality(hits) # HitsPerTick
  <2>1. PageEnd(hits) = 0
    BY <1>3 DEF PageEnd
  <2> QED
    BY <1>1, <1>3, <2>1
<1> QED
  BY <1>2, <1>3

LEMMA WatchGoalFacts ==
  ASSUME PollTypes
  PROVE  /\ WatchGoal \in Nat /\ WatchGoal <= last["events"]
         /\ goal["watch"] # 0 => WatchGoal = goal["watch"]
         /\ goal["watch"] = 0 => WatchGoal = last["events"]
<1>1. /\ last["events"] \in Nat /\ goal["watch"] \in Nat /\ goal["watch"] <= last["events"]
  BY DEF PollTypes, TableTypes, BridgeTypes, Tables, Feeds, Table
<1> QED
  BY <1>1 DEF WatchGoal

\* Types hold after a step if they do so for the sequences before it.
LEMMA BridgeFrom ==
  ASSUME PollTypes, [Next]_vars,
         bot' \in BOOLEAN, active' \in BOOLEAN, tick' \in Stages,
         command' \in {"none", "latest", "memory", "chat", "presence"},
         recent' \in [Feeds -> SUBSET Nat], fetched' \in [Feeds -> SUBSET Nat],
         cursor' \in [Feeds -> Nat], stored' \in [Feeds -> Nat],
         goal' \in [Feeds -> Nat], latest' \in [Feeds -> Nat],
         \A f \in Feeds : /\ fetched'[f] \subseteq Upto(last[Table(f)])
                          /\ cursor'[f] <= last[Table(f)] /\ stored'[f] <= last[Table(f)]
                          /\ goal'[f] <= last[Table(f)] /\ latest'[f] <= last[Table(f)],
         tick' # "waits" \/ command' # "none" => bot'
  PROVE  BridgeTypes'
<1>1. \A f \in Feeds : /\ last[Table(f)] \in Nat /\ last'[Table(f)] \in Nat
                       /\ last[Table(f)] <= last'[Table(f)]
  BY LastGrows, TableOf DEF PollTypes
<1>2. \A f \in Feeds : Upto(last[Table(f)]) \subseteq Upto(last'[Table(f)])
  BY <1>1, UptoGrows
<1>3. ASSUME NEW f \in Feeds
      PROVE  /\ fetched'[f] \subseteq Upto(last'[Table(f)])
             /\ cursor'[f] <= last'[Table(f)] /\ stored'[f] <= last'[Table(f)]
             /\ goal'[f] <= last'[Table(f)] /\ latest'[f] <= last'[Table(f)]
  <2>1. /\ cursor'[f] \in Nat /\ stored'[f] \in Nat /\ goal'[f] \in Nat /\ latest'[f] \in Nat
    OBVIOUS
  <2> QED
    BY <1>1, <1>2, <2>1
<1> QED
  BY <1>3 DEF BridgeTypes

LEMMA Nothing ==
  /\ NoRows \in [Feeds -> SUBSET Nat] /\ NoGoal \in [Feeds -> Nat]
  /\ \A f \in Feeds : NoRows[f] = {} /\ NoGoal[f] = 0
BY DEF NoRows, NoGoal

LEMMA BridgeKept == PollTypes /\ [Next]_vars => BridgeTypes'
<1> SUFFICES ASSUME PollTypes, [Next]_vars PROVE BridgeTypes'
  OBVIOUS
<1> USE FeedNames
<1>0. HistoryTypes /\ TableTypes /\ BridgeTypes
  BY DEF PollTypes
<1>b. /\ enabled \in BOOLEAN /\ bot \in BOOLEAN /\ active \in BOOLEAN /\ tick \in Stages
      /\ command \in {"none", "latest", "memory", "chat", "presence"}
      /\ recent \in [Feeds -> SUBSET Nat] /\ fetched \in [Feeds -> SUBSET Nat]
      /\ cursor \in [Feeds -> Nat] /\ stored \in [Feeds -> Nat]
      /\ goal \in [Feeds -> Nat] /\ latest \in [Feeds -> Nat]
      /\ \A f \in Feeds :
           /\ fetched[f] \subseteq Upto(last[Table(f)])
           /\ cursor[f] <= last[Table(f)] /\ stored[f] <= last[Table(f)]
           /\ goal[f] <= last[Table(f)] /\ latest[f] <= last[Table(f)]
      /\ tick # "waits" \/ command # "none" => bot
  BY <1>0 DEF BridgeTypes, PollTypes
<1>l. \A f \in Feeds :
        last[Table(f)] \in Nat /\ last[Table(f)] <= last[Table(f)] /\ 0 <= last[Table(f)]
  BY <1>0, TableOf DEF TableTypes
<1>n. /\ NoRows \in [Feeds -> SUBSET Nat] /\ NoGoal \in [Feeds -> Nat]
      /\ \A f \in Feeds : /\ NoRows[f] \subseteq Upto(last[Table(f)])
                          /\ NoGoal[f] <= last[Table(f)]
  BY Nothing, <1>l
<1>1. CASE UNCHANGED <<bot, cursor, stored, recent, tickVars, commandVars>>
  BY <1>1, <1>b, BridgeFrom DEF tickVars, commandVars
<1>2. CASE Start
  <2>1. cursor' = [f \in Feeds |-> FirstCursor(f)] /\ stored' = cursor' /\ bot' = TRUE
    BY <1>2 DEF Start
  <2>2. \A f \in Feeds : FirstCursor(f) \in Nat /\ FirstCursor(f) <= last[Table(f)]
    BY <1>b, <1>l DEF FirstCursor
  <2>3. UNCHANGED <<recent, tickVars, commandVars>>
    BY <1>2 DEF Start
  <2> QED
    BY <2>1, <2>2, <2>3, <1>b, BridgeFrom DEF tickVars, commandVars
<1>3. CASE Crash
  <2>1. /\ bot' = FALSE /\ cursor' = NoGoal /\ recent' = NoRows /\ tick' = "waits"
        /\ active' = FALSE /\ fetched' = NoRows /\ goal' = NoGoal /\ command' = "none"
        /\ latest' = NoGoal /\ stored' = stored
    BY <1>3 DEF Crash
  <2> QED
    BY <2>1, <1>b, <1>n, BridgeFrom DEF Stages
<1>4. CASE Tick
  <2>1. /\ active' = enabled /\ tick' \in Stages /\ bot
        /\ UNCHANGED <<bot, cursor, stored, recent, fetched, goal, commandVars>>
    BY <1>4 DEF Tick, Stages
  <2> QED
    BY <2>1, <1>b, BridgeFrom DEF commandVars
<1>5. CASE ReadLatest
  <2>1. /\ goal' = [f \in Feeds |-> IF f \in Polled THEN last[Table(f)] ELSE 0]
        /\ tick = "latest" /\ tick' = "store chat"
        /\ UNCHANGED <<bot, cursor, stored, recent, active, fetched, commandVars>>
    BY <1>5 DEF ReadLatest
  <2>2. goal' \in [Feeds -> Nat] /\ \A f \in Feeds : goal'[f] <= last[Table(f)]
    BY <2>1, <1>l
  <2> QED
    BY <2>1, <2>2, <1>b, BridgeFrom DEF commandVars, Stages
<1>6. CASE Fetch
  <2>1. /\ fetched' = [f \in Feeds |-> IF f \in Polled THEN FetchNew(f, RowsPerPoll) ELSE {}]
        /\ tick = "fetch" /\ tick' \in {"waits", "mark"} /\ active' \in BOOLEAN
        /\ UNCHANGED <<bot, cursor, stored, recent, goal, commandVars>>
    BY <1>6 DEF Fetch
  <2>2. /\ fetched' \in [Feeds -> SUBSET Nat]
        /\ \A f \in Feeds : fetched'[f] \subseteq Upto(last[Table(f)])
    BY <2>1, PageFacts, PollFeedAssumption
  <2> QED
    BY <2>1, <2>2, <1>b, BridgeFrom DEF commandVars, Stages
<1>7. CASE Mark
  <2>1. PICK kept \in SUBSET recent["presence"] :
       /\ fetched' = [f \in Feeds |-> Fresh(f, kept)]
       /\ recent' = [recent EXCEPT !["presence"] = kept \cup fetched["presence"]]
    BY <1>7 DEF Mark
  <2>2. /\ goal' = [f \in Feeds |-> After(f)] /\ tick = "mark" /\ tick' \in {"routes", "post"}
        /\ UNCHANGED <<bot, cursor, stored, active, commandVars>>
    BY <1>7 DEF Mark
  <2>3. goal' \in [Feeds -> Nat] /\ \A f \in Feeds : goal'[f] <= last[Table(f)]
    BY <2>2, AfterFacts
  <2>4. \A f \in Feeds : Fresh(f, kept) \subseteq fetched[f]
    BY DEF Fresh
  <2>5. /\ fetched' \in [Feeds -> SUBSET Nat]
        /\ \A f \in Feeds : fetched'[f] \subseteq Upto(last[Table(f)])
    BY <2>1, <2>4, <1>b
  <2>6. recent' \in [Feeds -> SUBSET Nat]
    BY <2>1, <1>b
  <2> QED
    BY <2>2, <2>3, <2>5, <2>6, <1>b, BridgeFrom DEF commandVars, Stages
<1>8. CASE Post \/ PostFails
  <2>1. PICK m : fetched' = [f \in Feeds |-> fetched[f] \ m[f]]
    BY <1>8 DEF Post, PostFails, Settled
  <2>2. /\ tick' = tick /\ tick # "waits"
        /\ UNCHANGED <<bot, cursor, stored, recent, active, goal, commandVars>>
    BY <1>8 DEF Post, PostFails, Posting
  <2>3. /\ fetched' \in [Feeds -> SUBSET Nat]
        /\ \A f \in Feeds : fetched'[f] \subseteq Upto(last[Table(f)])
    BY <2>1, <1>b
  <2> QED
    BY <2>2, <2>3, <1>b, BridgeFrom DEF commandVars
<1>23. CASE ReadRoutes \/ PostDone
  <2>1. /\ tick \in {"routes", "post", "watch post"}
        /\ tick' \in {"post", "store chat", "watch latest"}
        /\ UNCHANGED <<bot, cursor, stored, recent, active, fetched, goal, commandVars>>
    BY <1>23 DEF ReadRoutes, PostDone, Posting
  <2> QED
    BY <2>1, <1>b, BridgeFrom DEF commandVars, Stages
<1>9. ASSUME NEW f \in Feeds, NEW saved \in BOOLEAN, MoveCursor(f, saved), tick # "waits",
             \/ tick' = "store presence" /\ UNCHANGED <<active, fetched, goal>>
             \/ Rest,
             UNCHANGED <<bot, recent, commandVars>>
      PROVE  BridgeTypes'
  <2>1. /\ tick' \in {"waits", "store presence"} /\ active' \in BOOLEAN
        /\ fetched' \in {fetched, NoRows} /\ goal' \in {goal, NoGoal}
    BY <1>9, <1>b DEF Rest
  <2>2. /\ cursor' \in [Feeds -> Nat] /\ stored' \in [Feeds -> Nat]
        /\ \A g \in Feeds \ {f} : cursor'[g] = cursor[g] /\ stored'[g] = stored[g]
        /\ cursor'[f] \in {goal[f], cursor[f]} /\ stored'[f] \in {goal[f], stored[f]}
    BY <1>9, MoveFacts
  <2>3. \A g \in Feeds : cursor'[g] <= last[Table(g)] /\ stored'[g] <= last[Table(g)]
    BY <2>2, <1>b
  <2>4. /\ fetched' \in [Feeds -> SUBSET Nat] /\ goal' \in [Feeds -> Nat]
        /\ \A g \in Feeds : fetched'[g] \subseteq Upto(last[Table(g)]) /\ goal'[g] <= last[Table(g)]
    BY <2>1, <1>b, <1>n
  <2> QED
    BY <2>1, <2>2, <2>3, <2>4, <1>9, <1>b, BridgeFrom DEF commandVars, Stages
<1>10. CASE StoreChat
  BY <1>10, <1>9 DEF StoreChat
<1>11. CASE StorePresence
  BY <1>11, <1>9 DEF StorePresence
<1>12. CASE StoreWatch
  BY <1>12, <1>9 DEF StoreWatch
<1>13. CASE StoreFails
  BY <1>13, <1>9 DEF StoreFails
<1>14. CASE FetchHits
  <2>1. PICK hits :
          /\ hits = IF watching THEN FetchNew("watch", HitsPerTick) ELSE {}
          /\ fetched' = [NoRows EXCEPT !["watch"] = hits]
          /\ goal' = [NoGoal EXCEPT !["watch"] = PageEnd(hits)]
    BY <1>14 DEF FetchHits
  <2>2. /\ tick = "watch" /\ tick' \in {"watch latest", "watch mark"}
        /\ UNCHANGED <<bot, cursor, stored, recent, active, commandVars>>
    BY <1>14 DEF FetchHits
  <2>3. Table("watch") = "events"
    BY DEF Table
  <2>4. hits \in SUBSET Upto(last["events"]) /\ hits \in SUBSET Nat
    BY <2>1, <2>3, PageFacts, PollFeedAssumption
  <2>5. /\ fetched' \in [Feeds -> SUBSET Nat]
        /\ \A f \in Feeds : fetched'[f] \subseteq Upto(last[Table(f)])
    BY <2>1, <2>3, <2>4, <1>n
  <2>6. PageEnd(hits) \in Nat /\ PageEnd(hits) <= last["events"]
    BY <2>4, PageEndFacts
  <2>7. goal' \in [Feeds -> Nat] /\ \A f \in Feeds : goal'[f] <= last[Table(f)]
    BY <2>1, <2>3, <2>6, <1>n
  <2> QED
    BY <2>2, <2>5, <2>7, <1>b, BridgeFrom DEF commandVars, Stages
<1>15. CASE MarkHits
  <2>1. PICK kept \in SUBSET recent["watch"] :
       /\ fetched' = [f \in Feeds |-> Fresh(f, kept)]
       /\ recent' = [recent EXCEPT !["watch"] = kept \cup fetched["watch"]]
    BY <1>15 DEF MarkHits
  <2>2. /\ tick = "watch mark" /\ tick' = "watch post"
        /\ UNCHANGED <<bot, cursor, stored, active, goal, commandVars>>
    BY <1>15 DEF MarkHits
  <2>3. \A f \in Feeds : Fresh(f, kept) \subseteq fetched[f]
    BY DEF Fresh
  <2>4. /\ fetched' \in [Feeds -> SUBSET Nat]
        /\ \A f \in Feeds : fetched'[f] \subseteq Upto(last[Table(f)])
    BY <2>1, <2>3, <1>b
  <2>5. recent' \in [Feeds -> SUBSET Nat]
    BY <2>1, <1>b
  <2> QED
    BY <2>2, <2>4, <2>5, <1>b, BridgeFrom DEF commandVars, Stages
<1>16. CASE ReadLatestEvent
  <2>1. /\ goal' = [NoGoal EXCEPT !["watch"] = WatchGoal]
        /\ tick = "watch latest" /\ tick' = "store watch"
        /\ UNCHANGED <<bot, cursor, stored, recent, active, fetched, commandVars>>
    BY <1>16 DEF ReadLatestEvent
  <2>2. Table("watch") = "events"
    BY DEF Table
  <2>3. goal' \in [Feeds -> Nat] /\ \A f \in Feeds : goal'[f] <= last[Table(f)]
    BY <2>1, <2>2, <1>n, WatchGoalFacts
  <2> QED
    BY <2>1, <2>3, <1>b, BridgeFrom DEF commandVars, Stages
<1>17. CASE TickFails
  <2>1. Rest /\ UNCHANGED <<bot, cursor, stored, recent, commandVars>>
    BY <1>17 DEF TickFails
  <2> QED
    BY <2>1, <1>b, <1>n, BridgeFrom DEF Rest, commandVars, Stages
<1>18. CASE SkipToLatest
  <2>1. bot /\ command' = "latest" /\ UNCHANGED <<stored, bot, cursor, recent, tickVars, latest>>
    BY <1>18 DEF SkipToLatest
  <2> QED
    BY <2>1, <1>b, BridgeFrom DEF tickVars
<1>19. CASE SkipRead
  <2>1. /\ command = "latest" /\ command' = "memory" /\ latest' = [f \in Feeds |-> last[Table(f)]]
        /\ UNCHANGED <<stored, bot, cursor, recent, tickVars>>
    BY <1>19 DEF SkipRead
  <2> QED
    BY <2>1, <1>b, <1>l, BridgeFrom DEF tickVars
<1>20. CASE SkipMove
  <2>1. /\ cursor' = [f \in Feeds |-> IF f \in Polled THEN latest[f] ELSE cursor[f]]
        /\ command = "memory" /\ command' = "chat"
        /\ UNCHANGED <<stored, bot, recent, tickVars, latest>>
    BY <1>20 DEF SkipMove
  <2>2. cursor' \in [Feeds -> Nat] /\ \A f \in Feeds : cursor'[f] <= last[Table(f)]
    BY <2>1, <1>b
  <2> QED
    BY <2>1, <2>2, <1>b, BridgeFrom DEF tickVars
<1>21. CASE SkipStore
  <2>1. /\ stored' = [stored EXCEPT ![command] = latest[command]]
        /\ command \in Polled /\ command' \in {"presence", "none"} /\ latest' \in {latest, NoGoal}
        /\ UNCHANGED <<bot, cursor, recent, tickVars>>
    BY <1>21 DEF SkipStore
  <2>2. stored' \in [Feeds -> Nat] /\ \A f \in Feeds : stored'[f] <= last[Table(f)]
    BY <2>1, <1>b DEF Polled
  <2>3. command # "none"
    BY <2>1 DEF Polled
  <2> QED
    BY <2>1, <2>2, <2>3, <1>b, <1>n, BridgeFrom DEF tickVars
<1>22. CASE SkipFails
  <2>1. /\ command' = "none" /\ latest' = NoGoal
        /\ UNCHANGED <<stored, bot, cursor, recent, tickVars>>
    BY <1>22 DEF SkipFails
  <2> QED
    BY <2>1, <1>b, <1>n, BridgeFrom DEF tickVars
<1> QED
  BY <1>1, <1>2, <1>3, <1>4, <1>5, <1>6, <1>7, <1>8, <1>10, <1>11, <1>12, <1>13, <1>14, <1>15,
     <1>16, <1>17, <1>18, <1>19, <1>20, <1>21, <1>22, <1>23
     DEF Next, Log, Insert, Commit, RollBack, Deliver, PostUnsure, Command, SetEnabled, SetWatch,
         Skip, vars

LEMMA ApartKept == PollTypes /\ [Next]_vars => Apart'
<1> SUFFICES ASSUME PollTypes, [Next]_vars PROVE Apart'
  OBVIOUS
<1> USE FeedNames
<1>0. Apart /\ fetched \in [Feeds -> SUBSET Nat]
  BY DEF PollTypes, BridgeTypes
<1>1. CASE UNCHANGED <<tick, fetched>>
  BY <1>0, <1>1 DEF Apart
<1>2. CASE tick' \notin {"mark", "routes", "post", "watch mark", "watch post"}
  BY <1>2 DEF Apart
<1>3. CASE Fetch
  BY <1>3 DEF Fetch, Apart, Polled, Feeds
<1>4. CASE Mark
  <2>1. tick = "mark" /\ tick' \in {"routes", "post"} /\ fetched'["watch"] \subseteq fetched["watch"]
    BY <1>4 DEF Mark, Fresh
  <2> QED
    BY <2>1, <1>0 DEF Apart
<1>5. CASE ReadRoutes
  BY <1>0, <1>5 DEF ReadRoutes, Apart
<1>6. CASE Post \/ PostFails
  <2>1. tick' = tick /\ \A f \in Feeds : fetched'[f] \subseteq fetched[f]
    BY <1>6 DEF Post, PostFails, Settled
  <2> QED
    BY <2>1, <1>0 DEF Apart, Polled, Feeds
<1>7. CASE FetchHits
  BY <1>7, Nothing DEF FetchHits, Apart, Polled, Feeds
<1>8. CASE MarkHits
  <2>1. tick = "watch mark" /\ tick' = "watch post" /\ \A f \in Feeds : fetched'[f] \subseteq fetched[f]
    BY <1>8 DEF MarkHits, Fresh
  <2> QED
    BY <2>1, <1>0 DEF Apart, Polled, Feeds
<1> QED
  BY <1>1, <1>2, <1>3, <1>4, <1>5, <1>6, <1>7, <1>8
     DEF Next, Log, Insert, Commit, RollBack, Start, Crash, Deliver, Tick, ReadLatest, PostUnsure,
         PostDone, StoreChat, StorePresence, ReadLatestEvent, StoreWatch, TickFails, StoreFails,
         Rest, Command, SetEnabled, SetWatch, SkipToLatest, Skip, SkipRead, SkipMove, SkipStore,
         SkipFails, vars, tickVars

LEMMA EnabledKept == enabled \in BOOLEAN /\ [Next]_vars => enabled' \in BOOLEAN
<1> SUFFICES ASSUME enabled \in BOOLEAN, [Next]_vars PROVE enabled' \in BOOLEAN
  OBVIOUS
<1>1. CASE UNCHANGED enabled
  BY <1>1
<1>2. CASE SetEnabled
  BY <1>2 DEF SetEnabled
<1>3. CASE SkipToLatest
  BY <1>3 DEF SkipToLatest
<1> QED
  BY <1>1, <1>2, <1>3
     DEF Next, Log, Insert, Commit, RollBack, Start, Crash, Deliver, Tick, ReadLatest, Fetch,
         Mark, ReadRoutes, Post, PostUnsure, PostFails, PostDone, StoreChat, StorePresence,
         FetchHits, MarkHits, ReadLatestEvent, StoreWatch,
         TickFails, StoreFails, Command, SetWatch, Skip, SkipRead, SkipMove, SkipStore,
         SkipFails, vars, settings

LEMMA TypesKept == PollTypes /\ [Next]_vars => PollTypes'
BY TablesKept, HistoryKept, BridgeKept, ApartKept, EnabledKept DEF PollTypes

-----------------------------------------------------------------------------
(* What may be passed only grows.                                          *)

\* The steps of a table: a row that appears was under way, and an id that is
\* under way and was taken before was so before.
LEMMA RowSteps ==
  ASSUME TableTypes, [Next]_vars, NEW t \in Tables
  PROVE  /\ rows[t] \subseteq rows'[t]
         /\ \A i \in rows'[t] \ rows[t] :
              /\ i \in Upto(last[t])
              /\ \E w \in Writers : writing[w] = [table |-> t, id |-> i]
              /\ (\E j \in rows[t] : j > i) => i \in late'[t]
              /\ t = "events" /\ Overlooking => i \in unread'
         /\ \A w \in Writers, i \in Upto(last[t]) :
              writing'[w] = [table |-> t, id |-> i] => writing[w] = [table |-> t, id |-> i]
<1>0. \A i \in Upto(last[t]) : i # 0 /\ [table |-> t, id |-> i] # NoId
  <2> TAKE i \in Upto(last[t])
  <2>1. i # 0
    BY DEF Upto
  <2> QED
    BY <2>1 DEF NoId
<1>1. CASE UNCHANGED <<rows, writing>>
  BY <1>1
<1>2. ASSUME NEW v \in Writers, Insert(v)
      PROVE  /\ UNCHANGED rows
             /\ \A w \in Writers, i \in Upto(last[t]) :
                  writing'[w] = [table |-> t, id |-> i] => writing[w] = [table |-> t, id |-> i]
  <2>1. PICK u \in Tables :
          writing' = [writing EXCEPT ![v] = [table |-> u, id |-> last[u] + 1]]
    BY <1>2 DEF Insert, Tables
  <2>2. UNCHANGED rows
    BY <1>2 DEF Insert
  <2>3. ASSUME NEW w \in Writers, NEW i \in Upto(last[t]), writing'[w] = [table |-> t, id |-> i]
        PROVE  writing[w] = [table |-> t, id |-> i]
    <3>1. CASE w # v
      BY <3>1, <2>1, <2>3 DEF TableTypes
    <3>2. CASE w = v
      <4>1. [table |-> u, id |-> last[u] + 1] = [table |-> t, id |-> i]
        BY <3>2, <2>1, <2>3 DEF TableTypes
      <4>2. u = t /\ i = last[t] + 1
        BY <4>1
      <4>3. last[t] \in Nat
        BY DEF TableTypes
      <4> QED
        BY <4>2, <4>3, InUpto
    <3> QED
      BY <3>1, <3>2
  <2> QED
    BY <2>2, <2>3
<1>3. ASSUME NEW v \in Writers, writing' = [writing EXCEPT ![v] = NoId]
      PROVE  \A w \in Writers, i \in Upto(last[t]) :
               writing'[w] = [table |-> t, id |-> i] => writing[w] = [table |-> t, id |-> i]
  BY <1>3, <1>0 DEF TableTypes
<1>4. ASSUME NEW v \in Writers, Commit(v)
      PROVE  /\ rows[t] \subseteq rows'[t]
             /\ \A i \in rows'[t] \ rows[t] :
                  /\ i \in Upto(last[t])
                  /\ \E w \in Writers : writing[w] = [table |-> t, id |-> i]
                  /\ (\E j \in rows[t] : j > i) => i \in late'[t]
                  /\ t = "events" /\ Overlooking => i \in unread'
             /\ writing' = [writing EXCEPT ![v] = NoId]
  <2>1. PICK u \in Tables, n \in Nat :
           /\ writing[v] = [table |-> u, id |-> n]
           /\ n \in Upto(last[u])
           /\ rows' = [rows EXCEPT ![u] = rows[u] \cup {n}]
           /\ late' = IF \E j \in rows[u] : j > n
                      THEN [late EXCEPT ![u] = late[u] \cup {n}] ELSE late
           /\ unread' = IF u = "events" /\ Overlooking
                        THEN unread \cup {n} ELSE unread
           /\ writing' = [writing EXCEPT ![v] = NoId]
    BY <1>4, CommitFacts
  <2>2. rows[t] \subseteq rows'[t] /\ \A i \in rows'[t] \ rows[t] : u = t /\ i = n
    BY <2>1 DEF TableTypes
  <2>3. (\E j \in rows[u] : j > n) => n \in late'[u]
    BY <2>1 DEF TableTypes
  <2>4. u = "events" /\ Overlooking => n \in unread'
    BY <2>1
  <2> QED
    BY <2>1, <2>2, <2>3, <2>4
<1>5. ASSUME NEW v \in Writers, RollBack(v)
      PROVE  UNCHANGED rows /\ writing' = [writing EXCEPT ![v] = NoId]
  BY <1>5 DEF RollBack
<1> QED
  BY <1>1, <1>2, <1>3, <1>4, <1>5
     DEF Next, Log, Start, Crash, Deliver, Tick, ReadLatest, Fetch, Mark, ReadRoutes, Post,
         PostUnsure, PostFails, PostDone, StoreChat,
         StorePresence, FetchHits, MarkHits, ReadLatestEvent, StoreWatch, TickFails, StoreFails,
         Command, SetEnabled, SetWatch, SkipToLatest, Skip, SkipRead, SkipMove, SkipStore,
         SkipFails, vars, dbVars

LEMMA AccountedGrows ==
  ASSUME PollTypes, [Next]_vars, NEW f \in Feeds
  PROVE  Accounted(f) \subseteq Accounted(f)'
<1>1. Grows
  BY HistoryKept
<1>2. /\ posted[f] \subseteq posted'[f] /\ passed[f] \subseteq passed'[f]
      /\ lost[f] \subseteq lost'[f] /\ late[Table(f)] \subseteq late'[Table(f)]
      /\ unread \subseteq unread'
  BY <1>1, TableOf DEF Grows
<1> QED
  BY <1>2 DEF Accounted, Dealt

LEMMA PassableGrows ==
  ASSUME PollTypes, [Next]_vars, NEW f \in Feeds
  PROVE  Passable(f) \subseteq Passable(f)'
<1>0. PICK t \in Tables : t = Table(f)
  BY TableOf
<1>1. Accounted(f) \subseteq Accounted(f)'
  BY AccountedGrows
<1>2. last[t] \in Nat /\ last'[t] \in Nat /\ Upto(last[t]) \subseteq Upto(last'[t])
  BY LastGrows, UptoGrows DEF PollTypes
<1>s. /\ rows[t] \subseteq rows'[t]
      /\ \A i \in rows'[t] \ rows[t] : (\E j \in rows[t] : j > i) => i \in late'[t]
      /\ \A i \in rows'[t] \ rows[t] : \E w \in Writers : writing[w] = [table |-> t, id |-> i]
      /\ \A w \in Writers, i \in Upto(last[t]) :
           writing'[w] = [table |-> t, id |-> i] => writing[w] = [table |-> t, id |-> i]
  <2>1. TableTypes
    BY DEF PollTypes
  <2> QED
    BY <2>1, RowSteps
<1>3. ASSUME NEW i \in Upto(last[t]) \ rows[t],
             \A w \in Writers : writing[w] = [table |-> t, id |-> i] => \E j \in rows[t] : j > i
      PROVE  i \in Passable(f)'
  <2>1. CASE i \in rows'[t]
    <3>1. i \in late'[t]
      BY <2>1, <1>3, <1>s
    <3> QED
      BY <3>1, <1>0 DEF Passable, Accounted, Dealt
  <2>2. CASE i \notin rows'[t]
    <3>1. \A w \in Writers :
            writing'[w] = [table |-> t, id |-> i] => \E j \in rows'[t] : j > i
      BY <1>3, <1>s
    <3>2. i \in Upto(last'[t]) \ rows'[t]
      BY <2>2, <1>2, <1>3
    <3> QED
      BY <3>1, <3>2, <1>0 DEF Passable
  <2> QED
    BY <2>1, <2>2
<1>4. \A i \in Passable(f) : i \in Passable(f)'
  <2> TAKE i \in Passable(f)
  <2>1. CASE i \in Accounted(f)
    BY <2>1, <1>1 DEF Passable
  <2>2. CASE i \notin Accounted(f)
    <3>1. /\ i \in Upto(last[t]) \ rows[t]
          /\ \A w \in Writers : writing[w] = [table |-> t, id |-> i] => \E j \in rows[t] : j > i
      BY <2>2, <1>0 DEF Passable
    <3> QED
      BY <3>1, <1>3
  <2> QED
    BY <2>1, <2>2
<1> QED
  BY <1>4

\* Rows that may be passed are accounted for.
LEMMA PassableRows ==
  ASSUME NEW f \in Feeds, NEW i \in rows[Table(f)], i \in Passable(f)
  PROVE  i \in Accounted(f)
BY DEF Passable

-----------------------------------------------------------------------------
(* Cursors stand where all before them may be passed.                      *)

LEMMA StandsFrom ==
  ASSUME NEW f \in Feeds, Upto(cursor'[f]) \subseteq Passable(f)',
         Upto(stored'[f]) \subseteq Passable(f)'
  PROVE  Stands(f)'
BY DEF Stands

\* A cursor moves to a place that may be passed, or all before it is now.
LEMMA MoveStands ==
  ASSUME PollTypes, LossInv, [Next]_vars, NEW f \in Feeds, NEW saved \in BOOLEAN,
         MoveCursor(f, saved), Due(f), NEW g \in Feeds
  PROVE  Stands(g)'
<1>1. /\ \A h \in Feeds \ {f} : cursor'[h] = cursor[h] /\ stored'[h] = stored[h]
      /\ cursor'[f] \in {goal[f], cursor[f]} /\ stored'[f] \in {goal[f], stored[f]}
      /\ passed'[f] = IF active \/ f = "watch" THEN passed[f] ELSE passed[f] \cup Upto(goal[f])
  BY MoveFacts
<1>2. Passable(g) \subseteq Passable(g)' /\ Stands(g)
  BY PassableGrows DEF LossInv
<1>3. Upto(cursor[g]) \subseteq Passable(g)' /\ Upto(stored[g]) \subseteq Passable(g)'
  BY <1>2 DEF Stands
<1>4. CASE g # f
  BY <1>1, <1>3, <1>4, StandsFrom
<1>5. CASE g = f
  <2>1. Upto(goal[f]) \subseteq Passable(f)'
    <3>1. CASE active \/ f = "watch"
      <4>1. Upto(goal[f]) \subseteq Passable(f)
        BY <3>1 DEF LossInv, Reads
      <4> QED
        BY <4>1, <1>2, <1>5
    <3>2. CASE ~(active \/ f = "watch")
      <4>1. Upto(goal[f]) \subseteq passed'[f]
        BY <3>2, <1>1
      <4> QED
        BY <4>1 DEF Passable, Accounted, Dealt
    <3> QED
      BY <3>1, <3>2
  <2> QED
    BY <2>1, <1>1, <1>3, <1>5, StandsFrom
<1> QED
  BY <1>4, <1>5

LEMMA StandsKept ==
  ASSUME PollTypes, LossInv, [Next]_vars, NEW f \in Feeds
  PROVE  Stands(f)'
<1> USE FeedNames
<1>0. /\ Passable(f) \subseteq Passable(f)'
      /\ Upto(cursor[f]) \subseteq Passable(f) /\ Upto(stored[f]) \subseteq Passable(f)
  BY PassableGrows DEF LossInv, Stands
<1>1. Upto(cursor[f]) \subseteq Passable(f)' /\ Upto(stored[f]) \subseteq Passable(f)'
  BY <1>0
<1>2. passed'[f] \subseteq Passable(f)'
  BY DEF Passable, Accounted, Dealt
<1>3. Upto(0) = {}
  BY DEF Upto
<1>4. CASE UNCHANGED <<cursor, stored>>
  BY <1>1, <1>4, StandsFrom
<1>5. CASE Start
  <2>1. cursor'[f] = FirstCursor(f) /\ stored'[f] = FirstCursor(f)
    BY <1>5 DEF Start
  <2>2. CASE f \in SeededFromLatest
    <3>1. passed'[f] = passed[f] \cup Upto(last[Table(f)])
      BY <1>5, <2>2 DEF Start
    <3>2. FirstCursor(f) = last[Table(f)]
      BY <2>2 DEF FirstCursor
    <3>3. Upto(FirstCursor(f)) \subseteq Passable(f)'
      BY <3>1, <3>2, <1>2
    <3> QED
      BY <2>1, <3>3, StandsFrom
  <2>3. CASE f \notin SeededFromLatest
    <3>1. FirstCursor(f) = stored[f]
      BY <2>3 DEF FirstCursor
    <3> QED
      BY <2>1, <3>1, <1>1, StandsFrom
  <2> QED
    BY <2>2, <2>3
<1>6. CASE Crash
  <2>1. cursor'[f] = 0 /\ stored' = stored
    BY <1>6, Nothing DEF Crash
  <2> QED
    BY <2>1, <1>1, <1>3, StandsFrom
<1>7. CASE StoreChat
  <2>1. MoveCursor("chat", TRUE) /\ Due("chat")
    BY <1>7 DEF StoreChat, Due
  <2> QED
    BY <2>1, MoveStands
<1>8. CASE StorePresence
  <2>1. MoveCursor("presence", TRUE) /\ Due("presence")
    BY <1>8 DEF StorePresence, Due
  <2> QED
    BY <2>1, MoveStands
<1>9. CASE StoreWatch
  <2>1. MoveCursor("watch", TRUE) /\ Due("watch")
    BY <1>9 DEF StoreWatch, Due
  <2> QED
    BY <2>1, MoveStands
<1>10. CASE StoreFails
  <2>1. \/ MoveCursor("chat", FALSE) /\ Due("chat")
        \/ MoveCursor("presence", FALSE) /\ Due("presence")
        \/ MoveCursor("watch", FALSE) /\ Due("watch")
    BY <1>10 DEF StoreFails, Due
  <2> QED
    BY <2>1, MoveStands
<1>11. CASE SkipMove
  <2>1. /\ cursor'[f] = IF f \in Polled THEN latest[f] ELSE cursor[f]
        /\ f \in Polled => passed'[f] = passed[f] \cup Upto(latest[f])
        /\ stored' = stored
    BY <1>11 DEF SkipMove
  <2>2. Upto(cursor'[f]) \subseteq Passable(f)'
    BY <2>1, <1>1, <1>2
  <2> QED
    BY <2>1, <2>2, <1>1, StandsFrom
<1>12. CASE SkipStore
  <2>1. /\ command \in Polled /\ cursor' = cursor /\ passed' = passed
        /\ stored' = [stored EXCEPT ![command] = latest[command]]
    BY <1>12 DEF SkipStore, history
  <2>2. stored'[f] = IF f = command THEN latest[f] ELSE stored[f]
    BY <2>1 DEF PollTypes, BridgeTypes
  <2>3. f = command => Upto(latest[f]) \subseteq passed[f]
    BY <2>1 DEF LossInv, Skipped
  <2>4. Upto(stored'[f]) \subseteq Passable(f)'
    BY <2>1, <2>2, <2>3, <1>1, <1>2
  <2> QED
    BY <2>1, <2>4, <1>1, StandsFrom
<1> QED
  BY <1>4, <1>5, <1>6, <1>7, <1>8, <1>9, <1>10, <1>11, <1>12
     DEF Next, Log, Insert, Commit, RollBack, Deliver, Tick, ReadLatest, Fetch, Mark,
         ReadRoutes, Post, PostUnsure, PostFails, PostDone, FetchHits, MarkHits, ReadLatestEvent,
         TickFails, Command, SetEnabled, SetWatch,
         SkipToLatest, Skip, SkipRead, SkipFails, vars

-----------------------------------------------------------------------------
(* A command that has set the cursors stores what it set.                  *)

LEMMA SkippedKept ==
  ASSUME PollTypes, LossInv, [Next]_vars
  PROVE  Skipped'
<1>0. \A f \in Polled : passed[f] \subseteq passed'[f]
  BY HistoryKept DEF Grows, Polled, Feeds
<1>1. CASE UNCHANGED <<command, latest>>
  BY <1>0, <1>1 DEF LossInv, Skipped
<1>2. CASE command' \notin Polled
  BY <1>2 DEF Skipped
<1>3. CASE SkipMove
  <2>1. \A f \in Polled : passed'[f] = passed[f] \cup Upto(latest[f])
    BY <1>3 DEF SkipMove, Polled, Feeds
  <2>2. latest' = latest
    BY <1>3 DEF SkipMove
  <2> QED
    BY <2>1, <2>2 DEF Skipped
<1>4. CASE SkipStore
  <2>1. /\ command \in Polled /\ command = "chat" => latest' = latest
        /\ command # "chat" => command' = "none"
        /\ passed' = passed
    BY <1>4 DEF SkipStore, history
  <2>2. CASE command = "chat"
    BY <2>1, <2>2, <1>4 DEF LossInv, Skipped, SkipStore
  <2>3. CASE command # "chat"
    BY <2>1, <2>3, <1>2 DEF Polled
  <2> QED
    BY <2>2, <2>3
<1>5. CASE Crash \/ SkipToLatest \/ SkipRead \/ SkipFails
  BY <1>5, <1>2 DEF Crash, SkipToLatest, SkipRead, SkipFails, Polled
<1> QED
  BY <1>1, <1>3, <1>4, <1>5
     DEF Next, Log, Insert, Commit, RollBack, Start, Deliver, Tick, ReadLatest, Fetch, Mark,
         ReadRoutes, Post, PostUnsure, PostFails, PostDone,
         StoreChat, StorePresence, FetchHits, MarkHits, ReadLatestEvent, StoreWatch, TickFails,
         StoreFails, Command, SetEnabled, SetWatch, Skip, vars, commandVars

-----------------------------------------------------------------------------
(* What a tick has read.                                                   *)

\* Before a row of a page, all that is not in the page may be passed.
LEMMA PageReads ==
  ASSUME PollTypes, NEW f \in Feeds, Stands(f), NEW n \in Nat, NEW r \in FetchNew(f, n)
  PROVE  Upto(r) \subseteq Passable(f) \cup FetchNew(f, n)
<1> DEFINE S == {i \in rows[Table(f)] : i > cursor[f]}
<1>1. PICK t \in Tables : t = Table(f)
  BY TableOf
<1>2. /\ last[t] \in Nat /\ rows[t] \subseteq Upto(last[t]) /\ cursor[f] \in Nat
      /\ S \in SUBSET Upto(last[t]) /\ FetchNew(f, n) = First(n, S)
  BY <1>1 DEF PollTypes, TableTypes, BridgeTypes, FetchNew
<1>3. r \in S /\ \A j \in S : j <= r => j \in First(n, S)
  BY <1>2, FirstWorks
<1>4. r \in rows[t] /\ r \in Nat /\ r <= last[t]
  BY <1>1, <1>2, <1>3, InUpto
<1>5. ASSUME NEW i \in Upto(r), i \notin FetchNew(f, n)
      PROVE  i \in Passable(f)
  <2>1. i \in Nat /\ 1 <= i /\ i <= r /\ i \in Upto(last[t])
    BY <1>2, <1>4, InUpto
  <2>2. CASE i <= cursor[f]
    <3>1. i \in Upto(cursor[f])
      BY <2>1, <2>2, <1>2, InUpto
    <3> QED
      BY <3>1 DEF Stands
  <2>3. CASE i > cursor[f]
    <3>1. i \notin rows[t]
      BY <2>1, <2>3, <1>1, <1>2, <1>3, <1>5
    <3>2. r > i
      BY <3>1, <2>1, <1>4
    <3> QED
      BY <3>1, <3>2, <2>1, <1>1, <1>4 DEF Passable
  <2> QED
    BY <2>1, <2>2, <2>3, <1>2
<1> QED
  BY <1>5

LEMMA ReadsFrom ==
  ASSUME NEW f \in Feeds,
         tick' = "mark" /\ f # "watch" =>
           \A r \in fetched'[f] : Upto(r) \subseteq Passable(f)' \cup fetched'[f],
         Going(f)' => Upto(goal'[f]) \subseteq Passable(f)' \cup fetched'[f],
         Due(f)' /\ (active' \/ f = "watch") => Upto(goal'[f]) \subseteq Passable(f)',
         tick' = "latest" => ~active'
  PROVE  Reads(f)'
BY DEF Reads

\* What leaves a tick's rows was posted or given up.
LEMMA SettledFacts ==
  ASSUME PollTypes, Post \/ PostFails, NEW f \in Feeds
  PROVE  fetched'[f] \subseteq fetched[f] /\ fetched[f] \subseteq fetched'[f] \cup Accounted(f)'
<1>1. CASE Post
  <2>1. PICK m \in Messages : Sent(m) /\ Settled(m)
    BY <1>1 DEF Post
  <2>2. fetched'[f] = fetched[f] \ m[f] /\ posted'[f] = posted[f] \cup m[f]
    BY <2>1 DEF Sent, Settled
  <2>3. m[f] \subseteq Accounted(f)'
    BY <2>2 DEF Accounted, Dealt
  <2> QED
    BY <2>2, <2>3
<1>2. CASE PostFails
  <2>1. PICK m \in Messages : lost' = [g \in Feeds |-> lost[g] \cup m[g]] /\ Settled(m)
    BY <1>2 DEF PostFails
  <2>2. fetched'[f] = fetched[f] \ m[f] /\ lost'[f] = lost[f] \cup m[f]
    BY <2>1 DEF Settled
  <2>3. m[f] \subseteq Accounted(f)'
    BY <2>2 DEF Accounted, Dealt
  <2> QED
    BY <2>2, <2>3
<1> QED
  BY <1>1, <1>2

\* Hits that are dropped for repetitions were accounted for before.
LEMMA MarkHitsFacts ==
  ASSUME PollTypes, LossInv, [Next]_vars, MarkHits
  PROVE  /\ \A f \in Feeds : fetched'[f] \subseteq fetched[f]
         /\ fetched["watch"] \subseteq fetched'["watch"] \cup Accounted("watch")'
         /\ recent'["watch"] \subseteq fetched'["watch"] \cup Accounted("watch")'
         /\ recent'["presence"] = recent["presence"]
<1> USE FeedNames
<1>1. PICK kept \in SUBSET recent["watch"] :
        /\ fetched' = [f \in Feeds |-> Fresh(f, kept)]
        /\ recent' = [recent EXCEPT !["watch"] = kept \cup fetched["watch"]]
  BY DEF MarkHits
<1>2. \A f \in Feeds : fetched'[f] \subseteq fetched[f]
  BY <1>1 DEF Fresh
<1>3. fetched'["watch"] = fetched["watch"] \ kept
  BY <1>1 DEF Fresh
<1>4. kept \subseteq Accounted("watch")'
  <2>1. recent["watch"] \subseteq Accounted("watch")
    BY DEF LossInv, Remembered, Holding, MarkHits
  <2> QED
    BY <2>1, <1>1, AccountedGrows
<1>5. recent'["watch"] = kept \cup fetched["watch"] /\ recent'["presence"] = recent["presence"]
  BY <1>1 DEF PollTypes, BridgeTypes
<1> QED
  BY <1>2, <1>3, <1>4, <1>5

LEMMA ReadsKept ==
  ASSUME PollTypes, LossInv, [Next]_vars, NEW f \in Feeds
  PROVE  Reads(f)'
<1> USE FeedNames
<1>0. Passable(f) \subseteq Passable(f)' /\ Reads(f) /\ Stands(f)
  BY PassableGrows DEF LossInv
<1>1. CASE UNCHANGED tickVars
  BY <1>0, <1>1, ReadsFrom DEF tickVars, Reads, Going, Due
<1>2. CASE tick' \in {"waits", "fetch", "watch"}
  BY <1>2, ReadsFrom DEF Going, Due
<1>3. CASE Tick
  <2>1. CASE tick' = "latest"
    <3>1. ~active'
      BY <1>3, <2>1 DEF Tick
    <3> QED
      BY <2>1, <3>1, ReadsFrom DEF Going, Due
  <2> QED
    BY <1>2, <1>3, <2>1 DEF Tick
<1>4. CASE ReadLatest
  <2>1. tick' = "store chat" /\ ~active'
    BY <1>4, <1>0 DEF ReadLatest, Reads
  <2> QED
    BY <2>1, ReadsFrom DEF Going, Due
<1>5. CASE Fetch
  <2>1. CASE tick' = "mark"
    <3>1. f # "watch" => fetched'[f] = FetchNew(f, RowsPerPoll)
      BY <1>5 DEF Fetch, Feeds, Polled
    <3>2. ASSUME f # "watch", NEW r \in fetched'[f]
          PROVE  Upto(r) \subseteq Passable(f)' \cup fetched'[f]
      <4>1. Upto(r) \subseteq Passable(f) \cup FetchNew(f, RowsPerPoll)
        BY <3>1, <3>2, <1>0, PageReads, PollFeedAssumption
      <4> QED
        BY <4>1, <3>1, <3>2, <1>0
    <3> QED
      BY <2>1, <3>2, ReadsFrom DEF Going, Due
  <2> QED
    BY <1>2, <1>5, <2>1 DEF Fetch
<1>6. CASE Mark
  <2>1. PICK kept \in SUBSET recent["presence"] : fetched' = [g \in Feeds |-> Fresh(g, kept)]
    BY <1>6 DEF Mark
  <2>2. goal'[f] = After(f) /\ tick = "mark" /\ tick' \in {"routes", "post"}
    BY <1>6 DEF Mark
  <2>3. ASSUME f # "watch"
        PROVE  Upto(goal'[f]) \subseteq Passable(f)' \cup fetched'[f]
    <3>1. Upto(After(f)) \subseteq Passable(f) \cup fetched[f]
      <4>1. CASE fetched[f] = {}
        BY <4>1, AfterFacts DEF Upto
      <4>2. CASE fetched[f] # {}
        <5>1. After(f) \in fetched[f]
          BY <4>2, AfterFacts
        <5> QED
          BY <5>1, <2>2, <2>3, <1>0 DEF Reads
      <4> QED
        BY <4>1, <4>2
    <3>2. fetched[f] \subseteq Passable(f) \cup fetched'[f]
      <4>1. CASE f = "chat"
        BY <4>1, <2>1 DEF Fresh
      <4>2. CASE f = "presence"
        <5>1. recent["presence"] \subseteq Accounted("presence")
          BY <2>2 DEF LossInv, Remembered, Holding
        <5>2. fetched'["presence"] = fetched["presence"] \ kept
          BY <2>1 DEF Fresh
        <5> QED
          BY <4>2, <5>1, <5>2, <2>1 DEF Passable
      <4> QED
        BY <4>1, <4>2, <2>3 DEF Feeds
    <3> QED
      BY <3>1, <3>2, <2>2, <1>0
  <2> QED
    BY <2>2, <2>3, ReadsFrom DEF Going, Due
<1>7. CASE Post \/ PostFails
  <2>1. tick' = tick /\ Posting /\ goal' = goal
    BY <1>7 DEF Post, PostFails
  <2>2. fetched[f] \subseteq fetched'[f] \cup Passable(f)'
    BY <1>7, SettledFacts DEF Passable
  <2>3. ASSUME Going(f)' PROVE Upto(goal'[f]) \subseteq Passable(f)' \cup fetched'[f]
    <3>1. Going(f)
      BY <2>1, <2>3 DEF Going
    <3> QED
      BY <3>1, <2>1, <2>2, <1>0 DEF Reads
  <2> QED
    BY <2>1, <2>3, ReadsFrom DEF Posting, Due
<1>12. CASE ReadRoutes
  <2>1. tick = "routes" /\ tick' = "post" /\ UNCHANGED <<goal, fetched>>
    BY <1>12 DEF ReadRoutes
  <2>2. ASSUME Going(f)' PROVE Upto(goal'[f]) \subseteq Passable(f)' \cup fetched'[f]
    <3>1. Going(f)
      BY <2>1, <2>2 DEF Going
    <3> QED
      BY <3>1, <2>1, <1>0 DEF Reads
  <2> QED
    BY <2>1, <2>2, ReadsFrom DEF Due
<1>13. CASE PostDone
  <2>1. /\ Posting /\ tick' = IF tick = "post" THEN "store chat" ELSE "watch latest"
        /\ UNCHANGED <<goal, fetched>> /\ fetched[f] = {}
    BY <1>13, Nothing DEF PostDone
  <2>2. ASSUME Going(f)' \/ Due(f)' PROVE Upto(goal'[f]) \subseteq Passable(f)'
    <3>1. Going(f)
      BY <2>1, <2>2 DEF Going, Due, Posting
    <3> QED
      BY <3>1, <2>1, <1>0 DEF Reads
  <2> QED
    BY <2>1, <2>2, ReadsFrom
<1>8. CASE StoreChat
  <2>1. tick = "store chat" /\ tick' = "store presence" /\ UNCHANGED <<active, goal>>
    BY <1>8 DEF StoreChat
  <2>2. ASSUME f = "presence", active PROVE Upto(goal'[f]) \subseteq Passable(f)'
    BY <2>1, <2>2, <1>0 DEF Reads, Due
  <2> QED
    BY <2>1, <2>2, ReadsFrom DEF Going, Due
<1>9. CASE FetchHits
  <2>1. tick' \in {"watch mark", "watch latest"}
    BY <1>9 DEF FetchHits
  <2>2. ASSUME f = "watch" PROVE Upto(goal'[f]) \subseteq Passable(f)' \cup fetched'[f]
    <3>1. PICK hits :
            /\ hits = IF watching THEN FetchNew("watch", HitsPerTick) ELSE {}
            /\ fetched' = [NoRows EXCEPT !["watch"] = hits]
            /\ goal' = [NoGoal EXCEPT !["watch"] = PageEnd(hits)]
      BY <1>9 DEF FetchHits
    <3>2. goal'[f] = PageEnd(hits) /\ fetched'[f] = hits
      BY <3>1, <2>2, Nothing
    <3>3. hits \in SUBSET Upto(last["events"])
      <4>1. Table("watch") = "events"
        BY DEF Table
      <4> QED
        BY <3>1, <4>1, PageFacts, PollFeedAssumption
    <3>4. PageEnd(hits) # 0 => PageEnd(hits) \in hits
      BY <3>3, PageEndFacts
    <3>5. CASE PageEnd(hits) = 0
      BY <3>2, <3>5 DEF Upto
    <3>6. CASE PageEnd(hits) # 0
      <4>1. hits = FetchNew(f, HitsPerTick) /\ PageEnd(hits) \in hits
        BY <3>1, <3>4, <3>6, <2>2
      <4>2. Upto(PageEnd(hits)) \subseteq Passable(f) \cup hits
        BY <4>1, <1>0, PageReads, PollFeedAssumption
      <4> QED
        BY <4>2, <3>2, <1>0
    <3> QED
      BY <3>5, <3>6
  <2> QED
    BY <2>1, <2>2, ReadsFrom DEF Going, Due
<1>10. CASE MarkHits
  <2>1. tick = "watch mark" /\ tick' = "watch post" /\ goal' = goal
    BY <1>10 DEF MarkHits
  <2>2. ASSUME f = "watch" PROVE Upto(goal'[f]) \subseteq Passable(f)' \cup fetched'[f]
    <3>1. Upto(goal[f]) \subseteq Passable(f) \cup fetched[f]
      BY <2>1, <2>2, <1>0 DEF Reads, Going
    <3>2. fetched[f] \subseteq fetched'[f] \cup Passable(f)'
      BY <2>2, <1>10, MarkHitsFacts DEF Passable
    <3> QED
      BY <3>1, <3>2, <2>1, <1>0
  <2> QED
    BY <2>1, <2>2, ReadsFrom DEF Going, Due
<1>11. CASE ReadLatestEvent
  <2>1. /\ goal' = [NoGoal EXCEPT !["watch"] = WatchGoal] /\ tick = "watch latest"
        /\ tick' = "store watch" /\ UNCHANGED <<fetched, rows, last, writing>>
        /\ goal["watch"] = 0 =>
             unread' = unread \cup
               {writing[w].id : w \in {v \in Writers : writing[v].table = "events"}}
    BY <1>11 DEF ReadLatestEvent, Overlooking, dbVars
  <2>2. ASSUME f = "watch" PROVE Upto(goal'[f]) \subseteq Passable(f)'
    <3>1. goal'[f] = WatchGoal
      BY <2>1, <2>2, Nothing
    <3>2. fetched[f] = {}
      BY <2>1, <2>2 DEF LossInv, WholePage
    <3>3. CASE goal["watch"] # 0
      <4>1. WatchGoal = goal[f] /\ Going(f)
        BY <2>1, <2>2, <3>3, WatchGoalFacts DEF Going
      <4> QED
        BY <4>1, <3>1, <3>2, <1>0 DEF Reads
    <3>4. CASE goal["watch"] = 0
      <4>1. WatchGoal = last["events"] /\ Table(f) = "events"
        BY <2>2, <3>4, WatchGoalFacts DEF Table
      <4>2. rows["events"] \subseteq Passable(f)
        BY <2>1, <2>2, <3>2, <3>4 DEF LossInv, WholePage, Passable, Overlooking
      <4>3. ASSUME NEW i \in Upto(last["events"]), i \notin rows["events"]
            PROVE  i \in Passable(f)'
        <5>1. CASE \E w \in Writers : writing[w] = [table |-> "events", id |-> i]
          <6>1. i \in unread'
            <7>1. PICK w \in Writers : writing[w] = [table |-> "events", id |-> i]
              BY <5>1
            <7>2. writing[w].table = "events" /\ writing[w].id = i
              BY <7>1
            <7> QED
              BY <7>2, <2>1, <3>4
          <6> QED
            BY <6>1, <2>2 DEF Passable, Accounted
        <5>2. CASE ~\E w \in Writers : writing[w] = [table |-> "events", id |-> i]
          BY <5>2, <4>1, <4>3, <2>1 DEF Passable
        <5> QED
          BY <5>1, <5>2
      <4> QED
        BY <4>1, <4>2, <4>3, <3>1, <1>0
    <3> QED
      BY <3>3, <3>4
  <2> QED
    BY <2>1, <2>2, ReadsFrom DEF Going, Due
<1> QED
  BY <1>1, <1>2, <1>3, <1>4, <1>5, <1>6, <1>7, <1>8, <1>9, <1>10, <1>11, <1>12, <1>13
     DEF Next, Log, Insert, Commit, RollBack, Start, Crash, Deliver, PostUnsure, StorePresence,
         StoreWatch,
         TickFails, StoreFails, Rest, Command, SetEnabled, SetWatch, SkipToLatest, Skip, SkipRead,
         SkipMove, SkipStore, SkipFails, vars

LEMMA WholePageKept ==
  ASSUME PollTypes, LossInv, [Next]_vars
  PROVE  WholePage'
<1> USE FeedNames
<1>0. Accounted("watch") \subseteq Accounted("watch")' /\ WholePage
  BY AccountedGrows DEF LossInv
<1>1. CASE UNCHANGED tickVars
  <2>1. UNCHANGED <<tick, fetched, goal>>
    BY <1>1 DEF tickVars
  <2>2. ASSUME Overlooking
        PROVE  rows'["events"] \subseteq rows["events"] \cup Accounted("watch")'
    <3>1. TableTypes /\ "events" \in Tables
      BY DEF PollTypes, Tables
    <3>2. \A i \in rows'["events"] \ rows["events"] : i \in unread'
      BY <2>2, <3>1, RowSteps
    <3> QED
      BY <3>2 DEF Accounted
  <2> QED
    BY <2>1, <2>2, <1>0 DEF WholePage, Overlooking
<1>2. CASE tick' \notin {"watch mark", "watch post", "watch latest"}
  BY <1>2 DEF WholePage, Overlooking
<1>3. CASE FetchHits
  <2>1. PICK hits :
          /\ hits = IF watching THEN FetchNew("watch", HitsPerTick) ELSE {}
          /\ fetched' = [NoRows EXCEPT !["watch"] = hits]
          /\ goal' = [NoGoal EXCEPT !["watch"] = PageEnd(hits)]
          /\ tick' = "watch latest" => hits = {}
    BY <1>3 DEF FetchHits
  <2>2. /\ fetched'["watch"] = hits /\ goal'["watch"] = PageEnd(hits) /\ rows' = rows
        /\ passed' = IF watching THEN passed
                     ELSE [passed EXCEPT !["watch"] = passed["watch"] \cup Upto(last["events"])]
    BY <2>1, <1>3, Nothing DEF FetchHits, dbVars
  <2>3. /\ last["events"] \in Nat /\ rows["events"] \subseteq Upto(last["events"])
        /\ Table("watch") = "events" /\ passed \in [Feeds -> SUBSET Nat] /\ cursor["watch"] \in Nat
    BY DEF PollTypes, TableTypes, HistoryTypes, BridgeTypes, Tables, Table
  <2>4. ASSUME PageEnd(hits) = 0
        PROVE  rows'["events"] \subseteq Accounted("watch")' \cup hits
    <3>1. CASE watching
      <4> DEFINE S == {i \in rows["events"] : i > cursor["watch"]}
      <4>1. hits = First(HitsPerTick, S) /\ S \in SUBSET Upto(last["events"])
        BY <3>1, <2>1, <2>3 DEF FetchNew
      <4>2. hits \in SUBSET Upto(last["events"])
        BY <4>1 DEF First
      <4>3. Cardinality(hits) # HitsPerTick
        BY <4>2, <2>4, PageEndFacts
      <4>4. hits = S
        BY <4>1, <4>3, <2>3, ShortPage, PollFeedAssumption
      <4>5. ASSUME NEW i \in rows["events"] \ S PROVE i \in Accounted("watch")
        <5>1. i \in Upto(last["events"]) /\ ~(i > cursor["watch"])
          BY <4>5, <2>3
        <5>2. i \in Upto(cursor["watch"])
          BY <5>1, <2>3, InUpto
        <5>3. i \in Passable("watch")
          BY <5>2 DEF LossInv, Stands
        <5> QED
          BY <5>3, <4>5, <2>3, PassableRows
      <4> QED
        BY <4>4, <4>5, <2>2, <1>0
    <3>2. CASE ~watching
      <4>1. Upto(last["events"]) \subseteq passed'["watch"]
        BY <3>2, <2>2, <2>3
      <4>2. rows["events"] \subseteq passed'["watch"]
        BY <4>1, <2>3
      <4> QED
        BY <4>2, <2>2 DEF Accounted, Dealt
    <3> QED
      BY <3>1, <3>2
  <2> QED
    BY <2>1, <2>2, <2>4 DEF WholePage, Overlooking
<1>4. CASE MarkHits
  <2>1. tick = "watch mark" /\ tick' = "watch post" /\ UNCHANGED <<goal, rows>>
    BY <1>4 DEF MarkHits, dbVars
  <2>2. fetched["watch"] \subseteq fetched'["watch"] \cup Accounted("watch")'
    BY <1>4, MarkHitsFacts
  <2>3. Overlooking' => Overlooking
    BY <2>1 DEF Overlooking
  <2> QED
    BY <2>1, <2>2, <2>3, <1>0 DEF WholePage
<1>5. CASE Post \/ PostFails
  <2>1. tick' = tick /\ Posting /\ UNCHANGED <<goal, rows>>
    BY <1>5 DEF Post, PostFails, dbVars
  <2>2. fetched["watch"] \subseteq fetched'["watch"] \cup Accounted("watch")'
    BY <1>5, SettledFacts
  <2>3. Overlooking' => Overlooking
    BY <2>1 DEF Overlooking
  <2> QED
    BY <2>1, <2>2, <2>3, <1>0 DEF WholePage, Posting
<1>6. CASE PostDone
  <2>1. tick \in {"post", "watch post"} /\ tick' = IF tick = "post" THEN "store chat" ELSE "watch latest"
    BY <1>6 DEF PostDone, Posting
  <2>2. UNCHANGED <<goal, rows, fetched>> /\ fetched["watch"] = {}
    BY <1>6, Nothing DEF PostDone, dbVars
  <2>3. Overlooking' => Overlooking
    BY <2>1, <2>2 DEF Overlooking
  <2> QED
    BY <2>2, <2>3, <1>0 DEF WholePage
<1> QED
  BY <1>1, <1>2, <1>3, <1>4, <1>5, <1>6
     DEF Next, Log, Insert, Commit, RollBack, Start, Crash, Deliver, Tick, ReadLatest, Fetch, Mark,
         ReadRoutes, PostUnsure, StoreChat, StorePresence, ReadLatestEvent, StoreWatch, TickFails,
         StoreFails, Rest, Command, SetEnabled, SetWatch, SkipToLatest, Skip, SkipRead, SkipMove,
         SkipStore, SkipFails, vars

LEMMA RememberedKept ==
  ASSUME PollTypes, LossInv, [Next]_vars, NEW f \in {"presence", "watch"}
  PROVE  Remembered(f)'
<1> USE FeedNames
<1>0. Accounted(f) \subseteq Accounted(f)' /\ Remembered(f)
  BY AccountedGrows DEF LossInv
<1>1. CASE UNCHANGED <<recent, tick, fetched>>
  BY <1>0, <1>1 DEF Remembered, Holding
<1>2. CASE UNCHANGED recent /\ (Holding(f) => fetched[f] = {})
  BY <1>0, <1>2 DEF Remembered
<1>3. CASE Mark
  <2>1. PICK kept \in SUBSET recent["presence"] :
       /\ fetched' = [g \in Feeds |-> Fresh(g, kept)]
       /\ recent' = [recent EXCEPT !["presence"] = kept \cup fetched["presence"]]
    BY <1>3 DEF Mark
  <2>2. tick = "mark" /\ tick' \in {"routes", "post"}
    BY <1>3 DEF Mark
  <2>3. recent[f] \subseteq Accounted(f)'
    BY <2>2, <1>0 DEF Remembered, Holding
  <2>4. CASE f = "presence"
    <3>1. fetched'["presence"] = fetched["presence"] \ kept
      BY <2>1 DEF Fresh
    <3>2. recent'["presence"] = kept \cup fetched["presence"]
      BY <2>1 DEF PollTypes, BridgeTypes
    <3>3. recent'[f] \subseteq fetched'[f] \cup Accounted(f)'
      BY <2>1, <2>3, <2>4, <3>1, <3>2
    <3>4. Holding(f)'
      BY <2>2, <2>4 DEF Holding
    <3> QED
      BY <3>3, <3>4 DEF Remembered
  <2>5. CASE f = "watch"
    <3>1. recent'[f] = recent[f]
      BY <2>1, <2>5 DEF PollTypes, BridgeTypes
    <3> QED
      BY <2>3, <3>1 DEF Remembered
  <2> QED
    BY <2>4, <2>5
<1>4. CASE ReadRoutes
  <2>1. UNCHANGED <<recent, fetched>> /\ tick = "routes" /\ tick' = "post"
    BY <1>4 DEF ReadRoutes
  <2>2. Holding(f)' <=> Holding(f)
    BY <2>1 DEF Holding
  <2> QED
    BY <2>1, <2>2, <1>0 DEF Remembered
<1>5. CASE Post \/ PostFails
  <2>1. UNCHANGED <<recent, tick>>
    BY <1>5 DEF Post, PostFails
  <2>2. fetched[f] \subseteq fetched'[f] \cup Accounted(f)'
    BY <1>5, SettledFacts
  <2>3. Holding(f)' <=> Holding(f)
    BY <2>1 DEF Holding
  <2> QED
    BY <2>1, <2>2, <2>3, <1>0 DEF Remembered
<1>6. CASE PostDone
  <2>1. fetched[f] = {} /\ recent' = recent
    BY <1>6, Nothing DEF PostDone
  <2> QED
    BY <2>1, <1>2
<1>7. CASE TickFails /\ tick = "routes"
  <2>1. /\ lost' = [lost EXCEPT !["presence"] = lost["presence"] \cup fetched["presence"]]
        /\ recent' = recent
    BY <1>7 DEF TickFails
  <2>2. fetched["presence"] \subseteq lost'["presence"]
    BY <2>1 DEF PollTypes, HistoryTypes
  <2>3. f = "presence" => fetched[f] \subseteq Accounted(f)'
    BY <2>2 DEF Accounted, Dealt
  <2>4. Holding(f) => f = "presence"
    BY <1>7 DEF Holding
  <2> QED
    BY <2>1, <2>3, <2>4, <1>0 DEF Remembered
<1>8. CASE Crash
  <2>1. recent'[f] = {}
    BY <1>8, Nothing DEF Crash
  <2> QED
    BY <2>1 DEF Remembered
<1>9. CASE MarkHits
  <2>1. tick = "watch mark" /\ tick' = "watch post"
    BY <1>9 DEF MarkHits
  <2>2. CASE f = "watch"
    <3>1. Holding(f)'
      BY <2>1, <2>2 DEF Holding
    <3> QED
      BY <1>9, <2>2, <3>1, MarkHitsFacts DEF Remembered
  <2>3. CASE f = "presence"
    <3>1. recent'[f] = recent[f] /\ ~Holding(f)
      BY <1>9, <2>1, <2>3, MarkHitsFacts DEF Holding
    <3> QED
      BY <3>1, <1>0 DEF Remembered
  <2> QED
    BY <2>2, <2>3
<1> QED
  BY <1>1, <1>2, <1>3, <1>4, <1>5, <1>6, <1>7, <1>8, <1>9
     DEF Next, Log, Insert, Commit, RollBack, Start, Deliver, Tick, ReadLatest, Fetch, PostUnsure,
         StoreChat, StorePresence, FetchHits, ReadLatestEvent, StoreWatch, TickFails, StoreFails,
         Command, SetEnabled, SetWatch, SkipToLatest, Skip, SkipRead, SkipMove, SkipStore,
         SkipFails, Holding, vars, tickVars

LEMMA LossKept == PollTypes /\ LossInv /\ [Next]_vars => LossInv'
<1> SUFFICES ASSUME PollTypes, LossInv, [Next]_vars PROVE LossInv'
  OBVIOUS
<1>1. \A f \in Feeds : Stands(f)'
  BY StandsKept
<1>2. \A f \in Feeds : Reads(f)'
  BY ReadsKept
<1>3. \A f \in Feeds : f # "chat" => Remembered(f)'
  BY RememberedKept DEF Feeds
<1>4. WholePage'
  BY WholePageKept
<1>5. Skipped'
  BY SkippedKept
<1> QED
  BY <1>1, <1>2, <1>3, <1>4, <1>5 DEF LossInv

-----------------------------------------------------------------------------
(* What is posted twice.                                                   *)

LEMMA ReplaysFrom ==
  ASSUME NEW f \in Feeds,
         twice'[f] \subseteq replayable'[f] \cup unsure'[f],
         ~Moving(f)' => {i \in posted'[f] : i > Base(f)'} \subseteq replayable'[f],
         tick' \in {"mark", "routes", "post", "watch mark", "watch post"} =>
           fetched'[f] \cap posted'[f] \subseteq replayable'[f] \cup unsure'[f]
  PROVE  Replays(f)'
BY DEF Replays

\* A message adds to what was posted twice only what this tick has read again.
LEMMA SentReplays ==
  ASSUME PollTypes, ReplayInv, [Next]_vars, Posting, NEW f \in Feeds,
         NEW m \in Messages, Sent(m), fetched'[f] \subseteq fetched[f], tick' = tick,
         UNCHANGED <<bot, cursor, stored>>,
         (fetched'[f] \cap m[f]) \subseteq unsure'[f]
  PROVE  Replays(f)'
<1>0. Replays(f) /\ replayable[f] \subseteq replayable'[f] /\ unsure[f] \subseteq unsure'[f]
  BY HistoryKept DEF ReplayInv, Grows
<1>1. /\ posted'[f] = posted[f] \cup m[f] /\ twice'[f] = twice[f] \cup (m[f] \cap posted[f])
      /\ m[f] \subseteq fetched[f]
  BY DEF Sent, Messages
<1>2. tick \in {"post", "watch post"}
  BY DEF Posting
<1>3. fetched[f] \cap posted[f] \subseteq replayable[f] \cup unsure[f]
  BY <1>0, <1>2 DEF Replays
<1>4. twice'[f] \subseteq replayable'[f] \cup unsure'[f]
  BY <1>0, <1>1, <1>3 DEF Replays
<1>5. fetched'[f] \cap posted'[f] \subseteq replayable'[f] \cup unsure'[f]
  BY <1>0, <1>1, <1>3
<1>6. ASSUME ~Moving(f)' PROVE {i \in posted'[f] : i > Base(f)'} \subseteq replayable'[f]
  <2>1. ~Moving(f) /\ Base(f)' = Base(f)
    BY <1>6 DEF Moving, Due, Base
  <2>2. fetched[f] = {}
    <3>1. tick = "post" => f = "watch"
      BY <1>6 DEF Moving
    <3>2. tick = "watch post" => f # "watch"
      BY <1>6 DEF Moving
    <3> QED
      BY <3>1, <3>2, <1>2 DEF PollTypes, Apart, Polled, Feeds
  <2>3. posted'[f] = posted[f]
    BY <2>2, <1>1
  <2> QED
    BY <2>1, <2>3, <1>0 DEF Replays
<1> QED
  BY <1>4, <1>5, <1>6, ReplaysFrom

LEMMA MoveReplays ==
  ASSUME PollTypes, ReplayInv, [Next]_vars, NEW f \in Feeds, NEW saved \in BOOLEAN,
         MoveCursor(f, saved), Due(f), UNCHANGED <<posted, twice, unsure, bot>>,
         tick' \in {"waits", "store presence"}, bot,
         NEW g \in Feeds, saved /\ g # f => (Moving(g) => Moving(g)')
  PROVE  Replays(g)'
<1>1. /\ \A h \in Feeds \ {f} : cursor'[h] = cursor[h]
      /\ \A h \in Feeds : replayable[h] \subseteq replayable'[h]
      /\ {i \in posted[f] : i > cursor'[f]} \subseteq replayable'[f]
      /\ ~saved => \A h \in Feeds : {i \in posted[h] : i > cursor'[h]} \subseteq replayable'[h]
  BY MoveFacts
<1>2. Replays(g) /\ Base(g) = cursor[g] /\ Base(g)' = cursor'[g]
  BY DEF ReplayInv, Base
<1>3. twice'[g] \subseteq replayable'[g] \cup unsure'[g]
  BY <1>1, <1>2 DEF Replays
<1>4. ASSUME ~Moving(g)' PROVE {i \in posted'[g] : i > Base(g)'} \subseteq replayable'[g]
  <2>1. CASE g = f \/ ~saved
    BY <2>1, <1>1, <1>2
  <2>2. CASE g # f /\ saved
    <3>1. ~Moving(g) /\ cursor'[g] = cursor[g]
      BY <2>2, <1>1, <1>4
    <3>2. {i \in posted[g] : i > cursor[g]} \subseteq replayable[g]
      BY <3>1, <1>2 DEF Replays
    <3> QED
      BY <3>1, <3>2, <1>1, <1>2
  <2> QED
    BY <2>1, <2>2
<1> QED
  BY <1>3, <1>4, ReplaysFrom

LEMMA ReplaysKept ==
  ASSUME PollTypes, ReplayInv, [Next]_vars, NEW f \in Feeds
  PROVE  Replays(f)'
<1> USE FeedNames
<1>0. Replays(f) /\ replayable[f] \subseteq replayable'[f] /\ unsure[f] \subseteq unsure'[f]
  BY HistoryKept DEF ReplayInv, Grows
<1>b. /\ bot \in BOOLEAN /\ (tick # "waits" \/ command # "none" => bot)
      /\ cursor \in [Feeds -> Nat] /\ stored \in [Feeds -> Nat] /\ latest \in [Feeds -> Nat]
      /\ stored[f] <= last[Table(f)] /\ last[Table(f)] \in Nat
      /\ posted \in [Feeds -> SUBSET Nat] /\ twice \in [Feeds -> SUBSET Nat]
      /\ HistoryTypes
  BY TableOf DEF PollTypes, BridgeTypes, TableTypes, HistoryTypes
<1>1. ASSUME UNCHANGED <<posted, twice>>, Base(f)' = Base(f), Moving(f) => Moving(f)',
             tick' \in {"mark", "routes", "post", "watch mark", "watch post"} =>
               fetched'[f] \cap posted[f] \subseteq replayable'[f] \cup unsure'[f]
      PROVE  Replays(f)'
  <2>1. twice'[f] \subseteq replayable'[f] \cup unsure'[f]
    BY <1>0, <1>1 DEF Replays
  <2>2. ~Moving(f)' => {i \in posted'[f] : i > Base(f)'} \subseteq replayable'[f]
    BY <1>0, <1>1 DEF Replays
  <2> QED
    BY <2>1, <2>2, <1>1, ReplaysFrom
<1>2. CASE UNCHANGED <<posted, twice, bot, cursor, stored, tick, fetched>>
  BY <1>0, <1>1, <1>2 DEF Replays, Base, Moving, Due
<1>3. CASE Start
  <2>1. /\ ~bot /\ bot' /\ cursor'[f] = FirstCursor(f)
        /\ UNCHANGED <<posted, twice, tick, fetched>>
    BY <1>3 DEF Start, tickVars
  <2>2. FirstCursor(f) \in Nat /\ stored[f] <= FirstCursor(f)
    BY <1>b DEF FirstCursor
  <2>3. Base(f) = stored[f] /\ Base(f)' = FirstCursor(f)
    BY <2>1 DEF Base
  <2>4. ASSUME ~Moving(f)' PROVE {i \in posted'[f] : i > Base(f)'} \subseteq replayable'[f]
    <3>1. ~Moving(f)
      BY <2>1, <2>4 DEF Moving, Due
    <3>2. {i \in posted[f] : i > stored[f]} \subseteq replayable[f]
      BY <3>1, <2>3, <1>0 DEF Replays
    <3>3. ASSUME NEW i \in posted'[f], i > FirstCursor(f) PROVE i \in replayable'[f]
      <4>1. i \in posted[f] /\ i \in Nat /\ stored[f] \in Nat
        BY <3>3, <2>1, <1>b
      <4>2. i > stored[f]
        BY <4>1, <3>3, <2>2
      <4> QED
        BY <4>1, <4>2, <3>2, <1>0
    <3> QED
      BY <3>3, <2>3
  <2> QED
    BY <2>1, <2>4, <1>0, ReplaysFrom DEF Replays
<1>4. CASE Crash
  <2>1. /\ replayable' = Behind(stored) /\ bot' = FALSE /\ tick' = "waits"
        /\ UNCHANGED <<posted, twice, stored>>
    BY <1>4 DEF Crash
  <2>2. Behind(stored)[f] = replayable[f] \cup {i \in posted[f] : i > stored[f]}
    BY <1>b, BehindTypes
  <2> QED
    BY <2>1, <2>2, <1>0, ReplaysFrom DEF Replays, Base
<1>5. CASE Tick \/ ReadLatest
  <2>1. /\ UNCHANGED <<posted, twice, bot, cursor, stored>>
        /\ tick \in {"waits", "latest"} /\ tick' \in {"watch", "fetch", "latest", "store chat"}
    BY <1>5 DEF Tick, ReadLatest, history
  <2> QED
    BY <2>1, <1>1 DEF Base, Moving, Due
<1>6. CASE Fetch
  <2>1. /\ UNCHANGED <<posted, twice, bot, cursor, stored>> /\ tick = "fetch" /\ bot
        /\ fetched'[f] = IF f \in Polled THEN FetchNew(f, RowsPerPoll) ELSE {}
    BY <1>6, <1>b DEF Fetch, history
  <2>2. {i \in posted[f] : i > cursor[f]} \subseteq replayable[f]
    BY <2>1, <1>0 DEF Replays, Moving, Due, Base
  <2>3. fetched'[f] \cap posted[f] \subseteq replayable[f]
    <3>1. \A i \in FetchNew(f, RowsPerPoll) : i > cursor[f]
      BY PageFacts, PollFeedAssumption
    <3> QED
      BY <3>1, <2>1, <2>2
  <2> QED
    BY <2>1, <2>3, <1>0, <1>1 DEF Base, Moving, Due
<1>7. CASE Mark
  <2>1. PICK kept : fetched' = [g \in Feeds |-> Fresh(g, kept)]
    BY <1>7 DEF Mark
  <2>2. UNCHANGED <<posted, twice, bot, cursor, stored>> /\ tick = "mark" /\ tick' \in {"routes", "post"}
    BY <1>7 DEF Mark, history
  <2>3. fetched'[f] \subseteq fetched[f]
    BY <2>1 DEF Fresh
  <2>4. fetched'[f] \cap posted[f] \subseteq replayable'[f] \cup unsure'[f]
    BY <2>2, <2>3, <1>0 DEF Replays
  <2> QED
    BY <2>2, <2>4, <1>1 DEF Base, Moving, Due
<1>8. CASE Post \/ PostUnsure
  <2>1. Posting /\ tick' = tick /\ UNCHANGED <<bot, cursor, stored>>
    BY <1>8 DEF Post, PostUnsure, tickVars
  <2>2. CASE Post
    <3>1. PICK m \in Messages : Sent(m) /\ Settled(m)
      BY <2>2 DEF Post
    <3>2. fetched'[f] = fetched[f] \ m[f]
      BY <3>1 DEF Settled
    <3> QED
      BY <2>1, <3>1, <3>2, SentReplays
  <2>3. CASE PostUnsure
    <3>1. PICK m \in Messages : Sent(m) /\ unsure' = [g \in Feeds |-> unsure[g] \cup m[g]]
      BY <2>3 DEF PostUnsure
    <3>2. fetched'[f] = fetched[f] /\ unsure'[f] = unsure[f] \cup m[f]
      BY <2>3, <3>1 DEF PostUnsure, tickVars
    <3> QED
      BY <2>1, <3>1, <3>2, SentReplays
  <2> QED
    BY <1>8, <2>2, <2>3
<1>9. CASE StoreChat
  <2>1. /\ MoveCursor("chat", TRUE) /\ Due("chat") /\ UNCHANGED <<posted, twice, unsure, bot>>
        /\ tick = "store chat" /\ tick' = "store presence" /\ bot
    BY <1>9, <1>b DEF StoreChat, Due
  <2>2. f # "chat" => (Moving(f) => Moving(f)')
    BY <2>1 DEF Moving, Due, Feeds
  <2> QED
    BY <2>1, <2>2, MoveReplays
<1>10. CASE StorePresence
  <2>1. /\ MoveCursor("presence", TRUE) /\ Due("presence") /\ UNCHANGED <<posted, twice, unsure, bot>>
        /\ tick = "store presence" /\ tick' = "waits" /\ bot
    BY <1>10, <1>b DEF StorePresence, Due, Rest
  <2>2. f # "presence" => ~Moving(f)
    BY <2>1 DEF Moving, Due
  <2> QED
    BY <2>1, <2>2, MoveReplays
<1>11. CASE StoreWatch
  <2>1. /\ MoveCursor("watch", TRUE) /\ Due("watch") /\ UNCHANGED <<posted, twice, unsure, bot>>
        /\ tick = "store watch" /\ tick' = "waits" /\ bot
    BY <1>11, <1>b DEF StoreWatch, Due, Rest
  <2>2. f # "watch" => ~Moving(f)
    BY <2>1 DEF Moving, Due
  <2> QED
    BY <2>1, <2>2, MoveReplays
<1>12. CASE StoreFails
  <2>1. /\ \E g \in Feeds : MoveCursor(g, FALSE) /\ Due(g)
        /\ UNCHANGED <<posted, twice, unsure, bot>> /\ tick' = "waits" /\ bot
    BY <1>12, <1>b DEF StoreFails, Due, Rest
  <2> QED
    BY <2>1, MoveReplays
<1>13. CASE FetchHits
  <2>1. /\ UNCHANGED <<posted, twice, bot, cursor, stored>> /\ tick = "watch" /\ bot
        /\ tick' \in {"watch mark", "watch latest"}
        /\ fetched'[f] = IF f = "watch" /\ watching THEN FetchNew(f, HitsPerTick) ELSE {}
    <3>1. PICK hits :
            /\ hits = IF watching THEN FetchNew("watch", HitsPerTick) ELSE {}
            /\ fetched' = [NoRows EXCEPT !["watch"] = hits]
            /\ tick' = IF hits = {} THEN "watch latest" ELSE "watch mark"
      BY <1>13 DEF FetchHits
    <3>2. fetched'[f] = IF f = "watch" THEN hits ELSE {}
      BY <3>1 DEF NoRows
    <3>3. UNCHANGED <<posted, twice, bot, cursor, stored>> /\ tick = "watch" /\ bot
      BY <1>13, <1>b DEF FetchHits
    <3> QED
      BY <3>1, <3>2, <3>3
  <2>2. {i \in posted[f] : i > cursor[f]} \subseteq replayable[f]
    BY <2>1, <1>0 DEF Replays, Moving, Due, Base
  <2>3. fetched'[f] \cap posted[f] \subseteq replayable[f]
    <3>1. \A i \in FetchNew(f, HitsPerTick) : i > cursor[f]
      BY PageFacts, PollFeedAssumption
    <3> QED
      BY <3>1, <2>1, <2>2
  <2> QED
    BY <2>1, <2>3, <1>0, <1>1 DEF Base, Moving, Due
<1>14. CASE MarkHits
  <2>1. PICK kept : fetched' = [g \in Feeds |-> Fresh(g, kept)]
    BY <1>14 DEF MarkHits
  <2>2. /\ UNCHANGED <<posted, twice, bot, cursor, stored>>
        /\ tick = "watch mark" /\ tick' = "watch post"
    BY <1>14 DEF MarkHits, history
  <2>3. fetched'[f] \subseteq fetched[f]
    BY <2>1 DEF Fresh
  <2>4. fetched'[f] \cap posted[f] \subseteq replayable'[f] \cup unsure'[f]
    BY <2>2, <2>3, <1>0 DEF Replays
  <2> QED
    BY <2>2, <2>4, <1>1 DEF Base, Moving, Due
<1>19. CASE ReadRoutes
  <2>1. /\ UNCHANGED <<posted, twice, bot, cursor, stored, fetched>>
        /\ tick = "routes" /\ tick' = "post"
    BY <1>19 DEF ReadRoutes, history
  <2>2. fetched'[f] \cap posted[f] \subseteq replayable'[f] \cup unsure'[f]
    BY <2>1, <1>0 DEF Replays
  <2> QED
    BY <2>1, <2>2, <1>1 DEF Base, Moving, Due
<1>20. CASE PostFails
  <2>1. PICK m \in Messages : Settled(m)
    BY <1>20 DEF PostFails
  <2>2. UNCHANGED <<posted, twice, bot, cursor, stored, tick>>
    BY <1>20 DEF PostFails
  <2>3. fetched'[f] \subseteq fetched[f]
    BY <2>1 DEF Settled
  <2>4. tick \in {"mark", "routes", "post", "watch mark", "watch post"} =>
          fetched'[f] \cap posted[f] \subseteq replayable'[f] \cup unsure'[f]
    BY <2>2, <2>3, <1>0 DEF Replays
  <2> QED
    BY <2>2, <2>4, <1>1 DEF Base, Moving, Due
<1>21. CASE PostDone
  <2>1. /\ UNCHANGED <<posted, twice, bot, cursor, stored>>
        /\ tick \in {"post", "watch post"}
        /\ tick' = IF tick = "post" THEN "store chat" ELSE "watch latest"
    BY <1>21 DEF PostDone, Posting, history
  <2> QED
    BY <2>1, <1>1 DEF Base, Moving, Due
<1>15. CASE ReadLatestEvent
  <2>1. /\ UNCHANGED <<posted, twice, bot, cursor, stored>>
        /\ tick = "watch latest" /\ tick' = "store watch"
    BY <1>15 DEF ReadLatestEvent
  <2> QED
    BY <2>1, <1>1 DEF Base, Moving, Due
<1>16. CASE TickFails
  <2>1. /\ replayable' = Behind(cursor) /\ bot /\ tick' = "waits"
        /\ UNCHANGED <<posted, twice, bot, cursor>>
    BY <1>16, <1>b DEF TickFails, Rest
  <2>2. Behind(cursor)[f] = replayable[f] \cup {i \in posted[f] : i > cursor[f]}
    BY <1>b, BehindTypes
  <2> QED
    BY <2>1, <2>2, <1>0, ReplaysFrom DEF Replays, Base
<1>17. CASE SkipMove
  <2>1. /\ cursor'[f] = IF f \in Polled THEN latest[f] ELSE cursor[f]
        /\ bot /\ UNCHANGED <<posted, twice, bot, tick, fetched>>
    BY <1>17, <1>b DEF SkipMove, tickVars
  <2>2. PICK b : b = Behind(latest)
    OBVIOUS
  <2>3. b[f] = replayable[f] \cup {i \in posted[f] : i > latest[f]}
    BY <2>2, <1>b, BehindTypes
  <2>4. replayable'[f] = IF f \in Polled THEN b[f] ELSE replayable[f]
    BY <2>2, <1>17 DEF SkipMove
  <2>5. Base(f) = cursor[f] /\ Base(f)' = cursor'[f]
    BY <2>1 DEF Base
  <2>6. ASSUME ~Moving(f)' PROVE {i \in posted'[f] : i > Base(f)'} \subseteq replayable'[f]
    <3>1. CASE f \in Polled
      BY <3>1, <2>1, <2>3, <2>4, <2>5
    <3>2. CASE f \notin Polled
      <4>1. ~Moving(f)
        BY <2>1, <2>6 DEF Moving, Due
      <4>2. {i \in posted[f] : i > cursor[f]} \subseteq replayable[f]
        BY <4>1, <2>5, <1>0 DEF Replays
      <4> QED
        BY <3>2, <4>2, <2>1, <2>4, <2>5
    <3> QED
      BY <3>1, <3>2
  <2>7. /\ twice'[f] \subseteq replayable'[f] \cup unsure'[f]
        /\ tick' \in {"mark", "routes", "post", "watch mark", "watch post"} =>
             fetched'[f] \cap posted'[f] \subseteq replayable'[f] \cup unsure'[f]
    BY <2>1, <1>0 DEF Replays
  <2> QED
    BY <2>6, <2>7, ReplaysFrom
<1>18. CASE SkipStore
  <2>1. /\ bot /\ UNCHANGED <<posted, twice, bot, cursor, tick, fetched>>
    BY <1>18, <1>b DEF SkipStore, tickVars, history, Polled
  <2> QED
    BY <2>1, <1>0, <1>1 DEF Replays, Base, Moving, Due
<1> QED
  BY <1>2, <1>3, <1>4, <1>5, <1>6, <1>7, <1>8, <1>9, <1>10, <1>11, <1>12, <1>13, <1>14, <1>15,
     <1>16, <1>17, <1>18, <1>19, <1>20, <1>21
     DEF Next, Log, Insert, Commit, RollBack, Deliver, Command, SetEnabled, SetWatch,
         SkipToLatest, Skip, SkipRead, SkipFails, vars, tickVars, history

-----------------------------------------------------------------------------
(* The theorems.                                                           *)

LEMMA PollInvInit == Init => PollInv
<1> SUFFICES ASSUME Init PROVE PollInv
  OBVIOUS
<1>1. PollTypes
  BY TypesInit
<1>2. /\ tick = "waits" /\ command = "none" /\ active = FALSE
      /\ cursor = NoGoal /\ stored = NoGoal /\ recent = NoRows
      /\ posted = NoRows /\ twice = NoRows
  BY DEF Init
<1>3. \A f \in Feeds : Stands(f)
  BY <1>2, Nothing DEF Stands, Upto
<1>4. \A f \in Feeds : Reads(f) /\ Remembered(f)
  BY <1>2, Nothing DEF Reads, Going, Due, Remembered
<1>5. WholePage /\ Skipped
  BY <1>2 DEF WholePage, Overlooking, Skipped, Polled
<1>6. \A f \in Feeds : Replays(f)
  BY <1>2, Nothing DEF Replays
<1> QED
  BY <1>1, <1>3, <1>4, <1>5, <1>6 DEF PollInv, LossInv, ReplayInv

LEMMA PollInvStep == PollInv /\ [Next]_vars => PollInv'
<1> SUFFICES ASSUME PollInv, [Next]_vars PROVE PollInv'
  OBVIOUS
<1>1. PollTypes' /\ LossInv'
  BY TypesKept, LossKept DEF PollInv
<1>2. ReplayInv'
  BY ReplaysKept DEF PollInv, ReplayInv
<1> QED
  BY <1>1, <1>2 DEF PollInv

LEMMA PollInvWorks == PollInv => CursorsAccounted /\ ReplaysAccounted
<1> SUFFICES ASSUME PollInv PROVE CursorsAccounted /\ ReplaysAccounted
  OBVIOUS
<1>1. ASSUME NEW f \in Feeds, NEW i \in rows[Table(f)], i <= cursor[f] \/ i <= stored[f]
      PROVE  i \in Accounted(f)
  <2>1. PICK t \in Tables : t = Table(f)
    BY TableOf
  <2>2. /\ rows[t] \subseteq Upto(last[t]) /\ last[t] \in Nat
        /\ cursor[f] \in Nat /\ stored[f] \in Nat
    BY DEF PollInv, PollTypes, TableTypes, BridgeTypes
  <2>3. i \in Nat /\ 1 <= i
    BY <2>1, <2>2, InUpto
  <2>4. i \in Upto(cursor[f]) \/ i \in Upto(stored[f])
    BY <2>2, <2>3, <1>1, InUpto
  <2>5. i \in Passable(f)
    BY <2>4 DEF PollInv, LossInv, Stands
  <2> QED
    BY <2>5, PassableRows
<1>2. LossAccounted
  <2>1. \A f \in Polled : f \in Feeds /\ Accounted(f) = Dealt(f)
    BY DEF Polled, Feeds, Accounted
  <2> QED
    BY <2>1, <1>1 DEF LossAccounted
<1>3. HitsAccounted
  <2>1. /\ "watch" \in Feeds /\ Table("watch") = "events"
        /\ Accounted("watch") = Dealt("watch") \cup unread
    BY DEF Feeds, Table, Accounted
  <2> QED
    BY <2>1, <1>1 DEF HitsAccounted
<1>4. ReplaysAccounted
  BY DEF PollInv, ReplayInv, Replays, ReplaysAccounted
<1> QED
  BY <1>2, <1>3, <1>4 DEF CursorsAccounted

\* The state of a bridge is well typed, no cursor is ahead of its table, and
\* cursors stand, in memory and stored, where all before them may be passed.
THEOREM PollInvariant == Spec => []PollInv
<1> QED
  BY PollInvInit, PollInvStep, PTL DEF Spec

\* No cursor, in memory or stored, passes a row that was not dealt with.
THEOREM CursorsKept == Spec => []CursorsAccounted
<1>1. PollInv => CursorsAccounted
  BY PollInvWorks
<1> QED
  BY <1>1, PollInvariant, PTL

\* A row is only posted twice when no cursor survived its first post, or when
\* a request that posted it was answered with an error.
THEOREM ReplaysExplained == Spec => []ReplaysAccounted
<1>1. PollInv => ReplaysAccounted
  BY PollInvWorks
<1> QED
  BY <1>1, PollInvariant, PTL
=============================================================================
