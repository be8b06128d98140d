----------------------------- MODULE DayRollups ------------------------------
(***************************************************************************)
(* The totals of each UTC day (stats_daily, player_daily), which every     *)
(* writer task rebuilds from the rows once a minute: today's, and          *)
(* yesterday's once, when it finds that the day has changed since it last  *)
(* did.  Rows carry the time at which they were received, and reach their  *)
(* table with a later flush.                                               *)
(***************************************************************************)
EXTENDS Integers, FiniteSets

CONSTANTS
  Rollers,            \* writer tasks that share the database
  LastDay,            \* bound: days, from 0
  MaxDayRows,         \* bound: rows received
  MaxRollupTroubles   \* bound: failed refreshes, restarts

ASSUME RollupAssumption ==
  /\ LastDay \in Nat /\ MaxDayRows \in Nat /\ MaxRollupTroubles \in Nat

VARIABLES
  day,         \* Utc::now().date_naive()
  carried,     \* rows of each day that a writer has yet to flush
  stored,      \* rows of each day in the tables
  totals,      \* what the rollups say of each day
  rollupDay,   \* Flusher.rollup_day, Unknown after a start
  rolling,     \* the day a refresh is to start with and the day it took for today
  unclosed,    \* history: days whose totals something known has left behind
  dayRows, rollupTroubles

dayVars == <<day, carried, stored, totals, rollupDay, rolling, unclosed, dayRows, rollupTroubles>>

Days == 0..LastDay
Unknown == -1
Idle == <<Unknown, Unknown>>

-----------------------------------------------------------------------------
\* Mutant: the day is never closed.
TodayOnly(w) == day

\* refresh_rollups: where the refresh starts.
RefreshFrom(w) == IF rollupDay[w] # Unknown /\ rollupDay[w] < day THEN day - 1 ELSE day

\* What w is still to refresh, now or at one of its next ticks.
Reaches(w, d) ==
  \/ d >= day
  \/ d = day - 1 /\ rollupDay[w] \in 0..d
  \/ rolling[w] # Idle /\ rolling[w][1] <= d /\ d <= rolling[w][2]

Behind == {d \in 0..day : totals[d] # stored[d] /\ \A w \in Rollers : ~Reaches(w, d)}

RollupsInit ==
  /\ day = 0
  /\ carried = [w \in Rollers |-> [d \in Days |-> 0]]
  /\ stored = [d \in Days |-> 0]
  /\ totals = [d \in Days |-> 0]
  /\ rollupDay = [w \in Rollers |-> Unknown]
  /\ rolling = [w \in Rollers |-> Idle]
  /\ unclosed = {}
  /\ dayRows = 0
  /\ rollupTroubles = 0

\* What a step of one of the known causes leaves behind.
Leaves == unclosed' = unclosed \cup Behind'

\* Midnight.  A refresh that is late by a day does not reach two days back.
Midnight ==
  /\ day < LastDay
  /\ day' = day + 1
  /\ UNCHANGED <<carried, stored, totals, rollupDay, rolling, dayRows, rollupTroubles>>
  /\ Leaves

ReceiveRow(w) ==
  /\ dayRows < MaxDayRows
  /\ dayRows' = dayRows + 1
  /\ carried' = [carried EXCEPT ![w][day] = @ + 1]
  /\ UNCHANGED <<day, stored, totals, rollupDay, rolling, unclosed, rollupTroubles>>

\* The flush.  Yesterday's rows may come after everybody has closed the day.
StoreRows(w) ==
  /\ rolling[w] = Idle
  /\ \E d \in Days : carried[w][d] > 0
  /\ stored' = [d \in Days |-> stored[d] + carried[w][d]]
  /\ carried' = [carried EXCEPT ![w] = [d \in Days |-> 0]]
  /\ UNCHANGED <<day, totals, rollupDay, rolling, dayRows, rollupTroubles>>
  /\ Leaves

\* refresh_rollups looks at the clock ..
BeginRefresh(w) ==
  /\ rolling[w] = Idle
  /\ rolling' = [rolling EXCEPT ![w] = <<RefreshFrom(w), day>>]
  /\ UNCHANGED <<day, carried, stored, totals, rollupDay, unclosed, dayRows, rollupTroubles>>

\* .. and has the days rebuilt.  The partitions that it then asks for when the
\* day is new hold for two months.
Refresh(w) ==
  /\ rolling[w] # Idle
  /\ totals' = [d \in Days |-> IF rolling[w][1] <= d /\ d <= rolling[w][2]
                               THEN stored[d] ELSE totals[d]]
  /\ rollupDay' = [rollupDay EXCEPT ![w] = rolling[w][2]]
  /\ rolling' = [rolling EXCEPT ![w] = Idle]
  /\ UNCHANGED <<day, carried, stored, unclosed, dayRows, rollupTroubles>>

RollupTrouble ==
  rollupTroubles < MaxRollupTroubles /\ rollupTroubles' = rollupTroubles + 1

RefreshFails(w) ==
  /\ rolling[w] # Idle /\ RollupTrouble
  /\ rolling' = [rolling EXCEPT ![w] = Idle]
  /\ UNCHANGED <<day, carried, stored, totals, rollupDay, dayRows>>
  /\ Leaves

\* A process that starts does not know which day was last refreshed.
RestartRoller(w) ==
  /\ RollupTrouble
  /\ carried' = [carried EXCEPT ![w] = [d \in Days |-> 0]]
  /\ rollupDay' = [rollupDay EXCEPT ![w] = Unknown]
  /\ rolling' = [rolling EXCEPT ![w] = Idle]
  /\ UNCHANGED <<day, stored, totals, dayRows>>
  /\ Leaves

RollupsStep ==
  \/ Midnight
  \/ \E w \in Rollers : \/ ReceiveRow(w) \/ StoreRows(w) \/ BeginRefresh(w) \/ Refresh(w)
                        \/ RefreshFails(w) \/ RestartRoller(w)

-----------------------------------------------------------------------------
(* Properties.                                                             *)

\* "the previous day is closed out exactly once after midnight" (db.rs:694):
\* every day's totals are those of its rows or will be refreshed once more,
\* unless a row came in after everyone had closed its day, or everyone who
\* was to close it has restarted, has failed to or has come a day late.
RollupsAccounted ==
  \A d \in 0..day : \/ totals[d] = stored[d]
                    \/ \E w \in Rollers : Reaches(w, d)
                    \/ d \in unclosed
=============================================================================
