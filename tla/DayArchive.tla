----------------------------- MODULE DayArchive ------------------------------
(***************************************************************************)
(* Packing a closed day of the log into the archive (schema.sql): archive_ *)
(* chat_day and archive_events_day, which do the same with two tables, and *)
(* archive_closed_days, which drops the partition of a month that is over  *)
(* and empty.  Each runs as one transaction, of which others see nothing   *)
(* before it commits, while each of its statements sees what the others    *)
(* have committed by then.  Meanwhile loggers insert what they received    *)
(* late in the day, and another run may pack the same day.                 *)
(*                                                                         *)
(* Looked at are the rows of one day, the last of its month with any.  A   *)
(* row takes its id when it is inserted, and is visible when the insert    *)
(* commits.                                                                *)
(***************************************************************************)
EXTENDS Naturals, FiniteSets

CONSTANTS
  Scribes,           \* connections that insert rows
  Packers,           \* runs of archive_closed_days
  MaxDayIds,         \* bound: ids taken
  MaxPackTroubles    \* bound: failed statements

ASSUME ArchiveAssumption ==
  /\ MaxDayIds \in Nat /\ MaxPackTroubles \in Nat

VARIABLES
  dayOver,    \* target_day < timezone('UTC', now())::date
  lastId,     \* the sequence
  inserting,  \* the id of each row being inserted, 0 for none
  live,       \* rows in chat_messages_raw
  copies,     \* how often each row is in chat_archive
  dropped,    \* its partition is gone
  at,         \* the statement that is next in each run
  capId,      \* cap_id
  srcRows,    \* src_rows
  srcSum,     \* the rows behind src_sum
  packed,     \* rows that the run has inserted into the archive
  deleted,    \* rows that it has deleted
  \* history
  written,    \* rows that were committed
  late,       \* rows that came too late for a run to see, and early enough to lose
  beside,     \* two runs have had the day in hand at once
  packTroubles

runVars     == <<capId, srcRows, srcSum, packed, deleted>>
archiveVars == <<dayOver, lastId, inserting, live, copies, dropped, at, runVars,
                 written, late, beside, packTroubles>>

Ids == 1..MaxDayIds
TopId(S) == IF S = {} THEN 0 ELSE CHOOSE i \in S : \A j \in S : j <= i

-----------------------------------------------------------------------------
\* Mutant: the day's rows are bounded by their time alone.
OfTheDay(p, i) == TRUE

\* received_at >= lo AND received_at < hi AND id <= cap_id
UpToCap(p, i) == i <= capId[p]

Seen(p) == {i \in live : UpToCap(p, i)}

\* A DROP TABLE keeps others out, and waits for those under way; a DELETE
\* waits for another run's.
Locked == \E p \in Packers : at[p] = "dropped"
Waits(p) == \E q \in Packers \ {p} : deleted[q] \cap Seen(p) # {}

Runs(p, from, to) == at[p] = from /\ at' = [at EXCEPT ![p] = to]
TableUnchanged == UNCHANGED <<dayOver, lastId, inserting, live, copies, dropped, written, late>>

ArchiveInit ==
  /\ dayOver = FALSE /\ lastId = 0
  /\ inserting = [s \in Scribes |-> 0]
  /\ live = {} /\ copies = [i \in Ids |-> 0] /\ dropped = FALSE
  /\ at = [p \in Packers |-> "idle"]
  /\ capId = [p \in Packers |-> 0]
  /\ srcRows = [p \in Packers |-> 0]
  /\ srcSum = [p \in Packers |-> {}]
  /\ packed = [p \in Packers |-> {}]
  /\ deleted = [p \in Packers |-> {}]
  /\ written = {} /\ late = {} /\ beside = FALSE /\ packTroubles = 0

DayEnds ==
  /\ ~dayOver /\ dayOver' = TRUE
  /\ UNCHANGED <<lastId, inserting, live, copies, dropped, at, runVars, written, late,
                 beside, packTroubles>>

-----------------------------------------------------------------------------
(* The loggers' INSERT, which takes an id and later commits or fails.      *)

BeginInsert(s) ==
  /\ inserting[s] = 0 /\ lastId < MaxDayIds /\ ~dropped /\ ~Locked
  /\ lastId' = lastId + 1
  /\ inserting' = [inserting EXCEPT ![s] = lastId + 1]
  /\ UNCHANGED <<dayOver, live, copies, dropped, at, runVars, written, late, beside, packTroubles>>

\* A run that has copied what it saw will delete such a row with the rest, if
\* its id is an earlier one, or drop it with the partition.
TooLate(i) ==
  \E p \in Packers : \/ at[p] \in {"verify", "delete"} /\ i <= capId[p]
                     \/ at[p] = "drop"

CommitInsert(s) ==
  /\ inserting[s] # 0
  /\ live' = live \cup {inserting[s]}
  /\ written' = written \cup {inserting[s]}
  /\ late' = IF TooLate(inserting[s]) THEN late \cup {inserting[s]} ELSE late
  /\ inserting' = [inserting EXCEPT ![s] = 0]
  /\ UNCHANGED <<dayOver, lastId, copies, dropped, at, runVars, beside, packTroubles>>

InsertFails(s) ==
  /\ inserting[s] # 0
  /\ inserting' = [inserting EXCEPT ![s] = 0]
  /\ UNCHANGED <<dayOver, lastId, live, copies, dropped, at, runVars, written, late,
                 beside, packTroubles>>

\* ensure_month_partitions, which reaches a month back.
MakePartitions ==
  /\ dropped /\ dropped' = FALSE
  /\ UNCHANGED <<dayOver, lastId, inserting, live, copies, at, runVars, written, late,
                 beside, packTroubles>>

-----------------------------------------------------------------------------
(* archive_closed_days and archive_chat_day, statement by statement.       *)

\* Today is refused, and a day that has been packed is skipped.
CheckDay(p) ==
  /\ dayOver /\ ~Locked
  /\ \/ /\ live # {} /\ \A i \in Ids : copies[i] = 0
        /\ Runs(p, "idle", "count")
        /\ beside' = (beside \/ \E q \in Packers \ {p} : at[q] # "idle")
     \/ /\ live = {} \/ \E i \in Ids : copies[i] > 0
        /\ Runs(p, "idle", "month")
        /\ UNCHANGED beside
  /\ TableUnchanged /\ UNCHANGED <<runVars, packTroubles>>

CountRows(p) ==
  /\ Runs(p, "count", IF live = {} THEN "month" ELSE "sum")
  /\ capId' = [capId EXCEPT ![p] = TopId(live)]
  /\ srcRows' = [srcRows EXCEPT ![p] = Cardinality(live)]
  /\ TableUnchanged /\ UNCHANGED <<srcSum, packed, deleted, beside, packTroubles>>

SumRows(p) ==
  /\ Runs(p, "sum", "pack")
  /\ srcSum' = [srcSum EXCEPT ![p] = Seen(p)]
  /\ TableUnchanged /\ UNCHANGED <<capId, srcRows, packed, deleted, beside, packTroubles>>

PackRows(p) ==
  /\ Runs(p, "pack", "verify")
  /\ packed' = [packed EXCEPT ![p] = Seen(p)]
  /\ TableUnchanged /\ UNCHANGED <<capId, srcRows, srcSum, deleted, beside, packTroubles>>

\* An exception takes everything back that the run has done.
RollBack(p) ==
  /\ at' = [at EXCEPT ![p] = "idle"]
  /\ srcRows' = [srcRows EXCEPT ![p] = 0]
  /\ srcSum' = [srcSum EXCEPT ![p] = {}]
  /\ packed' = [packed EXCEPT ![p] = {}]
  /\ deleted' = [deleted EXCEPT ![p] = {}]
  /\ capId' = [capId EXCEPT ![p] = 0]

\* The archive must hold what was counted, and of others' nothing.
Verify(p) ==
  /\ at[p] = "verify"
  /\ IF /\ packed[p] = srcSum[p] /\ Cardinality(packed[p]) = srcRows[p]
        /\ \A i \in Ids : copies[i] = 0
     THEN Runs(p, "verify", "delete") /\ UNCHANGED runVars
     ELSE RollBack(p)
  /\ TableUnchanged /\ UNCHANGED <<beside, packTroubles>>

DeleteRows(p) ==
  /\ ~Waits(p)
  /\ Runs(p, "delete", "month")
  /\ deleted' = [deleted EXCEPT ![p] = Seen(p)]
  /\ TableUnchanged /\ UNCHANGED <<capId, srcRows, srcSum, packed, beside, packTroubles>>

\* drop_empty_partitions counts the partition's rows ..
CountMonth(p) ==
  /\ at[p] = "month"
  /\ at' \in {[at EXCEPT ![p] = s] :
                s \in {"commit"} \cup IF live \ deleted[p] = {} /\ ~dropped THEN {"drop"} ELSE {}}
  /\ TableUnchanged /\ UNCHANGED <<runVars, beside, packTroubles>>

\* .. and drops it, when every transaction that has used it is over.
DropPartition(p) ==
  /\ \A s \in Scribes : inserting[s] = 0
  /\ \A q \in Packers \ {p} : at[q] = "idle"
  /\ Runs(p, "drop", "dropped")
  /\ deleted' = [deleted EXCEPT ![p] = live]
  /\ TableUnchanged /\ UNCHANGED <<capId, srcRows, srcSum, packed, beside, packTroubles>>

CommitRun(p) ==
  /\ at[p] \in {"commit", "dropped"}
  /\ live' = live \ deleted[p]
  /\ copies' = [i \in Ids |-> IF i \in packed[p] THEN copies[i] + 1 ELSE copies[i]]
  /\ dropped' = (dropped \/ at[p] = "dropped")
  /\ RollBack(p)
  /\ UNCHANGED <<dayOver, lastId, inserting, written, late, beside, packTroubles>>

RunFails(p) ==
  /\ at[p] # "idle" /\ packTroubles < MaxPackTroubles
  /\ packTroubles' = packTroubles + 1
  /\ RollBack(p)
  /\ TableUnchanged /\ UNCHANGED beside

ArchiveStep ==
  \/ DayEnds \/ MakePartitions
  \/ \E s \in Scribes : BeginInsert(s) \/ CommitInsert(s) \/ InsertFails(s)
  \/ \E p \in Packers : \/ CheckDay(p) \/ CountRows(p) \/ SumRows(p) \/ PackRows(p)
                        \/ Verify(p) \/ DeleteRows(p) \/ CountMonth(p)
                        \/ DropPartition(p) \/ CommitRun(p) \/ RunFails(p)

-----------------------------------------------------------------------------
(* Properties.                                                             *)

\* Every row is in the log or in the archive, whatever was inserted meanwhile:
\* the delete is bounded "by the highest id the pack saw" (schema.sql:460).
\* That leaves out a row whose insert had taken an earlier id and committed
\* after the copy, and one that comes between drop_empty_partitions' count and
\* its DROP.  It is there once, unless two runs packed the day side by side:
\* no constraint keeps the second from committing what the first has packed.
RowsArchivedOnce ==
  \A i \in written :
    /\ i \in live \/ copies[i] > 0 \/ i \in late
    /\ copies[i] + (IF i \in live THEN 1 ELSE 0) <= 1 \/ beside
=============================================================================
