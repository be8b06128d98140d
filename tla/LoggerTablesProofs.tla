------------------------- MODULE LoggerTablesProofs --------------------------
(***************************************************************************)
(* Proofs of DaysAccounted, LogAccounted, PlayersAccounted and             *)
(* LinesAccounted, for any writers, connections, packing runs, players,    *)
(* names and bounds.  A step of LoggerTables is one of a part's and leaves *)
(* the tables of the others alone, so each part has an invariant of its    *)
(* own; that of the lines says that their rows are handle_chat's.          *)
(*                                                                         *)
(* The archive's property speaks of committed runs.  Its invariant says    *)
(* what a run holds before it commits: what it deletes it has copied, or   *)
(* it came too late (Copied, Covered, Emptied); what it has copied and is  *)
(* still live it deletes (Deletes); and it is the only one with the day in *)
(* hand, or has met another (Alone, Unpacked).                             *)
(*                                                                         *)
(* The log's property speaks of a quiet writer.  Its invariant says what   *)
(* is on its way: the rows of a player that are queued, read from the tab  *)
(* list or half written change what was shown before them, one after the   *)
(* other, up to what the tab list shows (Chain), and a batch under way     *)
(* writes them in that order.                                              *)
(*                                                                         *)
(* The players' property speaks of idle writers.  Its invariant says what  *)
(* their caches and the rows under way stand for: a cached id is the       *)
(* dictionary's (IdsAgree); a uuid in a row is that of the account that    *)
(* plays, and whoever has stored it has its row in the book (UuidsRight);  *)
(* one writer at most has a player's rank, and the last of its ranks is    *)
(* the latest, until the book has it (RankAlone, RanksRight).              *)
(***************************************************************************)
EXTENDS LoggerTables, SequenceTheorems, FiniteSetTheorems, WellFoundedInduction, TLAPS

-----------------------------------------------------------------------------
(* The archive.                                                            *)

Statements == {"idle", "count", "sum", "pack", "verify", "delete", "month", "commit",
               "drop", "dropped"}

ArchiveTypes ==
  /\ lastId \in 0..MaxDayIds
  /\ inserting \in [Scribes -> 0..MaxDayIds]
  /\ live \subseteq written /\ written \subseteq Ids
  /\ copies \in [Ids -> Nat]
  /\ at \in [Packers -> Statements]
  /\ packed \in [Packers -> SUBSET Ids]
  /\ deleted \in [Packers -> SUBSET Ids]

\* A row that is being inserted has an id of its own, which nothing has seen.
FreshIds ==
  /\ \A i \in written : i <= lastId
  /\ \A s \in Scribes : inserting[s] <= lastId /\ inserting[s] \notin written
  /\ \A s, t \in Scribes : s # t /\ inserting[s] # 0 => inserting[s] # inserting[t]

\* Only committed rows are copied.
Recorded ==
  /\ \A p \in Packers : packed[p] \subseteq written
  /\ \A i \in Ids : copies[i] > 0 => i \in written

\* A run has copied nothing before it packs.
Beginning == {"idle", "count", "sum", "pack"}
NothingYet == \A p \in Packers : at[p] \in Beginning => packed[p] = {}

\* What a run is going to delete it has copied, or it came too late.
Copied ==
  \A p \in Packers : at[p] \in {"verify", "delete"} =>
    /\ \A i \in live : UpToCap(p, i) => i \in packed[p] \cup late
    /\ \A i \in packed[p] : UpToCap(p, i)

\* What a run has deleted it has copied, or it came too late ..
Covered == \A p \in Packers : deleted[p] \subseteq packed[p] \cup late

\* .. also when it has counted the partition and is about to drop it.
Emptied == \A p \in Packers : at[p] = "drop" => live \subseteq deleted[p] \cup late

\* What a run has copied it deletes.
Deletes ==
  \A p \in Packers :
    at[p] \in {"month", "commit", "drop", "dropped"} => packed[p] \cap live \subseteq deleted[p]

\* A run that has the day in hand is the only one, and finds it unpacked.
Owns(p) == at[p] \in {"count", "sum", "pack", "verify", "delete"} \/ packed[p] # {}
Alone == ~beside => \A p, q \in Packers : Owns(p) /\ Owns(q) => p = q
Unpacked == ~beside => \A p \in Packers : Owns(p) => \A i \in Ids : copies[i] = 0

ArchiveInv ==
  /\ ArchiveTypes /\ FreshIds /\ Recorded /\ NothingYet
  /\ Copied /\ Covered /\ Emptied /\ Deletes /\ Alone /\ Unpacked
  /\ RowsArchivedOnce

-----------------------------------------------------------------------------
(* Each step keeps the invariant.  Midnight and a new partition:           *)

LEMMA DayEndsKeeps ==
  ASSUME ArchiveInv, DayEnds
  PROVE  ArchiveInv'
  BY DEF ArchiveInv, ArchiveTypes, FreshIds, Recorded, NothingYet, Copied, Covered,
     Emptied, Deletes, Alone, Unpacked, RowsArchivedOnce, DayEnds, runVars, UpToCap,
     Owns

LEMMA MakePartitionsKeeps ==
  ASSUME ArchiveInv, MakePartitions
  PROVE  ArchiveInv'
  BY DEF ArchiveInv, ArchiveTypes, FreshIds, Recorded, NothingYet, Copied, Covered,
     Emptied, Deletes, Alone, Unpacked, RowsArchivedOnce, MakePartitions, runVars,
     UpToCap, Owns

-----------------------------------------------------------------------------
(* The inserts, which may come between any two statements of a run:        *)

LEMMA BeginInsertKeeps ==
  ASSUME ArchiveInv, NEW s \in Scribes, BeginInsert(s)
  PROVE  ArchiveInv'
<1>1. /\ Recorded' /\ NothingYet' /\ Copied' /\ Covered'
      /\ Emptied' /\ Deletes' /\ Alone' /\ Unpacked' /\ RowsArchivedOnce'
  BY DEF ArchiveInv, Recorded, NothingYet, Copied, Covered, Emptied, Deletes, Alone,
     Unpacked, RowsArchivedOnce, BeginInsert, runVars, UpToCap, Owns
<1>2. ArchiveTypes'
  BY ArchiveAssumption DEF ArchiveInv, ArchiveTypes, BeginInsert, runVars,
     ArchiveAssumption
<1>3. FreshIds'
  BY ArchiveAssumption DEF ArchiveInv, ArchiveTypes, FreshIds, BeginInsert, Ids,
     ArchiveAssumption
<1> QED
  BY <1>1, <1>2, <1>3 DEF ArchiveInv

LEMMA CommitInsertKeeps ==
  ASSUME ArchiveInv, NEW s \in Scribes, CommitInsert(s)
  PROVE  ArchiveInv'
<1>1. NothingYet' /\ Alone' /\ Unpacked'
  BY DEF ArchiveInv, NothingYet, Alone, Unpacked, CommitInsert, runVars, Owns
<1>2. ArchiveTypes'
  <2>1. inserting[s] \in Ids
    BY ArchiveAssumption DEF ArchiveInv, ArchiveTypes, CommitInsert, Ids, ArchiveAssumption
  <2>2. inserting' \in [Scribes -> 0..MaxDayIds]
    BY ArchiveAssumption DEF ArchiveInv, ArchiveTypes, CommitInsert, ArchiveAssumption
  <2>3. live' \subseteq written' /\ written' \subseteq Ids
    BY <2>1 DEF ArchiveInv, ArchiveTypes, CommitInsert
  <2> QED
    BY <2>2, <2>3 DEF ArchiveInv, ArchiveTypes, CommitInsert, runVars
<1>3. FreshIds'
  BY ArchiveAssumption DEF ArchiveInv, ArchiveTypes, FreshIds, CommitInsert, Ids,
     ArchiveAssumption
<1>4. Recorded'
  BY DEF ArchiveInv, Recorded, CommitInsert, runVars
<1>5. Copied'
  BY DEF ArchiveInv, Copied, CommitInsert, runVars, TooLate, UpToCap
<1>6. Covered'
  BY DEF ArchiveInv, Covered, CommitInsert, runVars
<1>7. Emptied'
  BY DEF ArchiveInv, Emptied, CommitInsert, runVars, TooLate
<1>8. Deletes'
  BY DEF ArchiveInv, FreshIds, Recorded, Deletes, CommitInsert, runVars
<1>9. RowsArchivedOnce'
  BY ArchiveAssumption DEF ArchiveInv, ArchiveTypes, FreshIds, Recorded,
     RowsArchivedOnce, CommitInsert, Ids, ArchiveAssumption
<1> QED
  BY <1>1, <1>2, <1>3, <1>4, <1>5, <1>6, <1>7, <1>8, <1>9 DEF ArchiveInv

LEMMA InsertFailsKeeps ==
  ASSUME ArchiveInv, NEW s \in Scribes, InsertFails(s)
  PROVE  ArchiveInv'
<1>1. /\ Recorded' /\ NothingYet' /\ Copied' /\ Covered'
      /\ Emptied' /\ Deletes' /\ Alone' /\ Unpacked' /\ RowsArchivedOnce'
  BY DEF ArchiveInv, Recorded, NothingYet, Copied, Covered, Emptied, Deletes, Alone,
     Unpacked, RowsArchivedOnce, InsertFails, runVars, UpToCap, Owns
<1>2. ArchiveTypes'
  BY ArchiveAssumption DEF ArchiveInv, ArchiveTypes, InsertFails, runVars,
     ArchiveAssumption
<1>3. FreshIds'
  BY ArchiveAssumption DEF ArchiveInv, ArchiveTypes, FreshIds, InsertFails, Ids,
     ArchiveAssumption
<1> QED
  BY <1>1, <1>2, <1>3 DEF ArchiveInv

-----------------------------------------------------------------------------
(* The statements of a run:                                                *)

LEMMA CheckDayKeeps ==
  ASSUME ArchiveInv, NEW p \in Packers, CheckDay(p)
  PROVE  ArchiveInv'
<1>1. FreshIds' /\ Recorded' /\ Covered'
  BY DEF ArchiveInv, FreshIds, Recorded, Covered, CheckDay, TableUnchanged, runVars
<1>2. ArchiveTypes'
  BY DEF ArchiveInv, ArchiveTypes, CheckDay, Runs, TableUnchanged, runVars, Statements
<1>3. NothingYet'
  BY DEF ArchiveInv, ArchiveTypes, NothingYet, CheckDay, Runs, runVars, Beginning
<1>4. Copied'
  BY DEF ArchiveInv, ArchiveTypes, Copied, CheckDay, Runs, TableUnchanged, runVars,
     UpToCap
<1>5. Emptied'
  BY DEF ArchiveInv, ArchiveTypes, Emptied, CheckDay, Runs, TableUnchanged, runVars
<1>6. Deletes'
  BY DEF ArchiveInv, ArchiveTypes, NothingYet, Deletes, CheckDay, Runs, TableUnchanged,
     runVars, Beginning
<1>7. Alone'
  <2>1. \A q \in Packers \ {p} : Owns(q)' <=> Owns(q)
    BY DEF ArchiveInv, ArchiveTypes, CheckDay, Runs, runVars, Owns
  <2>2. \A q \in Packers : Owns(q) => at[q] # "idle"
    BY DEF ArchiveInv, NothingYet, Beginning, Owns
  <2>3. CASE at'[p] = "count"
    BY <2>1, <2>2, <2>3 DEF ArchiveInv, ArchiveTypes, Alone, CheckDay, Runs
  <2>4. CASE at'[p] = "month"
    <3>1. packed'[p] = {}
      BY DEF ArchiveInv, NothingYet, Beginning, CheckDay, Runs, runVars
    <3>2. ~Owns(p)' /\ beside' = beside
      BY <2>4, <3>1 DEF ArchiveInv, ArchiveTypes, CheckDay, Runs, Owns
    <3> QED
      BY <2>1, <3>2 DEF ArchiveInv, Alone
  <2>5. at'[p] \in {"count", "month"}
    BY DEF ArchiveInv, ArchiveTypes, CheckDay, Runs
  <2> QED
    BY <2>3, <2>4, <2>5
<1>8. Unpacked'
  BY DEF ArchiveInv, ArchiveTypes, Unpacked, CheckDay, Runs, TableUnchanged, runVars,
     Owns
<1>9. RowsArchivedOnce'
  BY DEF ArchiveInv, ArchiveTypes, RowsArchivedOnce, CheckDay, TableUnchanged
<1> QED
  BY <1>1, <1>2, <1>3, <1>4, <1>5, <1>6, <1>7, <1>8, <1>9 DEF ArchiveInv

LEMMA CountRowsKeeps ==
  ASSUME ArchiveInv, NEW p \in Packers, CountRows(p)
  PROVE  ArchiveInv'
<1>1. FreshIds' /\ Recorded' /\ Covered' /\ RowsArchivedOnce'
  BY DEF ArchiveInv, FreshIds, Recorded, Covered, RowsArchivedOnce, CountRows,
     TableUnchanged
<1>2. ArchiveTypes'
  BY DEF ArchiveInv, ArchiveTypes, CountRows, Runs, TableUnchanged, Statements
<1>3. NothingYet'
  BY DEF ArchiveInv, NothingYet, CountRows, Runs, Beginning
<1>4. Copied'
  BY DEF ArchiveInv, Copied, CountRows, Runs, TableUnchanged, UpToCap
<1>5. Emptied'
  BY DEF ArchiveInv, Emptied, CountRows, Runs, TableUnchanged
<1>6. Deletes'
  BY DEF ArchiveInv, Deletes, CountRows, Runs, TableUnchanged
<1>7. Alone'
  BY DEF ArchiveInv, Alone, CountRows, Runs, Owns
<1>8. Unpacked'
  BY DEF ArchiveInv, Unpacked, CountRows, Runs, TableUnchanged, Owns
<1> QED
  BY <1>1, <1>2, <1>3, <1>4, <1>5, <1>6, <1>7, <1>8 DEF ArchiveInv

LEMMA SumRowsKeeps ==
  ASSUME ArchiveInv, NEW p \in Packers, SumRows(p)
  PROVE  ArchiveInv'
<1>1. FreshIds' /\ Recorded' /\ Covered' /\ RowsArchivedOnce'
  BY DEF ArchiveInv, FreshIds, Recorded, Covered, RowsArchivedOnce, SumRows,
     TableUnchanged
<1>2. ArchiveTypes'
  BY DEF ArchiveInv, ArchiveTypes, SumRows, Runs, TableUnchanged, Statements
<1>3. NothingYet'
  BY DEF ArchiveInv, NothingYet, SumRows, Runs, Beginning
<1>4. Copied'
  BY DEF ArchiveInv, Copied, SumRows, Runs, TableUnchanged, UpToCap
<1>5. Emptied'
  BY DEF ArchiveInv, Emptied, SumRows, Runs, TableUnchanged
<1>6. Deletes'
  BY DEF ArchiveInv, Deletes, SumRows, Runs, TableUnchanged
<1>7. Alone'
  BY DEF ArchiveInv, Alone, SumRows, Runs, Owns
<1>8. Unpacked'
  BY DEF ArchiveInv, Unpacked, SumRows, Runs, TableUnchanged, Owns
<1> QED
  BY <1>1, <1>2, <1>3, <1>4, <1>5, <1>6, <1>7, <1>8 DEF ArchiveInv

LEMMA PackRowsKeeps ==
  ASSUME ArchiveInv, NEW p \in Packers, PackRows(p)
  PROVE  ArchiveInv'
<1>1. FreshIds' /\ RowsArchivedOnce'
  BY DEF ArchiveInv, FreshIds, RowsArchivedOnce, PackRows, TableUnchanged
<1>2. ArchiveTypes'
  BY DEF ArchiveInv, ArchiveTypes, PackRows, Runs, TableUnchanged, Seen, Statements
<1>3. Recorded'
  BY DEF ArchiveInv, ArchiveTypes, Recorded, PackRows, TableUnchanged, Seen
<1>4. NothingYet'
  BY DEF ArchiveInv, ArchiveTypes, NothingYet, PackRows, Runs, Beginning
<1>5. Copied'
  BY DEF ArchiveInv, ArchiveTypes, Copied, PackRows, Runs, TableUnchanged, UpToCap, Seen
<1>6. Covered'
  BY DEF ArchiveInv, ArchiveTypes, NothingYet, Covered, PackRows, Runs, TableUnchanged,
     Beginning
<1>7. Emptied'
  BY DEF ArchiveInv, Emptied, PackRows, Runs, TableUnchanged
<1>8. Deletes'
  BY DEF ArchiveInv, Deletes, PackRows, Runs, TableUnchanged
<1>9. Alone'
  BY DEF ArchiveInv, Alone, PackRows, Runs, Owns
<1>10. Unpacked'
  BY DEF ArchiveInv, Unpacked, PackRows, Runs, TableUnchanged, Owns
<1> QED
  BY <1>1, <1>2, <1>3, <1>4, <1>5, <1>6, <1>7, <1>8, <1>9, <1>10 DEF ArchiveInv

LEMMA VerifyKeeps ==
  ASSUME ArchiveInv, NEW p \in Packers, Verify(p)
  PROVE  ArchiveInv'
<1>1. FreshIds' /\ RowsArchivedOnce'
  BY DEF ArchiveInv, FreshIds, RowsArchivedOnce, Verify, TableUnchanged
<1>2. ArchiveTypes'
  BY DEF ArchiveInv, ArchiveTypes, Verify, Runs, RollBack, TableUnchanged, runVars,
     Statements
<1>3. Recorded'
  BY DEF ArchiveInv, ArchiveTypes, Recorded, Verify, RollBack, TableUnchanged, runVars
<1>4. NothingYet'
  BY DEF ArchiveInv, ArchiveTypes, NothingYet, Verify, Runs, RollBack, runVars,
     Beginning
<1>5. Copied'
  <2>1. CASE Runs(p, "verify", "delete") /\ UNCHANGED runVars
    BY <2>1 DEF ArchiveInv, ArchiveTypes, Copied, Verify, Runs, TableUnchanged, runVars, UpToCap
  <2>2. CASE RollBack(p)
    BY <2>2 DEF ArchiveInv, ArchiveTypes, Copied, Verify, RollBack, TableUnchanged, UpToCap
  <2> QED
    BY <2>1, <2>2 DEF Verify
<1>6. Covered'
  BY DEF ArchiveInv, ArchiveTypes, Covered, Verify, RollBack, TableUnchanged, runVars
<1>7. Emptied'
  BY DEF ArchiveInv, ArchiveTypes, Emptied, Verify, Runs, RollBack, TableUnchanged,
     runVars
<1>8. Deletes'
  BY DEF ArchiveInv, ArchiveTypes, Deletes, Verify, Runs, RollBack, TableUnchanged,
     runVars
<1>9. Alone'
  BY DEF ArchiveInv, ArchiveTypes, Alone, Verify, Runs, RollBack, runVars, Owns
<1>10. Unpacked'
  BY DEF ArchiveInv, Unpacked, Verify, TableUnchanged, Owns
<1> QED
  BY <1>1, <1>2, <1>3, <1>4, <1>5, <1>6, <1>7, <1>8, <1>9, <1>10 DEF ArchiveInv

LEMMA DeleteRowsKeeps ==
  ASSUME ArchiveInv, NEW p \in Packers, DeleteRows(p)
  PROVE  ArchiveInv'
<1>1. FreshIds' /\ Recorded' /\ RowsArchivedOnce'
  BY DEF ArchiveInv, FreshIds, Recorded, RowsArchivedOnce, DeleteRows, TableUnchanged
<1>2. ArchiveTypes'
  BY DEF ArchiveInv, ArchiveTypes, DeleteRows, Runs, TableUnchanged, Seen, Statements
<1>3. NothingYet'
  BY DEF ArchiveInv, NothingYet, DeleteRows, Runs, Beginning
<1>4. Copied'
  BY DEF ArchiveInv, Copied, DeleteRows, Runs, TableUnchanged, UpToCap
<1>5. Covered'
  <2>1. Seen(p) \subseteq packed[p] \cup late
    BY DEF ArchiveInv, Copied, DeleteRows, Runs, Seen
  <2> QED
    BY <2>1 DEF ArchiveInv, ArchiveTypes, Covered, DeleteRows, TableUnchanged
<1>6. Emptied'
  BY DEF ArchiveInv, Emptied, DeleteRows, Runs, TableUnchanged
<1>7. Deletes'
  BY DEF ArchiveInv, ArchiveTypes, Copied, Deletes, DeleteRows, Runs, TableUnchanged,
     Seen
<1>8. Alone'
  BY DEF ArchiveInv, Alone, DeleteRows, Runs, Owns
<1>9. Unpacked'
  BY DEF ArchiveInv, Unpacked, DeleteRows, Runs, TableUnchanged, Owns
<1> QED
  BY <1>1, <1>2, <1>3, <1>4, <1>5, <1>6, <1>7, <1>8, <1>9 DEF ArchiveInv

LEMMA CountMonthKeeps ==
  ASSUME ArchiveInv, NEW p \in Packers, CountMonth(p)
  PROVE  ArchiveInv'
<1>1. FreshIds' /\ Recorded' /\ Covered' /\ RowsArchivedOnce'
  BY DEF ArchiveInv, FreshIds, Recorded, Covered, RowsArchivedOnce, CountMonth,
     TableUnchanged, runVars
<1>2. ArchiveTypes'
  <2>1. at' \in [Packers -> Statements]
    BY DEF ArchiveInv, ArchiveTypes, CountMonth, Statements
  <2> QED
    BY <2>1 DEF ArchiveInv, ArchiveTypes, CountMonth, TableUnchanged, runVars
<1>3. NothingYet'
  BY DEF ArchiveInv, ArchiveTypes, NothingYet, CountMonth, runVars, Beginning
<1>4. Copied'
  BY DEF ArchiveInv, ArchiveTypes, Copied, CountMonth, TableUnchanged, runVars, UpToCap
<1>5. Emptied'
  BY DEF ArchiveInv, ArchiveTypes, Emptied, CountMonth, TableUnchanged, runVars
<1>6. Deletes'
  BY DEF ArchiveInv, ArchiveTypes, Deletes, CountMonth, TableUnchanged, runVars
<1>7. Alone'
  BY DEF ArchiveInv, ArchiveTypes, Alone, CountMonth, runVars, Owns
<1>8. Unpacked'
  BY DEF ArchiveInv, ArchiveTypes, Unpacked, CountMonth, TableUnchanged, runVars, Owns
<1> QED
  BY <1>1, <1>2, <1>3, <1>4, <1>5, <1>6, <1>7, <1>8 DEF ArchiveInv

LEMMA DropPartitionKeeps ==
  ASSUME ArchiveInv, NEW p \in Packers, DropPartition(p)
  PROVE  ArchiveInv'
<1>1. FreshIds' /\ Recorded' /\ RowsArchivedOnce'
  BY DEF ArchiveInv, FreshIds, Recorded, RowsArchivedOnce, DropPartition, TableUnchanged
<1>2. ArchiveTypes'
  BY DEF ArchiveInv, ArchiveTypes, DropPartition, Runs, TableUnchanged, Statements
<1>3. NothingYet'
  BY DEF ArchiveInv, NothingYet, DropPartition, Runs, Beginning
<1>4. Copied'
  BY DEF ArchiveInv, Copied, DropPartition, Runs
<1>5. Covered'
  <2>1. live \subseteq packed[p] \cup late
    BY DEF ArchiveInv, Covered, Emptied, DropPartition, Runs
  <2> QED
    BY <2>1 DEF ArchiveInv, ArchiveTypes, Covered, DropPartition, TableUnchanged
<1>6. Emptied'
  BY DEF ArchiveInv, Emptied, DropPartition, Runs, TableUnchanged
<1>7. Deletes'
  BY DEF ArchiveInv, Deletes, DropPartition, Runs, TableUnchanged
<1>8. Alone'
  BY DEF ArchiveInv, Alone, DropPartition, Runs, Owns
<1>9. Unpacked'
  BY DEF ArchiveInv, Unpacked, DropPartition, Runs, TableUnchanged, Owns
<1> QED
  BY <1>1, <1>2, <1>3, <1>4, <1>5, <1>6, <1>7, <1>8, <1>9 DEF ArchiveInv

LEMMA CommitRunKeeps ==
  ASSUME ArchiveInv, NEW p \in Packers, CommitRun(p)
  PROVE  ArchiveInv'
<1>1. FreshIds'
  BY DEF ArchiveInv, FreshIds, CommitRun
<1>2. ArchiveTypes'
  <2>1. copies' \in [Ids -> Nat]
    BY DEF ArchiveInv, ArchiveTypes, CommitRun
  <2>2. /\ at' \in [Packers -> Statements]
        /\ packed' \in [Packers -> SUBSET Ids] /\ deleted' \in [Packers -> SUBSET Ids]
    BY DEF ArchiveInv, ArchiveTypes, CommitRun, RollBack, Statements
  <2> QED
    BY <2>1, <2>2 DEF ArchiveInv, ArchiveTypes, CommitRun
<1>3. Recorded'
  BY DEF ArchiveInv, Recorded, CommitRun, RollBack
<1>4. NothingYet'
  BY DEF ArchiveInv, ArchiveTypes, NothingYet, CommitRun, RollBack
<1>5. Copied'
  BY DEF ArchiveInv, Copied, CommitRun, RollBack, UpToCap
<1>6. Covered'
  BY DEF ArchiveInv, ArchiveTypes, Covered, CommitRun, RollBack
<1>7. Emptied'
  BY DEF ArchiveInv, Emptied, CommitRun, RollBack
<1>8. Deletes'
  BY DEF ArchiveInv, Deletes, CommitRun, RollBack
<1>9. Alone'
  BY DEF ArchiveInv, Alone, CommitRun, RollBack, Owns
<1>10. Unpacked'
  BY DEF ArchiveInv, ArchiveTypes, Alone, Unpacked, CommitRun, RollBack, Owns
<1>11. RowsArchivedOnce'
  <2> SUFFICES ASSUME NEW i \in written
               PROVE  /\ i \in live' \/ copies'[i] > 0 \/ i \in late
                      /\ copies'[i] + (IF i \in live' THEN 1 ELSE 0) <= 1 \/ beside
    BY DEF RowsArchivedOnce, CommitRun
  <2>1. /\ i \in Ids /\ copies[i] \in Nat
        /\ copies'[i] = IF i \in packed[p] THEN copies[i] + 1 ELSE copies[i]
        /\ i \in live' <=> i \in live /\ i \notin deleted[p]
    BY DEF ArchiveInv, ArchiveTypes, CommitRun
  <2>2. /\ i \in live \/ copies[i] > 0 \/ i \in late
        /\ copies[i] + (IF i \in live THEN 1 ELSE 0) <= 1 \/ beside
    BY DEF ArchiveInv, RowsArchivedOnce
  <2>3. i \in deleted[p] => i \in packed[p] \/ i \in late
    BY DEF ArchiveInv, Covered
  <2>4. i \in packed[p] /\ ~beside => copies[i] = 0 /\ i \notin live'
    BY <2>1 DEF ArchiveInv, Unpacked, Owns, Deletes, CommitRun
  <2> QED
    BY <2>1, <2>2, <2>3, <2>4
<1> QED
  BY <1>1, <1>2, <1>3, <1>4, <1>5, <1>6, <1>7, <1>8, <1>9, <1>10, <1>11 DEF ArchiveInv

LEMMA RunFailsKeeps ==
  ASSUME ArchiveInv, NEW p \in Packers, RunFails(p)
  PROVE  ArchiveInv'
<1>1. FreshIds' /\ RowsArchivedOnce'
  BY DEF ArchiveInv, FreshIds, RowsArchivedOnce, RunFails, TableUnchanged
<1>2. ArchiveTypes'
  BY DEF ArchiveInv, ArchiveTypes, RunFails, RollBack, TableUnchanged, Statements
<1>3. Recorded'
  BY DEF ArchiveInv, Recorded, RunFails, RollBack, TableUnchanged
<1>4. NothingYet'
  BY DEF ArchiveInv, ArchiveTypes, NothingYet, RunFails, RollBack
<1>5. Copied'
  BY DEF ArchiveInv, ArchiveTypes, Copied, RunFails, RollBack, TableUnchanged, UpToCap
<1>6. Covered'
  BY DEF ArchiveInv, ArchiveTypes, Covered, RunFails, RollBack, TableUnchanged
<1>7. Emptied'
  BY DEF ArchiveInv, ArchiveTypes, Emptied, RunFails, RollBack, TableUnchanged
<1>8. Deletes'
  BY DEF ArchiveInv, ArchiveTypes, Deletes, RunFails, RollBack, TableUnchanged
<1>9. Alone'
  BY DEF ArchiveInv, Alone, RunFails, RollBack, Owns
<1>10. Unpacked'
  BY DEF ArchiveInv, Unpacked, RunFails, RollBack, TableUnchanged, Owns
<1> QED
  BY <1>1, <1>2, <1>3, <1>4, <1>5, <1>6, <1>7, <1>8, <1>9, <1>10 DEF ArchiveInv
-----------------------------------------------------------------------------
LEMMA ArchiveStarts == ArchiveInit => ArchiveInv
BY ArchiveAssumption
   DEF ArchiveInit, ArchiveInv, ArchiveTypes, FreshIds, Recorded, NothingYet, Copied,
       Covered, Emptied, Deletes, Alone, Unpacked, Owns, RowsArchivedOnce, Statements,
       Ids, ArchiveAssumption

LEMMA ArchiveStands == ArchiveInv /\ UNCHANGED archiveVars => ArchiveInv'
BY DEF archiveVars, runVars, ArchiveInv, ArchiveTypes, FreshIds, Recorded, NothingYet,
       Copied, Covered, Emptied, Deletes, Alone, Unpacked, Owns, RowsArchivedOnce, UpToCap

LEMMA ArchiveKeeps == ArchiveInv /\ ArchiveStep => ArchiveInv'
BY DayEndsKeeps, MakePartitionsKeeps, BeginInsertKeeps, CommitInsertKeeps,
   InsertFailsKeeps, CheckDayKeeps, CountRowsKeeps, SumRowsKeeps, PackRowsKeeps,
   VerifyKeeps, DeleteRowsKeeps, CountMonthKeeps, DropPartitionKeeps, CommitRunKeeps,
   RunFailsKeeps
   DEF ArchiveStep

-----------------------------------------------------------------------------
(* The totals of a day.                                                    *)

RollupTypes ==
  /\ day \in Days
  /\ stored \in [Days -> Nat] /\ totals \in [Days -> Nat]
  /\ carried \in [Rollers -> [Days -> Nat]]
  /\ rollupDay \in [Rollers -> Days \cup {Unknown}]
  /\ rolling \in [Rollers -> (Days \cup {Unknown}) \X (Days \cup {Unknown})]

\* A refresh under way began today or earlier, and starts with yesterday if it
\* is the first that its writer makes on a new day.
RefreshUnderWay ==
  \A w \in Rollers : rolling[w] # Idle =>
    /\ rolling[w][2] \in 0..day
    /\ rolling[w][1] <= rolling[w][2]
    /\ rollupDay[w] # Unknown /\ rollupDay[w] < rolling[w][2] => rolling[w][1] < rolling[w][2]

RollupsInv == RollupTypes /\ RefreshUnderWay /\ RollupsAccounted

-----------------------------------------------------------------------------
(* The causes that RollupsAccounted names leave behind what they record.   *)

LEMMA LeavesAccounted ==
  ASSUME Leaves
  PROVE  RollupsAccounted'
BY DEF Leaves, Behind, RollupsAccounted

LEMMA MidnightKeeps ==
  ASSUME RollupsInv, Midnight
  PROVE  RollupsInv'
<1>1. RollupTypes'
  BY RollupAssumption DEF RollupsInv, RollupTypes, Midnight, Days, RollupAssumption
<1>2. RefreshUnderWay'
  <2>1. day' = day + 1 /\ rolling' = rolling /\ rollupDay' = rollupDay
    BY DEF Midnight
  <2>2. day \in Nat
    BY RollupAssumption DEF RollupsInv, RollupTypes, Days, RollupAssumption
  <2>3. \A d \in 0..day : d \in 0..day'
    BY <2>1, <2>2
  <2> QED
    BY <2>1, <2>3 DEF RollupsInv, RefreshUnderWay
<1>3. RollupsAccounted'
  <2>1. Leaves
    BY DEF Midnight
  <2> QED
    BY <2>1, LeavesAccounted
<1> QED
  BY <1>1, <1>2, <1>3 DEF RollupsInv

LEMMA ReceiveRowKeeps ==
  ASSUME RollupsInv, NEW w \in Rollers, ReceiveRow(w)
  PROVE  RollupsInv'
<1>1. carried' \in [Rollers -> [Days -> Nat]]
  BY DEF RollupsInv, RollupTypes, ReceiveRow
<1> QED
  BY <1>1 DEF RollupsInv, RollupTypes, RefreshUnderWay, RollupsAccounted, Reaches, ReceiveRow

LEMMA StoreRowsKeeps ==
  ASSUME RollupsInv, NEW w \in Rollers, StoreRows(w)
  PROVE  RollupsInv'
<1>1. stored' \in [Days -> Nat] /\ carried' \in [Rollers -> [Days -> Nat]]
  BY DEF RollupsInv, RollupTypes, StoreRows
<1> QED
  BY <1>1, LeavesAccounted DEF RollupsInv, RollupTypes, RefreshUnderWay, StoreRows

LEMMA BeginRefreshKeeps ==
  ASSUME RollupsInv, NEW w \in Rollers, BeginRefresh(w)
  PROVE  RollupsInv'
<1>1. /\ rolling'[w] = <<RefreshFrom(w), day>>
      /\ \A v \in Rollers \ {w} : rolling'[v] = rolling[v]
  BY DEF RollupsInv, RollupTypes, BeginRefresh
<1>2. RefreshFrom(w) \in Days /\ RefreshFrom(w) <= day
  BY RollupAssumption DEF RollupsInv, RollupTypes, RefreshFrom, Days, Unknown, RollupAssumption
<1>3. RollupTypes'
  BY <1>2 DEF RollupsInv, RollupTypes, BeginRefresh
<1>4. RefreshUnderWay'
  <2> SUFFICES ASSUME NEW v \in Rollers, rolling'[v] # Idle
               PROVE  /\ rolling'[v][2] \in 0..day'
                      /\ rolling'[v][1] <= rolling'[v][2]
                      /\ rollupDay'[v] # Unknown /\ rollupDay'[v] < rolling'[v][2]
                           => rolling'[v][1] < rolling'[v][2]
    BY DEF RefreshUnderWay
  <2>1. CASE v = w
    BY <2>1, <1>1, <1>2, RollupAssumption
       DEF RollupsInv, RollupTypes, RefreshFrom, BeginRefresh, Days, Unknown, RollupAssumption
  <2>2. CASE v # w
    BY <2>2, <1>1 DEF RollupsInv, RefreshUnderWay, BeginRefresh
  <2> QED
    BY <2>1, <2>2
<1>5. RollupsAccounted'
  BY <1>1 DEF RollupsInv, RollupsAccounted, Reaches, BeginRefresh
<1> QED
  BY <1>3, <1>4, <1>5 DEF RollupsInv

\* A day that the refresh does not rebuild, but its writer was still to reach,
\* is reached by the next one: this one took an earlier day for today.
LEMMA RefreshKeeps ==
  ASSUME RollupsInv, NEW w \in Rollers, Refresh(w)
  PROVE  RollupsInv'
<1>1. RollupTypes'
  BY DEF RollupsInv, RollupTypes, RefreshUnderWay, Refresh, Idle, Unknown, Days
<1>2. RefreshUnderWay'
  BY DEF RollupsInv, RollupTypes, RefreshUnderWay, Refresh
<1>3. RollupsAccounted'
  <2> SUFFICES ASSUME NEW d \in 0..day, totals'[d] # stored[d], d \notin unclosed
               PROVE  \E v \in Rollers : Reaches(v, d)'
    BY DEF RollupsAccounted, Refresh
  <2>1. d \in Days /\ day \in Nat
    BY RollupAssumption DEF RollupsInv, RollupTypes, Days, RollupAssumption
  <2>2. ~(rolling[w][1] <= d /\ d <= rolling[w][2]) /\ totals'[d] = totals[d]
    BY <2>1 DEF Refresh
  <2>3. PICK v \in Rollers : Reaches(v, d)
    BY <2>2 DEF RollupsInv, RollupsAccounted
  <2>4. CASE v # w
    BY <2>3, <2>4 DEF RollupsInv, RollupTypes, Reaches, Refresh
  <2>5. CASE v = w
    <3>1. CASE d >= day
      BY <3>1 DEF Reaches, Refresh
    <3>2. CASE d = day - 1 /\ rollupDay[w] \in 0..d
      <4>1. rolling[w][2] \in 0..day /\ rollupDay'[w] = rolling[w][2]
        BY DEF RollupsInv, RollupTypes, RefreshUnderWay, Refresh
      <4>2. rollupDay[w] # Unknown /\ rollupDay[w] \in Int /\ rollupDay[w] <= d /\ d \in Int
        BY <2>1, <3>2 DEF Unknown, Days
      <4>3. rolling[w][1] \in Int /\ rolling[w][2] \in Int
        <5>1. rolling[w] \in (Days \cup {Unknown}) \X (Days \cup {Unknown})
          BY DEF RollupsInv, RollupTypes
        <5>2. Days \cup {Unknown} \subseteq Int
          BY RollupAssumption DEF Days, Unknown, RollupAssumption
        <5> QED
          BY <5>1, <5>2
      <4>4. rollupDay[w] < rolling[w][2] => rolling[w][1] < rolling[w][2]
        BY <4>2 DEF RollupsInv, RefreshUnderWay, Refresh
      <4>5. rolling[w][2] # day
        BY <2>1, <2>2, <3>2, <4>2, <4>3, <4>4
      <4> QED
        BY <2>1, <3>2, <4>1, <4>5 DEF Reaches, Refresh
    <3> QED
      BY <2>2, <2>3, <2>5, <3>1, <3>2 DEF Reaches
  <2> QED
    BY <2>4, <2>5
<1> QED
  BY <1>1, <1>2, <1>3 DEF RollupsInv

LEMMA RefreshFailsKeeps ==
  ASSUME RollupsInv, NEW w \in Rollers, RefreshFails(w)
  PROVE  RollupsInv'
<1>1. RollupTypes' /\ RefreshUnderWay'
  BY DEF RollupsInv, RollupTypes, RefreshUnderWay, RefreshFails, Idle
<1> QED
  BY <1>1, LeavesAccounted DEF RollupsInv, RefreshFails

LEMMA RestartRollerKeeps ==
  ASSUME RollupsInv, NEW w \in Rollers, RestartRoller(w)
  PROVE  RollupsInv'
<1>1. RollupTypes'
  BY DEF RollupsInv, RollupTypes, RestartRoller, Idle
<1>2. RefreshUnderWay'
  BY DEF RollupsInv, RollupTypes, RefreshUnderWay, RestartRoller
<1> QED
  BY <1>1, <1>2, LeavesAccounted DEF RollupsInv, RestartRoller

LEMMA RollupsStart == RollupsInit => RollupsInv
BY RollupAssumption
   DEF RollupsInit, RollupsInv, RollupTypes, RefreshUnderWay, RollupsAccounted, Reaches,
       Days, Idle, RollupAssumption

LEMMA RollupsStand == RollupsInv /\ UNCHANGED dayVars => RollupsInv'
BY DEF dayVars, RollupsInv, RollupTypes, RefreshUnderWay, RollupsAccounted, Reaches

LEMMA RollupsKeep == RollupsInv /\ RollupsStep => RollupsInv'
BY MidnightKeeps, ReceiveRowKeeps, StoreRowsKeeps, BeginRefreshKeeps, RefreshKeeps,
   RefreshFailsKeeps, RestartRollerKeeps
   DEF RollupsStep

-----------------------------------------------------------------------------
(* The presence and the log.                                                *)

EventRow == [kind : {"event"}, type : {"j", "l", "s", "p"}, source : {"t", "c"},
             player : Players, at : Nat]
RestartRow == [kind : {"restart"}, at : Nat]
OnlineRow  == [kind : {"online"}, at : Nat, players : SUBSET Players]
WriteRow   == EventRow \cup RestartRow \cup OnlineRow
LogRow     == [player : Players, type : {"j", "l"}, source : {"t", "c", "r"}, at : Nat]

\* Rows that decide whether p is present, and what they say.
Bears(w, p) == w.kind = "event" => w.source = "t" /\ w.player = p
Shows(w, p) == \/ w.kind = "event" /\ PresentAfter(w.type)
               \/ w.kind = "online" /\ p \in w.players

\* The places of the batch whose presence is still to be written, and all
\* rows that are on their way.
Unwritten ==
  IF stage \in {"log", "presence"} THEN DOMAIN batch
  ELSE IF stage \in {"restart", "clear"} THEN todo \cup Onlines ELSE todo
Waiting == ToSet(queue) \cup {batch[i] : i \in Unwritten}
Pend(p) == {w \in Waiting : Bears(w, p)}

PresenceTypes ==
  /\ tabJoins \in BOOLEAN
  /\ clock \in 1 .. MaxWrites + 1
  /\ tab \subseteq Players /\ snapshot \subseteq Players
  /\ queue \in Seq(WriteRow) /\ batch \in Seq(WriteRow)
  /\ stage \in {"idle", "log", "presence", "restart", "clear", "mark", "rejoin", "leave", "retire"}
  /\ log \subseteq LogRow
  /\ presence \in [Players -> [present : BOOLEAN, at : Nat]]

\* Where the writer is in its batch.
Stages ==
  /\ stage = "idle" => batch = <<>>
  /\ stage \in {"idle", "log", "presence"} => todo = {}
  /\ stage \in {"restart", "clear"} => todo # {} /\ todo \subseteq Restarts
  /\ stage \in {"mark", "rejoin", "leave", "retire"} => todo # {} /\ todo \subseteq Onlines

\* Rows are in the order of their times, which differ but for reconciles
\* after everything else.
Before(v, w) ==
  v.at < w.at \/ (IsOnline(v) /\ IsOnline(w) /\ v.at = w.at /\ MaxWrites < w.at)
InOrder ==
  /\ \A i, j \in DOMAIN queue : i < j => Before(queue[i], queue[j])
  /\ \A i, j \in DOMAIN batch : i < j => Before(batch[i], batch[j])
  /\ \A v \in ToSet(batch), w \in ToSet(queue) : Before(v, w)

\* What a row that is on its way may look like.
Genuine(w) ==
  /\ w.at < clock \/ (IsOnline(w) /\ w.at = clock /\ MaxWrites < clock)
  /\ ~IsOnline(w) => w.at <= MaxWrites
  /\ w.kind = "event" => (IF tabJoins THEN w.source = "t" /\ w.type # "p"
                          ELSE w.source = "t" => w.type \in {"s", "p"})

RowsGenuine == \A w \in ToSet(queue) \cup ToSet(batch) : Genuine(w)

\* p's rows in the batch are in the order they are written in.
Orderly(p) ==
  \A w, v \in ToSet(batch) :
    (w.kind = "event" => w.player = p) /\ Rank(w) < Rank(v) => w.at <= v.at

\* Rows P on their way, from a presence s to a tab list that says t: the last
\* says what the tab list does, and every event of the tab list changes what
\* was said before.
Earlier(P, w) == {v \in P : v.at < w.at}
Chain(P, s, t, p) ==
  /\ P = {} => (s <=> t)
  /\ \A w \in P : (\A v \in P : v.at <= w.at) => (Shows(w, p) <=> t)
  /\ \A e \in P : e.kind = "event" =>
       \/ Earlier(P, e) = {} /\ (s <=> ~Shows(e, p))
       \/ \E u \in Earlier(P, e) : /\ Shows(u, p) <=> ~Shows(e, p)
                                   /\ \A v \in Earlier(P, e) : v.at <= u.at

\* A join in the log that no leave has followed.
OpenJoin(p) ==
  \E r \in log : r.player = p /\ r.type = "j" /\
    \A t \in log : t.player = p /\ t.type = "l" => t.at < r.at

\* What the log's statements have shown of p, which the presence may not have yet.
LoggedPresent(p) ==
  IF stage = "presence" /\ Marks(batch, p) # {}
  THEN \E m \in Marks(batch, p) : Shows(m, p) /\ \A v \in Marks(batch, p) : v.at <= m.at
  ELSE IF stage = "clear" THEN FALSE
  ELSE IF stage = "retire" THEN p \in Due.players
  ELSE presence[p].present

Unlogged(p) == {w \in Pend(p) : stage = "presence" => w \notin Marks(batch, p)}

PresenceOf(p) ==
  /\ Orderly(p)
  /\ Chain(Pend(p), presence[p].present, p \in tab, p)
  /\ presence[p].at <= clock
  /\ \A w \in Pend(p) : presence[p].at <= w.at
  /\ stage \in {"rejoin", "leave", "retire"} /\ p \in Due.players => presence[p].present

LogOf(p) ==
  /\ \A r \in log : r.player = p => r.at <= clock
  /\ \A r \in log, w \in Unlogged(p) : r.player = p => r.at <= w.at
  /\ ~DoubleJoin(p)
  /\ OpenJoin(p) => LoggedPresent(p)

WriterInv == PresenceTypes /\ Stages /\ InOrder /\ RowsGenuine
PresenceInv ==
  /\ WriterInv
  /\ \A p \in Players \ excused : PresenceOf(p) /\ (tabJoins => LogOf(p))

-----------------------------------------------------------------------------
(* Rows, and the latest of them.                                           *)

LEMMA LeastWorks ==
  ASSUME NEW S \in SUBSET Nat, S # {}
  PROVE  \E m \in S : \A n \in S : m <= n
<1>1. PICK m \in S : \A n \in S : <<n, m>> \notin OpToRel(<, Nat)
  BY NatLessThanWellFounded, WFMin
<1>2. \A n \in S : ~(n < m)
  BY <1>1 DEF OpToRel
<1> QED
  BY <1>2

LEMMA MinWorks ==
  ASSUME NEW S \in SUBSET Nat, S # {}
  PROVE  Min(S) \in S /\ \A n \in S : Min(S) <= n
BY LeastWorks DEF Min

LEMMA LatestWorks ==
  ASSUME NEW W, W # {}, NEW N \in Nat, \A w \in W : w.at \in Nat /\ w.at <= N
  PROVE  Latest(W) \in W /\ \A v \in W : v.at <= Latest(W).at
<1> DEFINE Left == {N - w.at : w \in W}
<1>1. Left \subseteq Nat /\ Left # {}
  OBVIOUS
<1>2. PICK m \in Left : \A n \in Left : m <= n
  BY <1>1, LeastWorks
<1>3. PICK w \in W : m = N - w.at
  BY <1>2
<1>4. \A v \in W : v.at <= w.at
  <2> TAKE v \in W
  <2>1. N - v.at \in Left /\ v.at \in Nat /\ w.at \in Nat
    OBVIOUS
  <2>2. N - w.at <= N - v.at
    BY <2>1, <1>2, <1>3
  <2> QED
    BY <2>1, <2>2
<1> QED
  BY <1>4 DEF Latest

LEMMA RowFacts ==
  ASSUME NEW w \in WriteRow
  PROVE  /\ w.at \in Nat
         /\ w.kind \in {"event", "restart", "online"}
         /\ IsRestart(w) <=> w.kind = "restart"
         /\ IsOnline(w) <=> w.kind = "online"
         /\ Rank(w) \in {1, 2, 3}
         /\ w.kind = "event" <=> Rank(w) = 1
         /\ w.kind = "restart" <=> Rank(w) = 2
         /\ w.kind = "online" <=> Rank(w) = 3
         /\ w.kind = "event" => /\ w.type \in {"j", "l", "s", "p"}
                                /\ w.source \in {"t", "c"}
                                /\ w.player \in Players
         /\ w.kind = "online" => w.players \subseteq Players
<1>1. CASE w \in EventRow
  BY <1>1 DEF EventRow, IsRestart, IsOnline, Rank
<1>2. CASE w \in RestartRow
  BY <1>2 DEF RestartRow, IsRestart, IsOnline, Rank
<1>3. CASE w \in OnlineRow
  BY <1>3 DEF OnlineRow, IsRestart, IsOnline, Rank
<1> QED
  BY <1>1, <1>2, <1>3 DEF WriteRow

LEMMA PutRows ==
  ASSUME NEW time \in Nat
  PROVE  /\ \A type \in {"j", "l", "s", "p"}, source \in {"t", "c"}, p \in Players :
              /\ Event(type, source, p, time) \in WriteRow
              /\ Event(type, source, p, time).kind = "event"
         /\ RestartAt(time) \in WriteRow /\ RestartAt(time).kind = "restart"
         /\ \A ps \in SUBSET Players :
              /\ OnlineAt(time, ps) \in WriteRow
              /\ OnlineAt(time, ps).kind = "online"
BY DEF WriteRow, EventRow, RestartRow, OnlineRow, Event, RestartAt, OnlineAt

-----------------------------------------------------------------------------
(* Rows on their way, as they are put on the channel and written.          *)

\* A new row, after all the others.
LEMMA ChainPut ==
  ASSUME NEW P, NEW w, NEW s \in BOOLEAN, NEW t \in BOOLEAN, NEW t1 \in BOOLEAN, NEW p,
         w.at \in Nat, \A v \in P : v.at \in Nat /\ v.at <= w.at,
         w.kind = "event" => \A v \in P : v.at < w.at,
         Chain(P, s, t, p),
         Shows(w, p) <=> t1,
         w.kind = "event" => (t <=> ~Shows(w, p)),
         (\E v \in P : v.at = w.at) => (t1 <=> t)
  PROVE  Chain(P \cup {w}, s, t1, p)
<1> DEFINE Q == P \cup {w}
<1>1. ASSUME NEW x \in Q, \A v \in Q : v.at <= x.at
      PROVE  Shows(x, p) <=> t1
  <2>1. CASE x = w
    BY <2>1
  <2>2. CASE x # w
    <3>1. x \in P /\ x.at = w.at
      BY <2>2, <1>1
    <3>2. Shows(x, p) <=> t
      BY <3>1, <1>1 DEF Chain
    <3> QED
      BY <3>1, <3>2
  <2> QED
    BY <2>1, <2>2
<1>2. ASSUME NEW e \in Q, e.kind = "event"
      PROVE  \/ Earlier(Q, e) = {} /\ (s <=> ~Shows(e, p))
             \/ \E u \in Earlier(Q, e) : /\ Shows(u, p) <=> ~Shows(e, p)
                                         /\ \A v \in Earlier(Q, e) : v.at <= u.at
  <2>1. CASE e = w
    <3>1. Earlier(Q, e) = P
      BY <2>1, <1>2 DEF Earlier
    <3>2. CASE P = {}
      BY <2>1, <3>1, <3>2, <1>2 DEF Chain
    <3>3. CASE P # {}
      <4>1. PICK u \in P : \A v \in P : v.at <= u.at
        BY <3>3, LatestWorks
      <4>2. Shows(u, p) <=> t
        BY <4>1 DEF Chain
      <4> QED
        BY <2>1, <3>1, <4>1, <4>2, <1>2
    <3> QED
      BY <3>2, <3>3
  <2>2. CASE e # w
    <3>1. e \in P /\ Earlier(Q, e) = Earlier(P, e)
      BY <2>2, <1>2 DEF Earlier
    <3> QED
      BY <3>1, <1>2 DEF Chain
  <2> QED
    BY <2>1, <2>2
<1> QED
  BY <1>1, <1>2 DEF Chain

\* Some of them are written, the last of which decides what is shown.
LEMMA ChainWritten ==
  ASSUME NEW P, NEW Q \in SUBSET P, NEW last \in P,
         NEW s \in BOOLEAN, NEW s1 \in BOOLEAN, NEW t \in BOOLEAN, NEW p,
         \A v \in P : v.at \in Nat,
         Chain(P, s, t, p),
         \A v \in P \ Q : v.at <= last.at,
         \A v \in Q : last.at <= v.at /\ (v.kind = "event" => last.at < v.at),
         \A u, v, e \in P : e.kind = "event" /\ u.at = v.at /\ u.at < e.at => u = v,
         s1 <=> Shows(last, p)
  PROVE  Chain(Q, s1, t, p)
<1>1. ASSUME NEW x \in P, \A v \in Q : v.at <= x.at, last.at <= x.at
      PROVE  Shows(x, p) <=> t
  <2>1. \A v \in P : v.at <= x.at
    BY <1>1
  <2> QED
    BY <2>1 DEF Chain
<1>2. Q = {} => (s1 <=> t)
  BY <1>1
<1>3. \A x \in Q : (\A v \in Q : v.at <= x.at) => (Shows(x, p) <=> t)
  BY <1>1
<1>4. ASSUME NEW e \in Q, e.kind = "event"
      PROVE  \/ Earlier(Q, e) = {} /\ (s1 <=> ~Shows(e, p))
             \/ \E u \in Earlier(Q, e) : /\ Shows(u, p) <=> ~Shows(e, p)
                                         /\ \A v \in Earlier(Q, e) : v.at <= u.at
  <2>1. last \in Earlier(P, e)
    BY <1>4 DEF Earlier
  <2>2. PICK u \in Earlier(P, e) : /\ Shows(u, p) <=> ~Shows(e, p)
                                   /\ \A v \in Earlier(P, e) : v.at <= u.at
    BY <1>4, <2>1 DEF Chain
  <2>3. u \in P /\ u.at < e.at /\ last.at <= u.at
    BY <2>1, <2>2 DEF Earlier
  <2>4. CASE u \in Q
    <3>1. u \in Earlier(Q, e) /\ \A v \in Earlier(Q, e) : v.at <= u.at
      BY <2>2, <2>4 DEF Earlier
    <3> QED
      BY <3>1, <2>2
  <2>5. CASE u \notin Q
    <3>1. u = last
      BY <1>4, <2>3, <2>5
    <3>2. ASSUME NEW v \in Earlier(Q, e)
          PROVE  FALSE
      <4>1. v \in Q /\ v \in Earlier(P, e)
        BY DEF Earlier
      <4>2. v.at = u.at
        BY <4>1, <3>1, <2>2, <2>3
      <4> QED
        BY <4>1, <4>2, <1>4, <2>3, <2>5
    <3> QED
      BY <3>1, <3>2, <2>2
  <2> QED
    BY <2>4, <2>5
<1> QED
  BY <1>2, <1>3, <1>4 DEF Chain

\* What is shown does not matter while a row is on its way that came before
\* every event.
LEMMA ChainDue ==
  ASSUME NEW P, NEW due \in P, NEW s \in BOOLEAN, NEW s1 \in BOOLEAN, NEW t \in BOOLEAN,
         NEW p, Chain(P, s, t, p), \A e \in P : e.kind = "event" => due.at < e.at
  PROVE  Chain(P, s1, t, p)
<1>1. \A e \in P : e.kind = "event" => due \in Earlier(P, e)
  BY DEF Earlier
<1> QED
  BY <1>1 DEF Chain

-----------------------------------------------------------------------------
(* What the invariant says of the rows in the queue and in the batch.      *)

LEMMA SeqRows ==
  ASSUME NEW S, NEW s \in Seq(S)
  PROVE  /\ ToSet(s) \subseteq S
         /\ \A w : w \in ToSet(s) <=> \E i \in DOMAIN s : w = s[i]
         /\ \A i \in DOMAIN s : s[i] \in ToSet(s) /\ s[i] \in S /\ i \in Nat
BY DEF ToSet

\* Each row is one that a handler puts on the channel, and not of the future.
LEMMA HeldFacts ==
  ASSUME WriterInv, NEW w \in ToSet(queue) \cup ToSet(batch)
  PROVE  /\ w \in WriteRow /\ Genuine(w)
         /\ w.at \in Nat /\ w.at <= clock
<1>1. w \in WriteRow /\ Genuine(w) /\ clock \in Nat
  BY SeqRows, LogWriterAssumption DEF WriterInv, PresenceTypes, RowsGenuine, LogWriterAssumption
<1> QED
  BY <1>1, RowFacts DEF Genuine

LEMMA BatchPlaces ==
  ASSUME WriterInv
  PROVE  /\ Unwritten \subseteq DOMAIN batch
         /\ todo \in SUBSET Nat /\ DOMAIN batch \in SUBSET Nat
         /\ \A i \in DOMAIN batch : batch[i] \in ToSet(batch)
         /\ Waiting \subseteq ToSet(queue) \cup ToSet(batch)
         /\ ToSet(queue) \subseteq Waiting
         /\ \A i \in Unwritten : batch[i] \in Waiting
<1>1. Unwritten \subseteq DOMAIN batch /\ todo \subseteq DOMAIN batch
  BY DEF WriterInv, PresenceTypes, Stages, Unwritten, Restarts, Onlines
<1>2. DOMAIN batch \subseteq Nat /\ \A i \in DOMAIN batch : batch[i] \in ToSet(batch)
  BY SeqRows DEF WriterInv, PresenceTypes
<1> QED
  BY <1>1, <1>2 DEF Waiting

\* The batch is older than the queue.
LEMMA BatchFirst ==
  ASSUME WriterInv, NEW v \in ToSet(batch), NEW w \in ToSet(queue)
  PROVE  /\ v.at <= w.at
         /\ v.kind = "event" \/ w.kind = "event" => v.at < w.at
<1>1. v.at \in Nat /\ w.at \in Nat /\ Before(v, w)
  BY HeldFacts DEF WriterInv, InOrder
<1>2. (IsOnline(v) => v.kind = "online") /\ (IsOnline(w) => w.kind = "online")
  BY DEF IsOnline
<1> QED
  BY <1>1, <1>2 DEF Before

\* No two rows that came before an event have the same time.
LEMMA TimesDiffer ==
  ASSUME WriterInv, NEW u \in ToSet(queue) \cup ToSet(batch),
         NEW v \in ToSet(queue) \cup ToSet(batch), u.at = v.at, u.at <= MaxWrites
  PROVE  u = v
<1>1. ASSUME NEW x \in ToSet(queue) \cup ToSet(batch),
             NEW y \in ToSet(queue) \cup ToSet(batch), x.at = u.at, y.at = u.at, Before(x, y)
      PROVE  FALSE
  BY <1>1, HeldFacts, LogWriterAssumption DEF Before, LogWriterAssumption
<1>2. CASE u \in ToSet(queue) /\ v \in ToSet(queue)
  <2>1. PICK i \in DOMAIN queue : u = queue[i]
    BY <1>2 DEF ToSet
  <2>2. PICK j \in DOMAIN queue : v = queue[j]
    BY <1>2 DEF ToSet
  <2>3. i \in Nat /\ j \in Nat
    BY SeqRows DEF WriterInv, PresenceTypes
  <2>4. ~(i < j) /\ ~(j < i)
    BY <2>1, <2>2, <1>1, <1>2 DEF WriterInv, InOrder
  <2> QED
    BY <2>1, <2>2, <2>3, <2>4
<1>3. CASE u \in ToSet(batch) /\ v \in ToSet(batch)
  <2>1. PICK i \in DOMAIN batch : u = batch[i]
    BY <1>3 DEF ToSet
  <2>2. PICK j \in DOMAIN batch : v = batch[j]
    BY <1>3 DEF ToSet
  <2>3. i \in Nat /\ j \in Nat
    BY SeqRows DEF WriterInv, PresenceTypes
  <2>4. ~(i < j) /\ ~(j < i)
    BY <2>1, <2>2, <1>1, <1>3 DEF WriterInv, InOrder
  <2> QED
    BY <2>1, <2>2, <2>3, <2>4
<1>4. CASE u \in ToSet(batch) /\ v \in ToSet(queue)
  BY <1>1, <1>4 DEF WriterInv, InOrder
<1>5. CASE u \in ToSet(queue) /\ v \in ToSet(batch)
  BY <1>1, <1>5 DEF WriterInv, InOrder
<1> QED
  BY <1>2, <1>3, <1>4, <1>5

\* p's rows on their way: what the lemmas on chains ask of them.
LEMMA PendFacts ==
  ASSUME WriterInv, NEW p
  PROVE  /\ Pend(p) \subseteq Waiting
         /\ \A w \in Pend(p) : /\ w \in ToSet(queue) \cup ToSet(batch)
                               /\ w \in WriteRow /\ Bears(w, p)
                               /\ w.at \in Nat /\ w.at <= clock
         /\ \A u, v, e \in Pend(p) :
              e.kind = "event" /\ u.at = v.at /\ u.at < e.at => u = v
<1>1. \A w \in Pend(p) : /\ w \in Waiting /\ w \in ToSet(queue) \cup ToSet(batch)
                         /\ w \in WriteRow /\ Bears(w, p)
                         /\ w.at \in Nat /\ w.at <= clock
  BY BatchPlaces, HeldFacts DEF Pend
<1>2. ASSUME NEW e \in Pend(p), e.kind = "event"
      PROVE  e.at <= MaxWrites
  <2>1. ~IsOnline(e) /\ Genuine(e)
    BY <1>1, <1>2, HeldFacts DEF IsOnline
  <2> QED
    BY <2>1 DEF Genuine
<1>3. ASSUME NEW u \in Pend(p), NEW v \in Pend(p), NEW e \in Pend(p),
             e.kind = "event", u.at = v.at, u.at < e.at
      PROVE  u = v
  <2>1. u.at <= MaxWrites
    BY <1>1, <1>2, <1>3, LogWriterAssumption DEF LogWriterAssumption
  <2> QED
    BY <1>1, <1>3, <2>1, TimesDiffer
<1> QED
  BY <1>1, <1>3

\* The restart or the reconcile that is being written.
LEMMA DueRow ==
  ASSUME WriterInv, stage \in {"restart", "clear", "mark", "rejoin", "leave", "retire"}
  PROVE  /\ Min(todo) \in todo /\ todo \subseteq DOMAIN batch /\ todo \subseteq Unwritten
         /\ \A i \in todo : Min(todo) <= i
         /\ Due \in ToSet(batch) /\ Due \in WriteRow /\ Due.at \in Nat /\ Due.at <= clock
         /\ stage \in {"restart", "clear"} => Due.kind = "restart"
         /\ stage \in {"mark", "rejoin", "leave", "retire"} =>
              Due.kind = "online" /\ Due.players \subseteq Players
         /\ \A p : Due \in Pend(p)
<1>1. /\ Min(todo) \in todo /\ todo \subseteq DOMAIN batch /\ todo \subseteq Unwritten
      /\ \A i \in todo : Min(todo) <= i
  BY MinWorks, BatchPlaces DEF WriterInv, Stages, Unwritten, Restarts, Onlines
<1>2. /\ Due \in ToSet(batch) /\ Due \in WriteRow /\ Due \in Waiting
      /\ Due.at \in Nat /\ Due.at <= clock
  BY <1>1, BatchPlaces, HeldFacts DEF Due
<1>3. /\ stage \in {"restart", "clear"} => Due.kind = "restart"
      /\ stage \in {"mark", "rejoin", "leave", "retire"} => Due.kind = "online"
  BY <1>1 DEF WriterInv, Stages, Restarts, Onlines, Due, IsRestart, IsOnline
<1>4. \A p : Due \in Pend(p)
  BY <1>2, <1>3 DEF Pend, Bears
<1> QED
  BY <1>1, <1>2, <1>3, <1>4, RowFacts

\* It comes before all that is still on its way.
LEMMA DueFirst ==
  ASSUME WriterInv, NEW p, Orderly(p),
         stage \in {"restart", "clear", "mark", "rejoin", "leave", "retire"}
  PROVE  \A w \in Pend(p) : Due.at <= w.at /\ (w.kind = "event" => Due.at < w.at)
<1> SUFFICES ASSUME NEW w \in Pend(p)
             PROVE  Due.at <= w.at /\ (w.kind = "event" => Due.at < w.at)
  OBVIOUS
<1>1. CASE w \in ToSet(queue)
  BY <1>1, DueRow, BatchFirst
<1>2. CASE w \notin ToSet(queue)
  <2>1. PICK i \in Unwritten : w = batch[i]
    BY <1>2 DEF Pend, Waiting
  <2>2. i \in DOMAIN batch /\ w \in ToSet(batch) /\ w \in WriteRow
    BY <2>1, BatchPlaces, HeldFacts
  <2>3. i \in todo \/ (stage \in {"restart", "clear"} /\ i \in Onlines)
    BY <2>1 DEF Unwritten
  <2>4. w.kind # "event"
    BY <2>1, <2>3 DEF WriterInv, Stages, Restarts, Onlines, IsRestart, IsOnline
  <2>5. CASE i \in todo
    <3>1. i \in Nat /\ Min(todo) \in Nat /\ Min(todo) <= i
      BY <2>5, DueRow, BatchPlaces
    <3>2. i = Min(todo) \/ Before(Due, w)
      BY <3>1, DueRow, <2>1, <2>2 DEF WriterInv, InOrder, Due
    <3>3. w.at \in Nat /\ Due.at \in Nat
      BY DueRow, <2>2, RowFacts
    <3> QED
      BY <3>2, <3>3, <2>1, <2>4 DEF Before, Due
  <2>6. CASE stage \in {"restart", "clear"} /\ i \in Onlines
    <3>1. w.kind = "online" /\ Due.kind = "restart"
      BY <2>1, <2>6, DueRow DEF Onlines, IsOnline
    <3>2. Rank(Due) < Rank(w)
      BY <3>1 DEF Rank
    <3> QED
      BY <3>1, <3>2, DueRow, <2>2 DEF Orderly
  <2> QED
    BY <2>3, <2>5, <2>6
<1> QED
  BY <1>1, <1>2

-----------------------------------------------------------------------------
(* Steps of the game: a row is put on the channel, or nothing is.          *)

\* Nothing that the invariant says of p's rows and of the log has changed.
LEMMA PlayerStands ==
  ASSUME NEW p, PresenceOf(p), tabJoins => LogOf(p), clock \in Nat, clock' \in Nat,
         clock <= clock',
         UNCHANGED <<tabJoins, tab, queue, stage, batch, todo, log, presence>>,
         WriterInv, p \in Players
  PROVE  PresenceOf(p)' /\ (tabJoins => LogOf(p))'
<1>1. /\ Pend(p)' = Pend(p) /\ Orderly(p)' = Orderly(p) /\ Due' = Due
      /\ Unlogged(p)' = Unlogged(p) /\ LoggedPresent(p)' = LoggedPresent(p)
      /\ OpenJoin(p)' = OpenJoin(p) /\ DoubleJoin(p)' = DoubleJoin(p)
  BY DEF Pend, Waiting, Unwritten, Onlines, Orderly, Due, Unlogged, LoggedPresent,
     OpenJoin, DoubleJoin
<1>2. presence[p].at \in Nat /\ \A r \in log : r.at \in Nat
  BY DEF WriterInv, PresenceTypes, LogRow
<1>3. PresenceOf(p)'
  BY <1>1, <1>2 DEF PresenceOf
<1>4. tabJoins => LogOf(p)'
  BY <1>1, <1>2 DEF LogOf
<1> QED
  BY <1>3, <1>4

LEMMA GoQuietKeeps ==
  ASSUME PresenceInv, GoQuiet
  PROVE  PresenceInv'
<1>1. clock \in Nat /\ clock' \in 1 .. MaxWrites + 1 /\ clock < clock' /\ WriterInv
  BY LogWriterAssumption DEF PresenceInv, PresenceTypes, WriterInv, GoQuiet, LogWriterAssumption
<1>2. PresenceTypes' /\ Stages' /\ InOrder'
  BY <1>1 DEF PresenceInv, WriterInv, PresenceTypes, Stages, InOrder, Restarts, Onlines,
              GoQuiet, dbVars
<1>3. RowsGenuine'
  <2>1. ASSUME NEW w \in ToSet(queue) \cup ToSet(batch)
        PROVE  Genuine(w)'
    BY <1>1, HeldFacts DEF Genuine, GoQuiet
  <2> QED
    BY <2>1 DEF RowsGenuine, GoQuiet
<1>4. ASSUME NEW p \in Players \ excused'
      PROVE  PresenceOf(p)' /\ (tabJoins => LogOf(p))'
  BY <1>1, PlayerStands DEF PresenceInv, WriterInv, GoQuiet, dbVars
<1> QED
  BY <1>2, <1>3, <1>4 DEF PresenceInv, WriterInv

LEMMA ReadTabKeeps ==
  ASSUME PresenceInv, ReadTab
  PROVE  PresenceInv'
<1>1. clock \in Nat /\ clock' \in Nat /\ clock <= clock' /\ WriterInv
  BY LogWriterAssumption DEF PresenceInv, PresenceTypes, WriterInv, ReadTab, LogWriterAssumption
<1>2. PresenceTypes' /\ Stages' /\ InOrder' /\ RowsGenuine'
  BY DEF PresenceInv, WriterInv, PresenceTypes, Stages, InOrder, RowsGenuine, Genuine, Restarts,
         Onlines, ReadTab, dbVars
<1>3. ASSUME NEW p \in Players \ excused'
      PROVE  PresenceOf(p)' /\ (tabJoins => LogOf(p))'
  BY <1>1, PlayerStands DEF PresenceInv, WriterInv, ReadTab, dbVars
<1> QED
  BY <1>2, <1>3 DEF PresenceInv, WriterInv

\* A row at the end of the queue, at the present time.
PutNow(w) ==
  /\ queue' = Append(queue, w)
  /\ w \in WriteRow /\ w.at = clock
  /\ clock' = IF clock <= MaxWrites THEN clock + 1 ELSE clock
  /\ clock <= MaxWrites \/ w.kind = "online"

LEMMA PutFacts ==
  ASSUME PresenceInv, NEW w, PutNow(w), tab' \subseteq Players, snapshot' \subseteq Players,
         UNCHANGED <<tabJoins, stage, batch, todo, log, presence>>, Genuine(w)'
  PROVE  /\ PresenceTypes' /\ Stages' /\ InOrder' /\ RowsGenuine'
         /\ Waiting' = Waiting \cup {w}
         /\ clock \in Nat /\ clock' \in Nat /\ clock <= clock'
         /\ \A v \in ToSet(queue) \cup ToSet(batch) : Before(v, w)
<1>1. /\ clock \in Nat /\ clock' \in 1 .. MaxWrites + 1 /\ clock' \in Nat /\ clock <= clock'
      /\ clock > MaxWrites => clock' = clock
      /\ clock <= MaxWrites => clock < clock'
      /\ WriterInv
  BY LogWriterAssumption DEF PresenceInv, PresenceTypes, WriterInv, PutNow, LogWriterAssumption
<1>2. /\ queue \in Seq(WriteRow) /\ queue' \in Seq(WriteRow)
      /\ Len(queue') = Len(queue) + 1 /\ Len(queue) \in Nat
      /\ \A i \in 1 .. Len(queue) : queue'[i] = queue[i]
      /\ queue'[Len(queue) + 1] = w
      /\ DOMAIN queue = 1 .. Len(queue) /\ DOMAIN queue' = 1 .. (Len(queue) + 1)
  <2>1. queue \in Seq(WriteRow)
    BY DEF PresenceInv, WriterInv, PresenceTypes
  <2> QED
    BY <2>1, AppendProperties, LenProperties DEF PutNow
<1>3. ToSet(queue') = ToSet(queue) \cup {w}
  <2>1. \A v : v \in ToSet(queue') <=> v \in ToSet(queue) \cup {w}
    BY <1>2, SeqRows
  <2> QED
    BY <2>1
<1>4. \A v \in ToSet(queue) \cup ToSet(batch) : Before(v, w)
  <2> TAKE v \in ToSet(queue) \cup ToSet(batch)
  <2>1. Genuine(v) /\ v.at \in Nat
    BY <1>1, HeldFacts
  <2>2. IsOnline(w) <=> w.kind = "online"
    BY DEF IsOnline
  <2> QED
    BY <2>1, <2>2, <1>1, LogWriterAssumption DEF Genuine, Before, PutNow, LogWriterAssumption
<1>5. PresenceTypes' /\ Stages'
  BY <1>1, <1>2 DEF PresenceInv, WriterInv, PresenceTypes, Stages, Restarts, Onlines
<1>6. InOrder'
  <2>1. ASSUME NEW i \in DOMAIN queue', NEW j \in DOMAIN queue', i < j
        PROVE  Before(queue'[i], queue'[j])
    <3>1. CASE j <= Len(queue)
      BY <3>1, <2>1, <1>2 DEF PresenceInv, WriterInv, InOrder
    <3>2. CASE j = Len(queue) + 1
      <4>1. i \in DOMAIN queue /\ queue'[i] = queue[i] /\ queue[i] \in ToSet(queue)
        BY <3>2, <2>1, <1>2, SeqRows
      <4> QED
        BY <3>2, <4>1, <1>2, <1>4
    <3> QED
      BY <3>1, <3>2, <2>1, <1>2
  <2>2. ASSUME NEW v \in ToSet(batch'), NEW x \in ToSet(queue')
        PROVE  Before(v, x)
    BY <1>3, <1>4 DEF PresenceInv, WriterInv, InOrder
  <2> QED
    BY <2>1, <2>2 DEF PresenceInv, WriterInv, InOrder, Before
<1>7. RowsGenuine'
  <2>1. ASSUME NEW v \in ToSet(queue) \cup ToSet(batch)
        PROVE  Genuine(v)'
    BY <1>1, HeldFacts DEF Genuine
  <2> QED
    BY <2>1, <1>3 DEF RowsGenuine
<1>8. Waiting' = Waiting \cup {w}
  BY <1>3 DEF Waiting, Unwritten, Onlines
<1> QED
  BY <1>1, <1>4, <1>5, <1>6, <1>7, <1>8

\* What a row has to say of p, for what is known of p to be kept.
LEMMA PutKeeps ==
  ASSUME PresenceInv, NEW w, PutNow(w), tab' \subseteq Players, snapshot' \subseteq Players,
         UNCHANGED <<tabJoins, stage, batch, todo, log, presence>>, Genuine(w)',
         NEW p \in Players \ excused,
         Bears(w, p) => /\ Shows(w, p) <=> p \in tab'
                        /\ w.kind = "event" => (p \in tab <=> ~Shows(w, p))
                        /\ w.kind = "online" => (p \in tab' <=> p \in tab),
         ~Bears(w, p) => (p \in tab' <=> p \in tab)
  PROVE  PresenceOf(p)' /\ (tabJoins => LogOf(p))'
<1> USE PutFacts
<1>1. /\ PresenceOf(p) /\ (tabJoins => LogOf(p)) /\ WriterInv
      /\ presence[p].at \in Nat /\ presence[p].present \in BOOLEAN
      /\ \A r \in log : r.at \in Nat
  BY DEF PresenceInv, WriterInv, PresenceTypes, LogRow
<1>2. w.at \in Nat /\ w.at = clock
  BY DEF PutNow
<1>3. Pend(p)' = IF Bears(w, p) THEN Pend(p) \cup {w} ELSE Pend(p)
  BY DEF Pend, Bears
<1>4. Orderly(p)' /\ Due' = Due /\ presence' = presence
  BY <1>1 DEF PresenceOf, Orderly, Due
<1>5. Chain(Pend(p)', presence[p].present, p \in tab', p)
  <2>1. CASE Bears(w, p)
    <3>1. \A v \in Pend(p) : /\ v.at \in Nat /\ v.at <= w.at
                             /\ w.kind = "event" => v.at < w.at
                             /\ v.at = w.at => w.kind = "online"
      <4> TAKE v \in Pend(p)
      <4>1. Before(v, w) /\ v.at \in Nat
        BY <1>1, PendFacts
      <4> QED
        BY <4>1, <1>2 DEF Before, IsOnline
    <3>2. (p \in tab) \in BOOLEAN /\ (p \in tab') \in BOOLEAN
      OBVIOUS
    <3> DEFINE t == p \in tab
               t1 == p \in tab'
               s == presence[p].present
    <3>3. Chain(Pend(p), s, t, p) /\ s \in BOOLEAN /\ t \in BOOLEAN /\ t1 \in BOOLEAN
      BY <1>1 DEF PresenceOf
    <3>4. /\ Shows(w, p) <=> t1
          /\ w.kind = "event" => (t <=> ~Shows(w, p))
          /\ (\E v \in Pend(p) : v.at = w.at) => (t1 <=> t)
      BY <2>1, <3>1
    <3>5. Pend(p)' = Pend(p) \cup {w}
      BY <2>1, <1>3
    <3> HIDE DEF t, t1, s
    <3>6. Chain(Pend(p) \cup {w}, s, t1, p)
      BY <1>2, <3>1, <3>3, <3>4, ChainPut
    <3> QED
      BY <3>5, <3>6 DEF t1, s
  <2>2. CASE ~Bears(w, p)
    BY <2>2, <1>1, <1>3 DEF PresenceOf
  <2> QED
    BY <2>1, <2>2
<1>6. PresenceOf(p)'
  <2>1. presence[p].at <= clock' /\ \A v \in Pend(p)' : presence[p].at <= v.at
    BY <1>1, <1>2, <1>3 DEF PresenceOf
  <2> QED
    BY <1>1, <1>4, <1>5, <2>1 DEF PresenceOf
<1>7. tabJoins => LogOf(p)'
  <2>1. Unlogged(p)' \subseteq Unlogged(p) \cup {w}
    BY <1>3 DEF Unlogged
  <2>2. /\ OpenJoin(p)' = OpenJoin(p) /\ DoubleJoin(p)' = DoubleJoin(p)
        /\ LoggedPresent(p)' = LoggedPresent(p)
    BY <1>4 DEF OpenJoin, DoubleJoin, LoggedPresent
  <2>3. tabJoins => \A r \in log : r.player = p =>
          r.at <= clock' /\ \A v \in Unlogged(p)' : r.at <= v.at
    BY <1>1, <1>2, <2>1 DEF LogOf
  <2> QED
    BY <1>1, <2>2, <2>3 DEF LogOf
<1> QED
  BY <1>6, <1>7

LEMMA ArriveKeeps ==
  ASSUME PresenceInv, NEW q \in Players, Arrive(q)
  PROVE  PresenceInv'
<1>1. PICK type \in {"s"} \cup IF tabJoins THEN {"j"} ELSE {} : Put(Event(type, "t", q, clock))
  BY DEF Arrive
<1>2. PICK w : w = Event(type, "t", q, clock)
  OBVIOUS
<1>3. clock \in Nat /\ tab \subseteq Players /\ snapshot \subseteq Players
  BY LogWriterAssumption DEF PresenceInv, WriterInv, PresenceTypes, LogWriterAssumption
<1>4. /\ w \in WriteRow /\ w.kind = "event" /\ w.at = clock
      /\ w.type = type /\ w.source = "t" /\ w.player = q /\ type \in {"s", "j"}
  BY <1>2, <1>1, <1>3, PutRows DEF Event
<1>5. \A p : (Bears(w, p) <=> p = q) /\ (Shows(w, p) <=> TRUE)
  BY <1>4 DEF Bears, Shows, PresentAfter
<1>6. Genuine(w)' /\ PutNow(w)
  BY <1>2, <1>1, <1>3, <1>4 DEF Genuine, Put, PutNow, IsOnline, Arrive
<1>7. /\ UNCHANGED <<tabJoins, snapshot, stage, batch, todo, log, presence, excused>>
      /\ q \notin tab /\ tab' = tab \cup {q} /\ tab' \subseteq Players
  BY <1>3 DEF Arrive, dbVars
<1>8. PresenceTypes' /\ Stages' /\ InOrder' /\ RowsGenuine'
  BY <1>3, <1>6, <1>7, PutFacts
<1>9. ASSUME NEW p \in Players \ excused
      PROVE  PresenceOf(p)' /\ (tabJoins => LogOf(p))'
  BY <1>3, <1>4, <1>5, <1>6, <1>7, PutKeeps
<1> QED
  BY <1>7, <1>8, <1>9 DEF PresenceInv, WriterInv

LEMMA DepartKeeps ==
  ASSUME PresenceInv, NEW q \in Players, Depart(q)
  PROVE  PresenceInv'
<1>1. PICK type : type = IF tabJoins THEN "l" ELSE "p"
  OBVIOUS
<1>2. PICK w : w = Event(type, "t", q, clock)
  OBVIOUS
<1>3. clock \in Nat /\ tab \subseteq Players /\ snapshot \subseteq Players
  BY LogWriterAssumption DEF PresenceInv, WriterInv, PresenceTypes, LogWriterAssumption
<1>4. /\ w \in WriteRow /\ w.kind = "event" /\ w.at = clock
      /\ w.type = type /\ w.source = "t" /\ w.player = q /\ type \in {"l", "p"}
  BY <1>2, <1>1, <1>3, PutRows DEF Event
<1>5. \A p : (Bears(w, p) <=> p = q) /\ (Shows(w, p) <=> FALSE)
  BY <1>4 DEF Bears, Shows, PresentAfter
<1>6. Genuine(w)' /\ PutNow(w)
  BY <1>2, <1>1, <1>3, <1>4 DEF Genuine, Put, PutNow, IsOnline, Depart
<1>7. /\ UNCHANGED <<tabJoins, snapshot, stage, batch, todo, log, presence, excused>>
      /\ q \in tab /\ tab' = tab \ {q} /\ tab' \subseteq Players
  BY <1>3 DEF Depart, dbVars
<1>8. PresenceTypes' /\ Stages' /\ InOrder' /\ RowsGenuine'
  BY <1>3, <1>6, <1>7, PutFacts
<1>9. ASSUME NEW p \in Players \ excused
      PROVE  PresenceOf(p)' /\ (tabJoins => LogOf(p))'
  BY <1>3, <1>4, <1>5, <1>6, <1>7, PutKeeps
<1> QED
  BY <1>7, <1>8, <1>9 DEF PresenceInv, WriterInv

LEMMA AnnounceKeeps ==
  ASSUME PresenceInv, NEW q \in Players, Announce(q)
  PROVE  PresenceInv'
<1>1. PICK type : type = IF q \in tab THEN "j" ELSE "l"
  OBVIOUS
<1>2. PICK w : w = Event(type, "c", q, clock)
  OBVIOUS
<1>3. clock \in Nat /\ tab \subseteq Players /\ snapshot \subseteq Players
  BY LogWriterAssumption DEF PresenceInv, WriterInv, PresenceTypes, LogWriterAssumption
<1>4. w \in WriteRow /\ w.kind = "event" /\ w.at = clock /\ w.source = "c"
  BY <1>2, <1>1, <1>3, PutRows DEF Event
<1>5. \A p : ~Bears(w, p)
  BY <1>4 DEF Bears
<1>6. Genuine(w)' /\ PutNow(w)
  BY <1>2, <1>1, <1>3, <1>4 DEF Genuine, Put, PutNow, IsOnline, Announce
<1>7. UNCHANGED <<tabJoins, tab, snapshot, stage, batch, todo, log, presence, excused>>
  BY DEF Announce, dbVars
<1>8. PresenceTypes' /\ Stages' /\ InOrder' /\ RowsGenuine'
  BY <1>3, <1>6, <1>7, PutFacts
<1>9. ASSUME NEW p \in Players \ excused
      PROVE  PresenceOf(p)' /\ (tabJoins => LogOf(p))'
  BY <1>3, <1>4, <1>5, <1>6, <1>7, PutKeeps
<1> QED
  BY <1>7, <1>8, <1>9 DEF PresenceInv, WriterInv

LEMMA RestartCountdownKeeps ==
  ASSUME PresenceInv, RestartCountdown
  PROVE  PresenceInv'
<1>1. PICK w : w = RestartAt(clock)
  OBVIOUS
<1>2. clock \in Nat /\ tab \subseteq Players /\ snapshot \subseteq Players
  BY LogWriterAssumption DEF PresenceInv, WriterInv, PresenceTypes, LogWriterAssumption
<1>3. w \in WriteRow /\ w.kind = "restart" /\ w.at = clock
  BY <1>1, <1>2, PutRows DEF RestartAt
<1>4. \A p : Bears(w, p) /\ ~Shows(w, p)
  BY <1>3 DEF Bears, Shows
<1>5. Genuine(w)' /\ PutNow(w)
  BY <1>1, <1>2, <1>3 DEF Genuine, Put, PutNow, IsOnline, RestartCountdown
<1>6. /\ UNCHANGED <<tabJoins, snapshot, stage, batch, todo, log, presence, excused>>
      /\ tab' = {}
  BY DEF RestartCountdown, dbVars
<1>7. PresenceTypes' /\ Stages' /\ InOrder' /\ RowsGenuine'
  BY <1>2, <1>5, <1>6, PutFacts
<1>8. ASSUME NEW p \in Players \ excused
      PROVE  PresenceOf(p)' /\ (tabJoins => LogOf(p))'
  BY <1>2, <1>3, <1>4, <1>5, <1>6, PutKeeps
<1> QED
  BY <1>6, <1>7, <1>8 DEF PresenceInv, WriterInv

\* The exception for a list that changed since it was read is needed here.
LEMMA QueueOnlineKeeps ==
  ASSUME PresenceInv, QueueOnline
  PROVE  PresenceInv'
<1>1. PICK w : w = OnlineAt(clock, snapshot)
  OBVIOUS
<1>2. clock \in Nat /\ tab \subseteq Players /\ snapshot \subseteq Players
  BY LogWriterAssumption DEF PresenceInv, WriterInv, PresenceTypes, LogWriterAssumption
<1>3. w \in WriteRow /\ w.kind = "online" /\ w.at = clock /\ w.players = snapshot
  BY <1>1, <1>2, PutRows DEF OnlineAt
<1>4. \A p : Bears(w, p) /\ (Shows(w, p) <=> p \in snapshot)
  BY <1>3 DEF Bears, Shows
<1>5. PutNow(w)
  BY <1>1, <1>2, <1>3 DEF PutNow, QueueOnline
<1>6. Genuine(w)'
  BY <1>1, <1>2, <1>3, LogWriterAssumption DEF Genuine, IsOnline, QueueOnline, LogWriterAssumption
<1>7. /\ UNCHANGED <<tabJoins, tab, stage, batch, todo, log, presence>>
      /\ snapshot' = {}
      /\ \A p \in Players \ excused' :
           p \in Players \ excused /\ (p \in snapshot <=> p \in tab)
  BY DEF QueueOnline, dbVars
<1>8. PresenceTypes' /\ Stages' /\ InOrder' /\ RowsGenuine'
  BY <1>2, <1>5, <1>6, <1>7, PutFacts
<1>9. ASSUME NEW p \in Players \ excused'
      PROVE  PresenceOf(p)' /\ (tabJoins => LogOf(p))'
  BY <1>2, <1>3, <1>4, <1>5, <1>6, <1>7, PutKeeps
<1> QED
  BY <1>8, <1>9 DEF PresenceInv, WriterInv

-----------------------------------------------------------------------------
(* Steps of the writer.  It takes a batch off the queue:                   *)

LEMMA FlushKeeps ==
  ASSUME PresenceInv, Flush
  PROVE  PresenceInv'
<1>1. PICK n \in 1 .. Len(queue) : /\ batch' = SubSeq(queue, 1, n)
                                   /\ queue' = SubSeq(queue, n + 1, Len(queue))
  BY DEF Flush
<1>2. /\ stage = "idle" /\ stage' = "log" /\ batch = <<>> /\ todo = {} /\ todo' = {}
      /\ UNCHANGED <<tabJoins, clock, tab, snapshot, log, presence>>
      /\ excused' = excused \cup Overtaken(batch)'
  BY DEF PresenceInv, WriterInv, Stages, Flush, gameVars, dbVars
<1>3. /\ queue \in Seq(WriteRow) /\ Len(queue) \in Nat /\ n \in Nat /\ n <= Len(queue)
      /\ DOMAIN queue = 1 .. Len(queue) /\ \A i \in 1 .. Len(queue) : queue[i] \in WriteRow
  BY LenProperties, ElementOfSeq DEF PresenceInv, WriterInv, PresenceTypes
<1>4. /\ batch' \in Seq(WriteRow) /\ DOMAIN batch' = 1 .. n
      /\ \A i \in 1 .. n : batch'[i] = queue[i]
  <2>1. /\ SubSeq(queue, 1, n) \in Seq(WriteRow) /\ Len(SubSeq(queue, 1, n)) = n
        /\ \A i \in 1 .. n - 1 + 1 : SubSeq(queue, 1, n)[i] = queue[1 + i - 1]
    BY <1>1, <1>3, SubSeqProperties
  <2>2. 1 .. n - 1 + 1 = 1 .. n /\ \A i \in 1 .. n : 1 + i - 1 = i
    BY <1>3
  <2>3. Len(batch') = n /\ batch' \in Seq(WriteRow)
    BY <2>1, <1>1
  <2>4. DOMAIN batch' = 1 .. n
    BY <2>3, LenProperties
  <2> QED
    BY <2>1, <2>2, <2>4, <1>1
<1>5. /\ queue' \in Seq(WriteRow) /\ DOMAIN queue' = 1 .. (Len(queue) - n)
      /\ \A i \in 1 .. (Len(queue) - n) : queue'[i] = queue[n + i]
  <2>1. /\ SubSeq(queue, n + 1, Len(queue)) \in Seq(WriteRow)
        /\ Len(SubSeq(queue, n + 1, Len(queue)))
             = IF n + 1 <= Len(queue) THEN Len(queue) - (n + 1) + 1 ELSE 0
        /\ \A i \in 1 .. Len(queue) - (n + 1) + 1 :
             SubSeq(queue, n + 1, Len(queue))[i] = queue[(n + 1) + i - 1]
    <3>1. n + 1 \in Int /\ Len(queue) \in Int
          /\ \A i \in n + 1 .. Len(queue) : queue[i] \in WriteRow
      BY <1>3
    <3> QED
      BY <3>1, SubSeqProperties
  <2>2. /\ 1 .. Len(queue) - (n + 1) + 1 = 1 .. (Len(queue) - n)
        /\ \A i \in 1 .. (Len(queue) - n) : (n + 1) + i - 1 = n + i
    BY <1>3
  <2>3. Len(queue') = Len(queue) - n /\ queue' \in Seq(WriteRow)
    BY <2>1, <1>1, <1>3
  <2>4. DOMAIN queue' = 1 .. (Len(queue) - n)
    BY <2>3, LenProperties
  <2> QED
    BY <2>1, <2>2, <2>4, <1>1
<1>6. /\ \A w : w \in ToSet(batch') <=> \E i \in 1 .. n : w = queue[i]
      /\ \A w : w \in ToSet(queue') <=> \E i \in n + 1 .. Len(queue) : w = queue[i]
  <2>1. \A w : w \in ToSet(batch') <=> \E i \in 1 .. n : w = queue[i]
    BY <1>4, SeqRows
  <2>2. \A w : w \in ToSet(queue') <=> \E i \in 1 .. (Len(queue) - n) : w = queue[n + i]
    <3>1. \A w : w \in ToSet(queue') <=> \E i \in DOMAIN queue' : w = queue'[i]
      BY <1>5, SeqRows
    <3>2. \A w : (\E i \in DOMAIN queue' : w = queue'[i])
                   <=> \E i \in 1 .. (Len(queue) - n) : w = queue[n + i]
      <4>1. DOMAIN queue' = 1 .. (Len(queue) - n)
        BY <1>5
      <4>2. \A i \in 1 .. (Len(queue) - n) : queue'[i] = queue[n + i]
        BY <1>5
      <4> QED
        BY <4>1, <4>2, Zenon
    <3> QED
      BY <3>1, <3>2
  <2>3. ASSUME NEW i \in n + 1 .. Len(queue)
        PROVE  i - n \in 1 .. (Len(queue) - n) /\ n + (i - n) = i
    BY <1>3
  <2>4. ASSUME NEW i \in 1 .. (Len(queue) - n)
        PROVE  n + i \in n + 1 .. Len(queue)
    BY <1>3
  <2>5. ASSUME NEW w, NEW i \in n + 1 .. Len(queue), w = queue[i]
        PROVE  w \in ToSet(queue')
    <3> DEFINE j == i - n
    <3>1. j \in 1 .. (Len(queue) - n) /\ w = queue[n + j]
      BY <2>3, <2>5
    <3> HIDE DEF j
    <3> QED
      BY <3>1, <2>2
  <2> QED
    BY <2>1, <2>2, <2>4, <2>5
<1>7. Waiting' = Waiting
  <2>1. \A w : w \in Waiting <=> \E i \in 1 .. Len(queue) : w = queue[i]
    BY <1>2, <1>3, SeqRows DEF Waiting, Unwritten
  <2>2. \A w : w \in Waiting' <=> w \in ToSet(queue') \/ \E i \in 1 .. n : w = queue[i]
    BY <1>2, <1>4 DEF Waiting, Unwritten
  <2>3. \A i : i \in 1 .. Len(queue) <=> i \in 1 .. n \/ i \in n + 1 .. Len(queue)
    BY <1>3
  <2>4. \A w : w \in Waiting' <=> w \in Waiting
    BY <2>1, <2>2, <2>3, <1>6
  <2> QED
    BY <2>4
<1>8. PresenceTypes'
  BY <1>2, <1>4, <1>5 DEF PresenceInv, WriterInv, PresenceTypes
<1>9. Stages'
  BY <1>2 DEF Stages
<1>10. InOrder'
  <2>1. \A i, j \in 1 .. Len(queue) : i < j => Before(queue[i], queue[j])
    BY <1>3 DEF PresenceInv, WriterInv, InOrder
  <2>2. \A i, j \in DOMAIN batch' : i < j => Before(batch'[i], batch'[j])
    BY <2>1, <1>3, <1>4
  <2>3. \A i, j \in DOMAIN queue' : i < j => Before(queue'[i], queue'[j])
    <3> TAKE i, j \in DOMAIN queue'
    <3>1. i \in 1 .. (Len(queue) - n) /\ j \in 1 .. (Len(queue) - n)
      BY <1>5
    <3>2. /\ n + i \in 1 .. Len(queue) /\ n + j \in 1 .. Len(queue)
          /\ i < j => n + i < n + j
      BY <3>1, <1>3
    <3>3. queue'[i] = queue[n + i] /\ queue'[j] = queue[n + j]
      BY <3>1, <1>5
    <3>4. i < j => Before(queue[n + i], queue[n + j])
      BY <3>2, <2>1
    <3> QED
      BY <3>3, <3>4
  <2>4. \A v \in ToSet(batch'), w \in ToSet(queue') : Before(v, w)
    <3> TAKE v \in ToSet(batch'), w \in ToSet(queue')
    <3>1. PICK i \in 1 .. n : v = queue[i]
      BY <1>6
    <3>2. PICK j \in n + 1 .. Len(queue) : w = queue[j]
      BY <1>6
    <3>3. i \in 1 .. Len(queue) /\ j \in 1 .. Len(queue) /\ i < j
      BY <1>3
    <3> QED
      BY <3>1, <3>2, <3>3, <2>1
  <2> QED
    BY <2>2, <2>3, <2>4 DEF InOrder, Before
<1>11. RowsGenuine'
  <2>1. \A w \in ToSet(queue') \cup ToSet(batch') : w \in ToSet(queue)
    BY <1>3, <1>6, SeqRows
  <2> QED
    BY <2>1, <1>2 DEF PresenceInv, WriterInv, RowsGenuine, Genuine
<1>12. ASSUME NEW p \in Players \ excused'
       PROVE  PresenceOf(p)' /\ (tabJoins => LogOf(p))'
  <2>1. PresenceOf(p) /\ (tabJoins => LogOf(p)) /\ p \notin Overtaken(batch)'
    BY <1>2, <1>12 DEF PresenceInv, WriterInv
  <2>2. Orderly(p)'
    <3>1. ASSUME NEW w \in ToSet(batch'), NEW v \in ToSet(batch'),
                 w.kind = "event" => w.player = p, Rank(w) < Rank(v)
          PROVE  w.at <= v.at
      <4>1. ~(v.at < w.at)
        BY <2>1, <3>1 DEF Overtaken
      <4>2. v.at \in Nat /\ w.at \in Nat
        BY <1>4, SeqRows, RowFacts
      <4> QED
        BY <4>1, <4>2
    <3> QED
      BY <3>1 DEF Orderly
  <2>3. Pend(p)' = Pend(p)
    BY <1>7 DEF Pend
  <2>4. PresenceOf(p)'
    BY <1>2, <2>1, <2>2, <2>3 DEF PresenceOf
  <2>5. /\ Unlogged(p)' = Unlogged(p) /\ OpenJoin(p)' = OpenJoin(p)
        /\ DoubleJoin(p)' = DoubleJoin(p) /\ LoggedPresent(p)' = LoggedPresent(p)
    BY <1>2, <2>3 DEF Unlogged, OpenJoin, DoubleJoin, LoggedPresent
  <2>6. tabJoins => LogOf(p)'
    BY <1>2, <2>1, <2>5 DEF LogOf
  <2> QED
    BY <1>2, <2>4, <2>6
<1> QED
  BY <1>8, <1>9, <1>10, <1>11, <1>12 DEF PresenceInv, WriterInv

-----------------------------------------------------------------------------
(* What a statement leaves of the batch.                                   *)

LEMMA Writing ==
  ASSUME PresenceInv, NEW rs \in SUBSET Restarts, NEW os \in SUBSET Onlines, Continue(rs, os),
         rs # {} => os = Onlines,
         UNCHANGED <<tabJoins, clock, tab, snapshot, queue>>,
         log' \subseteq LogRow, presence' \in [Players -> [present : BOOLEAN, at : Nat]]
  PROVE  /\ PresenceTypes' /\ Stages' /\ InOrder' /\ RowsGenuine'
         /\ stage' \in {"idle", "restart", "mark"}
         /\ \A w : w \in Waiting' <=> w \in ToSet(queue) \/ \E i \in rs \cup os : w = batch[i]
         /\ \A p : Orderly(p) => Orderly(p)'
<1>1. \/ stage' = "restart" /\ todo' = rs /\ batch' = batch /\ rs # {} /\ os = Onlines
      \/ stage' = "mark" /\ todo' = os /\ batch' = batch /\ rs = {} /\ os # {}
      \/ stage' = "idle" /\ todo' = {} /\ batch' = <<>> /\ rs = {} /\ os = {}
  BY DEF Continue, Done
<1>2. \/ batch' = batch
      \/ batch' = <<>> /\ ToSet(batch') = {} /\ DOMAIN batch' = {} /\ batch' \in Seq(WriteRow)
  <2>1. ToSet(<<>>) = {} /\ DOMAIN <<>> = {} /\ <<>> \in Seq(WriteRow)
    BY EmptySeq DEF ToSet
  <2> QED
    BY <1>1, <2>1
<1>3. Stages' /\ stage' \in {"idle", "restart", "mark"}
  BY <1>1 DEF Stages, Restarts, Onlines
<1>4. PresenceTypes'
  BY <1>1, <1>2 DEF PresenceInv, WriterInv, PresenceTypes
<1>5. InOrder' /\ RowsGenuine' /\ \A p : Orderly(p) => Orderly(p)'
  <2>1. CASE batch' = batch
    BY <2>1 DEF PresenceInv, WriterInv, InOrder, RowsGenuine, Genuine, Orderly, Before
  <2>2. CASE ToSet(batch') = {} /\ DOMAIN batch' = {}
    BY <2>2 DEF PresenceInv, WriterInv, InOrder, RowsGenuine, Genuine, Orderly, Before
  <2> QED
    BY <1>2, <2>1, <2>2
<1>6. \A w : w \in Waiting' <=> w \in ToSet(queue) \/ \E i \in rs \cup os : w = batch[i]
  <2>1. CASE stage' = "restart"
    <3>1. batch' = batch /\ Unwritten' = rs \cup os
      BY <2>1, <1>1 DEF Unwritten, Onlines
    <3> QED
      BY <3>1 DEF Waiting
  <2>2. CASE stage' = "mark"
    <3>1. batch' = batch /\ Unwritten' = rs \cup os
      BY <2>2, <1>1 DEF Unwritten
    <3> QED
      BY <3>1 DEF Waiting
  <2>3. CASE stage' = "idle"
    <3>1. Unwritten' = {} /\ rs \cup os = {}
      BY <2>3, <1>1 DEF Unwritten
    <3> QED
      BY <3>1 DEF Waiting
  <2> QED
    BY <1>3, <2>1, <2>2, <2>3
<1> QED
  BY <1>3, <1>4, <1>5, <1>6

\* .. and when it leaves all of it.
LEMMA Staying ==
  ASSUME PresenceInv, NEW st \in {"presence", "clear", "rejoin", "leave", "retire"}, stage' = st,
         UNCHANGED <<tabJoins, clock, tab, snapshot, queue, batch, todo>>,
         \/ stage = "log" /\ st = "presence"
         \/ stage = "restart" /\ st = "clear"
         \/ stage \in {"mark", "rejoin", "leave"} /\ st \in {"rejoin", "leave", "retire"},
         log' \subseteq LogRow, presence' \in [Players -> [present : BOOLEAN, at : Nat]]
  PROVE  /\ PresenceTypes' /\ Stages' /\ InOrder' /\ RowsGenuine'
         /\ Waiting' = Waiting /\ Due' = Due
         /\ \A p : Orderly(p) => Orderly(p)'
<1>1. PresenceTypes' /\ Stages'
  BY DEF PresenceInv, WriterInv, PresenceTypes, Stages, Restarts, Onlines
<1>2. InOrder' /\ RowsGenuine' /\ \A p : Orderly(p) => Orderly(p)'
  BY DEF PresenceInv, WriterInv, InOrder, RowsGenuine, Genuine, Orderly, Before
<1>3. Waiting' = Waiting /\ Due' = Due
  BY DEF Waiting, Unwritten, Onlines, Due
<1> QED
  BY <1>1, <1>2, <1>3

-----------------------------------------------------------------------------
(* Its events: the log rows, then the presence.                            *)

\* What is on its way when the events have been written.
EventsGone == ToSet(queue) \cup {batch[i] : i \in Restarts \cup Onlines}

LEMMA MarksFirst ==
  ASSUME WriterInv, stage \in {"log", "presence"}, NEW p, Orderly(p)
  PROVE  /\ \A w : w \in Pend(p) <=> w \in Marks(batch, p) \/ (w \in EventsGone /\ Bears(w, p))
         /\ \A m \in Marks(batch, p) :
              /\ m \in ToSet(batch) /\ m \in Pend(p) /\ m.kind = "event"
              /\ m.source = "t" /\ m.player = p /\ m.type \in {"j", "l", "s", "p"}
              /\ m.at \in Nat /\ m.at <= clock /\ Genuine(m)
              /\ Shows(m, p) <=> PresentAfter(m.type)
         /\ \A m \in Marks(batch, p), w \in EventsGone :
              m.at <= w.at /\ (w.kind = "event" => m.at < w.at)
<1>1. /\ Waiting = ToSet(queue) \cup ToSet(batch)
      /\ \A w : w \in ToSet(batch) <=> \E i \in DOMAIN batch : w = batch[i]
  <2>1. \A w : w \in ToSet(batch) <=> \E i \in DOMAIN batch : w = batch[i]
    BY SeqRows DEF WriterInv, PresenceTypes
  <2> QED
    BY <2>1 DEF Waiting, Unwritten
<1>2. \A i \in DOMAIN batch : /\ batch[i] \in ToSet(batch) /\ batch[i] \in WriteRow
                              /\ i \in Restarts <=> batch[i].kind = "restart"
                              /\ i \in Onlines <=> batch[i].kind = "online"
  <2>1. \A i \in DOMAIN batch : batch[i] \in ToSet(batch) /\ batch[i] \in WriteRow
    BY SeqRows DEF WriterInv, PresenceTypes
  <2> QED
    BY <2>1 DEF Restarts, Onlines, IsRestart, IsOnline
<1>3. \A w : w \in EventsGone <=> \/ w \in ToSet(queue)
                                  \/ w \in ToSet(batch) /\ w.kind \in {"restart", "online"}
  <2>1. \A i \in Restarts \cup Onlines : i \in DOMAIN batch
    BY DEF Restarts, Onlines
  <2>2. ASSUME NEW w
        PROVE  (\E i \in Restarts \cup Onlines : w = batch[i])
                 <=> w \in ToSet(batch) /\ w.kind \in {"restart", "online"}
    BY <1>1, <1>2, <2>1
  <2>3. \A w : w \in EventsGone <=> \/ w \in ToSet(queue)
                                    \/ \E i \in Restarts \cup Onlines : w = batch[i]
    BY DEF EventsGone
  <2> QED
    BY <2>2, <2>3
<1>4. \A w : w \in Pend(p) <=> w \in Marks(batch, p) \/ (w \in EventsGone /\ Bears(w, p))
  <2> TAKE w
  <2>1. w \in ToSet(batch) => w.kind \in {"event", "restart", "online"}
    BY HeldFacts, RowFacts
  <2>2. w \in Marks(batch, p) <=> w \in ToSet(batch) /\ w.kind = "event" /\ Bears(w, p)
    BY DEF Marks, Bears
  <2>3. w \in Pend(p) <=> (w \in ToSet(queue) \/ w \in ToSet(batch)) /\ Bears(w, p)
    BY <1>1 DEF Pend
  <2> QED
    BY <1>3, <2>1, <2>2, <2>3
<1>5. ASSUME NEW m \in Marks(batch, p)
      PROVE  /\ m \in ToSet(batch) /\ m \in Pend(p) /\ m.kind = "event"
             /\ m.source = "t" /\ m.player = p /\ m.type \in {"j", "l", "s", "p"}
             /\ m.at \in Nat /\ m.at <= clock /\ Genuine(m)
             /\ Shows(m, p) <=> PresentAfter(m.type)
  <2>1. m \in ToSet(batch) /\ m.kind = "event" /\ m.source = "t" /\ m.player = p
    BY DEF Marks
  <2>2. m \in WriteRow /\ Genuine(m) /\ m.at \in Nat /\ m.at <= clock
    BY <2>1, HeldFacts
  <2>3. m.type \in {"j", "l", "s", "p"}
    BY <2>1, <2>2, RowFacts
  <2> QED
    BY <1>4, <2>1, <2>2, <2>3 DEF Shows
<1>6. ASSUME NEW m \in Marks(batch, p), NEW w \in EventsGone
      PROVE  m.at <= w.at /\ (w.kind = "event" => m.at < w.at)
  <2>1. CASE w \in ToSet(queue)
    BY <1>5, <2>1, BatchFirst
  <2>2. CASE w \in ToSet(batch) /\ w.kind \in {"restart", "online"}
    <3>1. Rank(m) < Rank(w)
      BY <1>5, <2>2 DEF Rank
    <3> QED
      BY <1>5, <2>2, <3>1 DEF Orderly
  <2> QED
    BY <1>3, <2>1, <2>2
<1> QED
  BY <1>4, <1>5, <1>6

\* A batch of markers only: the write returns before the presence.
LEMMA NoLogRowsKeeps ==
  ASSUME PresenceInv, WriteEvents, Logged(batch) = {}
  PROVE  PresenceInv'
<1>1. /\ stage = "log" /\ log' = log /\ presence' = presence
      /\ UNCHANGED <<tabJoins, clock, tab, snapshot, queue>>
      /\ Continue(Restarts, Onlines)
      /\ excused' = excused \cup {p \in Players : Marks(batch, p) # {}}
  BY DEF WriteEvents, gameVars
<1>2. /\ PresenceTypes' /\ Stages' /\ InOrder' /\ RowsGenuine'
      /\ stage' \in {"idle", "restart", "mark"}
      /\ \A w : w \in Waiting' <=> w \in EventsGone
      /\ \A p : Orderly(p) => Orderly(p)'
  <2>1. log \subseteq LogRow /\ presence \in [Players -> [present : BOOLEAN, at : Nat]]
    BY DEF PresenceInv, WriterInv, PresenceTypes
  <2>2. Restarts \in SUBSET Restarts /\ Onlines \in SUBSET Onlines
    OBVIOUS
  <2>3. /\ PresenceTypes' /\ Stages' /\ InOrder' /\ RowsGenuine'
        /\ stage' \in {"idle", "restart", "mark"}
        /\ \A w : w \in Waiting' <=> \/ w \in ToSet(queue)
                                     \/ \E i \in Restarts \cup Onlines : w = batch[i]
        /\ \A p : Orderly(p) => Orderly(p)'
    BY <1>1, <2>1, <2>2, Writing
  <2>4. \A w : w \in EventsGone <=> \/ w \in ToSet(queue)
                                    \/ \E i \in Restarts \cup Onlines : w = batch[i]
    BY DEF EventsGone
  <2> QED
    BY <2>3, <2>4
<1>3. ASSUME NEW p \in Players \ excused'
      PROVE  PresenceOf(p)' /\ (tabJoins => LogOf(p))'
  <2>1. PresenceOf(p) /\ (tabJoins => LogOf(p)) /\ Marks(batch, p) = {} /\ WriterInv
    BY <1>1, <1>3 DEF PresenceInv, WriterInv
  <2>2. Pend(p)' = Pend(p)
    <3>1. \A w : w \in Pend(p)' <=> w \in EventsGone /\ Bears(w, p)
      BY <1>2 DEF Pend, Bears
    <3>2. \A w : w \in Pend(p)' <=> w \in Pend(p)
      BY <1>1, <2>1, <3>1, MarksFirst DEF PresenceOf
    <3> QED
      BY <3>2 DEF Pend
  <2>3. PresenceOf(p)'
    BY <1>1, <1>2, <2>1, <2>2 DEF PresenceOf
  <2>4. Unlogged(p)' \subseteq Unlogged(p)
    BY <1>1, <2>2 DEF Unlogged
  <2>5. /\ OpenJoin(p)' = OpenJoin(p) /\ DoubleJoin(p)' = DoubleJoin(p)
        /\ LoggedPresent(p)' = LoggedPresent(p)
    BY <1>1, <1>2 DEF OpenJoin, DoubleJoin, LoggedPresent
  <2>6. tabJoins => LogOf(p)'
    BY <1>1, <2>1, <2>4, <2>5 DEF LogOf
  <2> QED
    BY <1>1, <2>3, <2>6
<1> QED
  BY <1>2, <1>3 DEF PresenceInv, WriterInv

LEMMA LoggedTyped == WriterInv => Logged(batch) \subseteq LogRow
<1> SUFFICES ASSUME WriterInv, NEW e \in ToSet(batch), e.kind = "event", e.type \notin {"s", "p"}
             PROVE  Record(e.player, e.type, e.source, e.at) \in LogRow
  BY DEF Logged
<1> QED
  BY HeldFacts, RowFacts DEF LogRow, Record

\* The rows that the events add to the log.
LEMMA LoggedFacts ==
  ASSUME WriterInv, tabJoins, NEW p, Orderly(p), stage = "log"
  PROVE  /\ \A r \in Logged(batch) : r.player = p =>
              \E m \in Marks(batch, p) : m.type = r.type /\ m.at = r.at /\ r.type \in {"j", "l"}
         /\ \A m \in Marks(batch, p) : m.type \in {"j", "l"} =>
              \E r \in Logged(batch) : r.player = p /\ r.type = m.type /\ r.at = m.at
         /\ \A m \in Marks(batch, p) : m.type # "p"
<1>1. ASSUME NEW e \in ToSet(batch), e.kind = "event", e.type \notin {"s", "p"}
      PROVE  /\ Record(e.player, e.type, e.source, e.at) \in LogRow
             /\ e.source = "t" /\ e.type \in {"j", "l"}
  BY <1>1, HeldFacts, RowFacts DEF LogRow, Record, Genuine
<1>3. ASSUME NEW r \in Logged(batch), r.player = p
      PROVE  \E m \in Marks(batch, p) : m.type = r.type /\ m.at = r.at /\ r.type \in {"j", "l"}
  <2>1. PICK e \in ToSet(batch) : /\ e.kind = "event" /\ e.type \notin {"s", "p"}
                                  /\ r = Record(e.player, e.type, e.source, e.at)
    BY DEF Logged
  <2> QED
    BY <1>1, <1>3, <2>1 DEF Marks, Record
<1>4. ASSUME NEW m \in Marks(batch, p)
      PROVE  /\ m.type # "p"
             /\ m.type \in {"j", "l"} =>
                  \E r \in Logged(batch) : r.player = p /\ r.type = m.type /\ r.at = m.at
  <2>1. m \in ToSet(batch) /\ m.kind = "event" /\ m.player = p /\ Genuine(m)
    BY MarksFirst
  <2>2. m.type \in {"j", "l"} => Record(m.player, m.type, m.source, m.at) \in Logged(batch)
    BY <2>1 DEF Logged
  <2> QED
    BY <2>1, <2>2 DEF Genuine, Record
<1> QED
  BY <1>3, <1>4

\* Before an event that shows p comes a row that does not, if p is shown so far.
LEMMA LeaveBefore ==
  ASSUME WriterInv, tabJoins, NEW p \in Players, PresenceOf(p), stage = "log",
         NEW m \in Marks(batch, p), Shows(m, p),
         presence[p].present \/ Earlier(Pend(p), m) # {}
  PROVE  \E u \in Marks(batch, p) : /\ u.type = "l" /\ u.at < m.at
                                    /\ \A v \in Earlier(Pend(p), m) : v.at <= u.at
<1>1. m \in Pend(p) /\ m.kind = "event" /\ Orderly(p) /\ m.at \in Nat
  BY MarksFirst DEF PresenceOf
<1>2. PICK u \in Earlier(Pend(p), m) : /\ ~Shows(u, p)
                                       /\ \A v \in Earlier(Pend(p), m) : v.at <= u.at
  BY <1>1 DEF PresenceOf, Chain
<1>3. u \in Pend(p) /\ u.at < m.at /\ u.at \in Nat
  BY <1>2, PendFacts DEF Earlier
<1>4. u \in Marks(batch, p)
  BY <1>1, <1>3, MarksFirst
<1>5. u.type = "l"
  BY <1>1, <1>2, <1>4, MarksFirst, LoggedFacts DEF PresentAfter
<1> QED
  BY <1>2, <1>3, <1>4, <1>5

LEMMA Upserted ==
  ASSUME NEW p, presence[p] \in [present : BOOLEAN, at : Nat], NEW b \in BOOLEAN, NEW time \in Nat
  PROVE  Upsert(p, b, time) \in [present : BOOLEAN, at : Nat]
BY DEF Upsert

LEMMA LogRowsKeeps ==
  ASSUME PresenceInv, WriteEvents, Logged(batch) # {}
  PROVE  PresenceInv'
<1>1. /\ stage = "log" /\ stage' = "presence" /\ log' = log \cup Logged(batch)
      /\ UNCHANGED <<tabJoins, clock, tab, snapshot, queue, batch, todo, presence, excused>>
  BY DEF WriteEvents, gameVars
<1>2. /\ PresenceTypes' /\ Stages' /\ InOrder' /\ RowsGenuine'
      /\ Waiting' = Waiting /\ Due' = Due
      /\ \A p : Orderly(p) => Orderly(p)'
  <2>1. log' \subseteq LogRow /\ presence' \in [Players -> [present : BOOLEAN, at : Nat]]
    BY <1>1, LoggedTyped DEF PresenceInv, PresenceTypes, WriterInv
  <2> QED
    BY <1>1, <2>1, Staying
<1>3. ASSUME NEW p \in Players \ excused'
      PROVE  PresenceOf(p)' /\ (tabJoins => LogOf(p))'
  <2>1. PresenceOf(p) /\ (tabJoins => LogOf(p)) /\ WriterInv /\ Orderly(p)
    BY <1>1, <1>3 DEF PresenceInv, WriterInv, PresenceOf
  <2>2. Pend(p)' = Pend(p)
    BY <1>2 DEF Pend
  <2>3. PresenceOf(p)'
    BY <1>1, <1>2, <2>1, <2>2 DEF PresenceOf
  <2>4. ASSUME tabJoins
        PROVE  LogOf(p)'
    <3>1. LogOf(p) /\ \A r \in log : r.at \in Nat
      BY <2>1, <2>4 DEF WriterInv, PresenceTypes, LogRow
    <3>2. ASSUME NEW r \in log', r.player = p, r \notin log
          PROVE  \E m \in Marks(batch, p) : m.type = r.type /\ m.at = r.at /\ r.type \in {"j", "l"}
      BY <1>1, <2>1, <2>4, <3>2, LoggedFacts
    <3>3. ASSUME NEW m \in Marks(batch, p), NEW r \in log, r.player = p
          PROVE  r.at <= m.at
      BY <1>1, <2>1, <3>1, <3>3, MarksFirst DEF LogOf, Unlogged
    \* every row is before those that are on their way
    <3>4. ASSUME NEW r \in log', r.player = p
          PROVE  /\ r.at \in Nat /\ r.at <= clock
                 /\ \A w \in Unlogged(p)' : r.at <= w.at
      <4>1. \A w \in Unlogged(p)' : w \in Pend(p) /\ w \in EventsGone
        BY <1>1, <2>1, <2>2, MarksFirst DEF Unlogged
      <4>2. CASE r \in log
        BY <1>1, <4>1, <4>2, <3>1, <3>4 DEF LogOf, Unlogged
      <4>3. CASE r \notin log
        <5>1. PICK m \in Marks(batch, p) : m.at = r.at
          BY <3>2, <3>4, <4>3
        <5> QED
          BY <1>1, <2>1, <4>1, <5>1, MarksFirst
      <4> QED
        BY <4>2, <4>3
    <3>5. ASSUME NEW m \in Marks(batch, p), m.type = "l"
          PROVE  \E t \in log' : t.player = p /\ t.type = "l" /\ t.at = m.at
      BY <1>1, <2>1, <2>4, <3>5, LoggedFacts
    \* a join that is new has a leave before it, unless the player was not there
    <3>6. ~DoubleJoin(p)'
      <4> SUFFICES ASSUME NEW r \in log', NEW s \in log',
                          r.player = p, s.player = p, r.type = "j", s.type = "j", r.at < s.at
                   PROVE  \E t \in log' : /\ t.player = p /\ t.type = "l"
                                          /\ r.at <= t.at /\ t.at <= s.at
        BY DEF DoubleJoin
      <4>1. CASE s \in log
        <5>1. r \in log
          BY <3>2, <3>3, <3>4, <4>1
        <5> QED
          BY <1>1, <3>1, <4>1, <5>1 DEF LogOf, DoubleJoin
      <4>2. CASE s \notin log
        <5>1. PICK m \in Marks(batch, p) : m.type = "j" /\ m.at = s.at
          BY <3>2, <4>2
        <5>2. Shows(m, p) /\ m \in Pend(p) /\ m.at \in Nat
          BY <1>1, <2>1, <5>1, MarksFirst DEF PresentAfter
        <5>3. CASE r \in log /\ ~OpenJoin(p)
          <6>1. PICK t \in log : t.player = p /\ t.type = "l" /\ ~(t.at < r.at)
            BY <5>3 DEF OpenJoin
          <6> QED
            BY <1>1, <3>1, <3>3, <5>1, <5>3, <6>1
        <5>4. CASE r \in log /\ OpenJoin(p)
          <6>1. presence[p].present
            BY <1>1, <3>1, <5>4 DEF LogOf, LoggedPresent
          <6>2. PICK u \in Marks(batch, p) : u.type = "l" /\ u.at < m.at
            BY <1>1, <2>1, <2>4, <5>2, <6>1, LeaveBefore
          <6>3. PICK t \in log' : t.player = p /\ t.type = "l" /\ t.at = u.at
            BY <3>5, <6>2
          <6>4. r.at <= u.at
            BY <3>3, <5>4
          <6>5. u.at \in Nat
            BY <1>1, <2>1, MarksFirst
          <6> QED
            BY <5>1, <5>2, <6>2, <6>3, <6>4, <6>5
        <5>5. CASE r \notin log
          <6>1. PICK x \in Marks(batch, p) : x.type = "j" /\ x.at = r.at
            BY <3>2, <5>5
          <6>2. x \in Earlier(Pend(p), m)
            BY <1>1, <2>1, <5>1, <6>1, MarksFirst DEF Earlier
          <6>3. PICK u \in Marks(batch, p) : u.type = "l" /\ u.at < m.at /\ x.at <= u.at
            BY <1>1, <2>1, <2>4, <5>2, <6>2, LeaveBefore
          <6>4. PICK t \in log' : t.player = p /\ t.type = "l" /\ t.at = u.at
            BY <3>5, <6>3
          <6>5. u.at \in Nat
            BY <1>1, <2>1, MarksFirst
          <6> QED
            BY <5>1, <5>2, <6>1, <6>3, <6>4, <6>5
        <5> QED
          BY <5>3, <5>4, <5>5
      <4> QED
        BY <4>1, <4>2
    <3>7. ASSUME OpenJoin(p)'
          PROVE  LoggedPresent(p)'
      <4>1. PICK r \in log' : /\ r.player = p /\ r.type = "j"
                              /\ \A t \in log' : t.player = p /\ t.type = "l" => t.at < r.at
        BY <3>7 DEF OpenJoin
      <4>2. CASE Marks(batch, p) = {}
        <5>1. OpenJoin(p)
          BY <1>1, <3>2, <4>1, <4>2 DEF OpenJoin
        <5> QED
          BY <1>1, <3>1, <4>2, <5>1 DEF LogOf, LoggedPresent
      <4>3. CASE Marks(batch, p) # {}
        <5>1. PICK m \in Marks(batch, p) : \A v \in Marks(batch, p) : v.at <= m.at
          <6>1. clock \in Nat
            BY LogWriterAssumption DEF PresenceInv, WriterInv, PresenceTypes, LogWriterAssumption
          <6>2. \A v \in Marks(batch, p) : v.at \in Nat /\ v.at <= clock
            BY <1>1, <2>1, MarksFirst
          <6> QED
            BY <4>3, <6>1, <6>2, LatestWorks
        <5>2. r.at <= m.at
          <6>1. CASE r \in log
            BY <3>3, <4>1, <6>1
          <6>2. CASE r \notin log
            BY <3>2, <4>1, <5>1, <6>2
          <6> QED
            BY <6>1, <6>2
        <5>3. m.type # "l"
          <6> SUFFICES ASSUME m.type = "l"
                       PROVE  FALSE
            OBVIOUS
          <6>1. PICK t \in log' : t.player = p /\ t.type = "l" /\ t.at = m.at
            BY <3>5
          <6> QED
            BY <3>4, <4>1, <5>2, <6>1
        <5>4. Shows(m, p)
          BY <1>1, <2>1, <2>4, <5>3, MarksFirst, LoggedFacts DEF PresentAfter
        <5> QED
          BY <1>1, <4>3, <5>1, <5>4 DEF LoggedPresent
      <4> QED
        BY <4>2, <4>3
    <3> QED
      BY <1>1, <3>4, <3>6, <3>7 DEF LogOf
  <2> QED
    BY <1>1, <2>3, <2>4
<1> QED
  BY <1>2, <1>3 DEF PresenceInv, WriterInv

LEMMA WriteEventsKeeps ==
  ASSUME PresenceInv, WriteEvents
  PROVE  PresenceInv'
BY NoLogRowsKeeps, LogRowsKeeps

LEMMA WritePresenceKeeps ==
  ASSUME PresenceInv, WritePresence
  PROVE  PresenceInv'
<1>1. /\ stage = "presence" /\ log' = log
      /\ UNCHANGED <<tabJoins, clock, tab, snapshot, queue, excused>>
      /\ Continue(Restarts, Onlines)
  BY DEF WritePresence, gameVars
<1>2. /\ WriterInv /\ log \subseteq LogRow
      /\ presence \in [Players -> [present : BOOLEAN, at : Nat]]
      /\ clock \in Nat
  BY LogWriterAssumption DEF PresenceInv, WriterInv, PresenceTypes, LogWriterAssumption
<1>3. \A p \in Players : presence'[p] =
        IF Marks(batch, p) = {} THEN presence[p]
        ELSE Upsert(p, PresentAfter(Latest(Marks(batch, p)).type), Latest(Marks(batch, p)).at)
  BY DEF WritePresence
<1>4. \A p \in Players : \A m \in Marks(batch, p) : m.at \in Nat /\ m.at <= clock
  BY <1>2, HeldFacts DEF Marks
<1>5. \A p \in Players : Marks(batch, p) # {} =>
        /\ Latest(Marks(batch, p)) \in Marks(batch, p)
        /\ \A v \in Marks(batch, p) : v.at <= Latest(Marks(batch, p)).at
  BY <1>2, <1>4, LatestWorks
<1>6. presence' \in [Players -> [present : BOOLEAN, at : Nat]]
  <2>1. ASSUME NEW p \in Players
        PROVE  presence'[p] \in [present : BOOLEAN, at : Nat]
    <3>1. presence[p] \in [present : BOOLEAN, at : Nat]
      BY <1>2
    <3>2. CASE Marks(batch, p) = {}
      BY <1>3, <3>1, <3>2
    <3>3. CASE Marks(batch, p) # {}
      <4>1. PICK last \in Marks(batch, p) : last = Latest(Marks(batch, p))
        BY <1>5, <3>3
      <4>2. presence'[p] = Upsert(p, PresentAfter(last.type), last.at) /\ last.at \in Nat
        BY <1>3, <1>4, <3>3, <4>1
      <4>3. PICK b \in BOOLEAN, time \in Nat : b = PresentAfter(last.type) /\ time = last.at
        BY <4>2 DEF PresentAfter
      <4>4. presence'[p] = Upsert(p, b, time)
        BY <4>2, <4>3
      <4>5. Upsert(p, b, time) \in [present : BOOLEAN, at : Nat]
        BY <3>1, Upserted
      <4> QED
        BY <4>4, <4>5
    <3> QED
      BY <3>2, <3>3
  <2>2. presence' = [p \in Players |-> presence'[p]]
    BY DEF WritePresence
  <2> QED
    BY <2>1, <2>2
<1>7. /\ PresenceTypes' /\ Stages' /\ InOrder' /\ RowsGenuine'
      /\ stage' \in {"idle", "restart", "mark"}
      /\ \A w : w \in Waiting' <=> w \in EventsGone
      /\ \A p : Orderly(p) => Orderly(p)'
  <2>1. Restarts \in SUBSET Restarts /\ Onlines \in SUBSET Onlines
    OBVIOUS
  <2>2. /\ PresenceTypes' /\ Stages' /\ InOrder' /\ RowsGenuine'
        /\ stage' \in {"idle", "restart", "mark"}
        /\ \A w : w \in Waiting' <=> \/ w \in ToSet(queue)
                                     \/ \E i \in Restarts \cup Onlines : w = batch[i]
        /\ \A p : Orderly(p) => Orderly(p)'
    BY <1>1, <1>2, <1>6, <2>1, Writing
  <2>3. \A w : w \in EventsGone <=> \/ w \in ToSet(queue)
                                    \/ \E i \in Restarts \cup Onlines : w = batch[i]
    BY DEF EventsGone
  <2> QED
    BY <2>2, <2>3
<1>8. ASSUME NEW p \in Players \ excused'
      PROVE  PresenceOf(p)' /\ (tabJoins => LogOf(p))'
  <2>1. PresenceOf(p) /\ (tabJoins => LogOf(p)) /\ Orderly(p)
    BY <1>1, <1>8 DEF PresenceInv, WriterInv, PresenceOf
  <2>2. \A w : w \in Pend(p)' <=> w \in EventsGone /\ Bears(w, p)
    BY <1>7 DEF Pend, Bears
  <2>3. \A w : w \in Pend(p) <=> w \in Marks(batch, p) \/ w \in Pend(p)'
    BY <1>1, <1>2, <2>1, <2>2, MarksFirst
  <2>4. CASE Marks(batch, p) = {}
    <3>1. Pend(p)' = Pend(p)
      BY <2>3, <2>4 DEF Pend
    <3>2. presence'[p] = presence[p]
      BY <1>3, <2>4
    <3>3. PresenceOf(p)'
      BY <1>1, <1>7, <2>1, <3>1, <3>2 DEF PresenceOf
    <3>4. /\ Unlogged(p)' \subseteq Unlogged(p)
          /\ OpenJoin(p)' = OpenJoin(p) /\ DoubleJoin(p)' = DoubleJoin(p)
          /\ LoggedPresent(p)' = LoggedPresent(p)
      BY <1>1, <1>7, <2>4, <3>1, <3>2 DEF Unlogged, OpenJoin, DoubleJoin, LoggedPresent
    <3>5. tabJoins => LogOf(p)'
      BY <1>1, <2>1, <3>4 DEF LogOf
    <3> QED
      BY <1>1, <3>3, <3>5
  <2>5. CASE Marks(batch, p) # {}
    <3>1. PICK last : last = Latest(Marks(batch, p))
      OBVIOUS
    <3>2. /\ last \in Marks(batch, p) /\ \A v \in Marks(batch, p) : v.at <= last.at
          /\ last \in Pend(p) /\ last.kind = "event" /\ last.at \in Nat /\ last.at <= clock
          /\ Shows(last, p) <=> PresentAfter(last.type)
          /\ ~IsOnline(last)
      BY <1>1, <1>2, <1>5, <2>1, <2>5, <3>1, MarksFirst DEF IsOnline
    <3>3. presence'[p].at = last.at /\ (presence'[p].present <=> Shows(last, p))
      <4>1. presence'[p] = [present |-> PresentAfter(last.type), at |-> last.at]
        BY <1>3, <2>1, <2>5, <3>1, <3>2 DEF Upsert, PresenceOf
      <4> QED
        BY <3>2, <4>1
    <3>4. \A w \in Pend(p)' : /\ last.at <= w.at /\ (w.kind = "event" => last.at < w.at)
                              /\ w \in EventsGone
      BY <1>1, <1>2, <2>1, <2>2, <3>2, MarksFirst
    <3>5. Chain(Pend(p)', presence'[p].present, p \in tab', p)
      <4>1. PICK P, Q, s, s1, t : /\ P = Pend(p) /\ Q = Pend(p)'
                                  /\ s = presence[p].present /\ s1 = presence'[p].present
                                  /\ t = (p \in tab)
        OBVIOUS
      <4>2. Q \in SUBSET P /\ last \in P /\ s \in BOOLEAN /\ s1 \in BOOLEAN /\ t \in BOOLEAN
        BY <1>2, <1>6, <2>3, <3>2, <4>1
      <4>3. /\ \A v \in P : v.at \in Nat
            /\ \A u, v, e \in P : e.kind = "event" /\ u.at = v.at /\ u.at < e.at => u = v
        BY <1>2, <4>1, PendFacts
      <4>4. /\ \A v \in P \ Q : v.at <= last.at
            /\ \A v \in Q : last.at <= v.at /\ (v.kind = "event" => last.at < v.at)
        BY <2>3, <3>2, <3>4, <4>1
      <4>5. Chain(P, s, t, p) /\ (s1 <=> Shows(last, p))
        BY <2>1, <3>3, <4>1 DEF PresenceOf
      <4>6. Chain(Q, s1, t, p)
        BY <4>2, <4>3, <4>4, <4>5, ChainWritten
      <4> QED
        BY <1>1, <4>1, <4>6
    <3>6. PresenceOf(p)'
      BY <1>1, <1>7, <2>1, <3>2, <3>3, <3>4, <3>5 DEF PresenceOf
    <3>7. Unlogged(p)' \subseteq Unlogged(p)
      <4>1. ASSUME NEW w \in Pend(p)'
            PROVE  w \in Pend(p) /\ w \notin Marks(batch, p)
        BY <1>1, <1>2, <2>1, <2>3, <3>4, MarksFirst
      <4> QED
        BY <4>1 DEF Unlogged
    <3>8. LoggedPresent(p) => LoggedPresent(p)'
      <4> SUFFICES ASSUME LoggedPresent(p)
                   PROVE  presence'[p].present
        BY <1>7 DEF LoggedPresent
      <4>1. PICK m \in Marks(batch, p) : Shows(m, p) /\ \A v \in Marks(batch, p) : v.at <= m.at
        BY <1>1, <2>5 DEF LoggedPresent
      <4>2. m.at = last.at /\ last.at <= MaxWrites /\ m \in ToSet(batch) /\ last \in ToSet(batch)
        BY <1>1, <1>2, <2>1, <3>2, <4>1, MarksFirst DEF Genuine
      <4>3. m = last
        BY <1>2, <4>2, TimesDiffer
      <4> QED
        BY <3>3, <4>1, <4>3
    <3>9. tabJoins => LogOf(p)'
      <4>1. OpenJoin(p)' = OpenJoin(p) /\ DoubleJoin(p)' = DoubleJoin(p)
        BY <1>1 DEF OpenJoin, DoubleJoin
      <4> QED
        BY <1>1, <2>1, <3>7, <3>8, <4>1 DEF LogOf
    <3> QED
      BY <1>1, <3>6, <3>9
  <2> QED
    BY <2>4, <2>5
<1> QED
  BY <1>7, <1>8 DEF PresenceInv, WriterInv

-----------------------------------------------------------------------------
(* Its restarts and reconciles.                                            *)

\* A log to which only leaves are added.
LEMMA LeavesAdded ==
  ASSUME NEW p, log \subseteq log', \A r \in log' \ log : r.type = "l"
  PROVE  /\ ~DoubleJoin(p) => ~DoubleJoin(p)'
         /\ OpenJoin(p)' => OpenJoin(p)
<1>1. ~DoubleJoin(p) => ~DoubleJoin(p)'
  BY DEF DoubleJoin
<1>2. OpenJoin(p)' => OpenJoin(p)
  BY DEF OpenJoin
<1> QED
  BY <1>1, <1>2

\* A row that is logged of what is due is no later than what is on its way,
\* and no earlier than what is in the log.
LEMMA DueLogged ==
  ASSUME PresenceInv, NEW p \in Players \ excused,
         stage \in {"restart", "mark", "rejoin", "leave"}, log \subseteq log',
         \A r \in log' \ log : r.at = Due.at, tabJoins,
         UNCHANGED clock, Pend(p)' = Pend(p), stage' # "presence"
  PROVE  /\ \A r \in log' : r.player = p => r.at <= clock'
         /\ \A r \in log', w \in Unlogged(p)' : r.player = p => r.at <= w.at
         /\ \A r \in log : r.player = p => r.at <= Due.at
<1>1. /\ WriterInv /\ Orderly(p) /\ LogOf(p)
      /\ Unlogged(p) = Pend(p) /\ Unlogged(p)' = Pend(p)
  BY DEF PresenceInv, WriterInv, PresenceOf, Unlogged
<1>2. /\ Due.at \in Nat /\ Due.at <= clock /\ Due \in Pend(p)
      /\ \A w \in Pend(p) : Due.at <= w.at
  BY <1>1, DueRow, DueFirst
<1> QED
  BY <1>1, <1>2 DEF LogOf

LEMMA LogRestartKeeps ==
  ASSUME PresenceInv, LogRestart
  PROVE  PresenceInv'
<1>1. /\ stage = "restart" /\ stage' = "clear"
      /\ log' = log \cup {Record(p, "l", "r", Due.at) : p \in Present}
      /\ UNCHANGED <<tabJoins, clock, tab, snapshot, queue, batch, todo, presence, excused>>
  BY DEF LogRestart, gameVars
<1>2. WriterInv /\ Due.at \in Nat
  BY <1>1, DueRow DEF PresenceInv, WriterInv
<1>3. /\ log \subseteq log' /\ log' \subseteq LogRow
      /\ \A r \in log' \ log : r.type = "l" /\ r.at = Due.at
      /\ \A p \in Present : \E t \in log' : t.player = p /\ t.type = "l" /\ t.at = Due.at
  <2>1. \A p \in Players : LET r == Record(p, "l", "r", Due.at)
                           IN r \in LogRow /\ r.player = p /\ r.type = "l" /\ r.at = Due.at
    BY <1>2 DEF Record, LogRow
  <2>2. log \subseteq LogRow /\ Present \subseteq Players
    BY DEF PresenceInv, WriterInv, PresenceTypes, Present
  <2> QED
    BY <1>1, <2>1, <2>2
<1>4. /\ PresenceTypes' /\ Stages' /\ InOrder' /\ RowsGenuine'
      /\ Waiting' = Waiting /\ Due' = Due
      /\ \A p : Orderly(p) => Orderly(p)'
  <2>1. presence' \in [Players -> [present : BOOLEAN, at : Nat]]
    BY <1>1 DEF PresenceInv, WriterInv, PresenceTypes
  <2> QED
    BY <1>1, <1>3, <2>1, Staying
<1>5. ASSUME NEW p \in Players \ excused'
      PROVE  PresenceOf(p)' /\ (tabJoins => LogOf(p))'
  <2>1. p \in Players \ excused /\ PresenceOf(p) /\ (tabJoins => LogOf(p))
    BY <1>1, <1>5 DEF PresenceInv, WriterInv
  <2>2. Pend(p)' = Pend(p)
    BY <1>4 DEF Pend
  <2>3. PresenceOf(p)'
    BY <1>1, <1>4, <2>1, <2>2 DEF PresenceOf
  <2>4. ASSUME tabJoins
        PROVE  LogOf(p)'
    <3>1. /\ \A r \in log' : r.player = p => r.at <= clock'
          /\ \A r \in log', w \in Unlogged(p)' : r.player = p => r.at <= w.at
          /\ \A r \in log : r.player = p => r.at <= Due.at
      BY <1>1, <1>3, <2>1, <2>2, <2>4, DueLogged
    <3>2. ~DoubleJoin(p)' /\ (OpenJoin(p)' => OpenJoin(p))
      BY <1>3, <2>1, <2>4, LeavesAdded DEF LogOf
    <3>3. ~OpenJoin(p)'
      <4> SUFFICES ASSUME OpenJoin(p)'
                   PROVE  FALSE
        OBVIOUS
      <4>1. p \in Present
        BY <1>1, <2>1, <2>4, <3>2 DEF LogOf, LoggedPresent, Present
      <4>2. PICK r \in log' : /\ r.player = p /\ r.type = "j"
                              /\ \A t \in log' : t.player = p /\ t.type = "l" => t.at < r.at
        BY DEF OpenJoin
      <4>3. r \in log /\ r.at <= Due.at
        BY <1>3, <3>1, <4>2
      <4>4. Due.at < r.at /\ r.at \in Nat
        BY <1>3, <4>1, <4>2 DEF LogRow
      <4> QED
        BY <1>2, <4>3, <4>4
    <3> QED
      BY <3>1, <3>2, <3>3 DEF LogOf
  <2> QED
    BY <1>1, <2>3, <2>4
<1> QED
  BY <1>4, <1>5 DEF PresenceInv, WriterInv

\* What is on its way when the restart, or the reconcile, has been written.
DueGone == ToSet(queue) \cup {batch[i] : i \in Rest \cup IF stage = "clear" THEN Onlines ELSE {}}

\* The presence is written of the restart, or the last of the reconcile: what
\* it shows of p is what that row shows.
LEMMA DueWritten ==
  ASSUME PresenceInv, stage \in {"clear", "retire"}, NEW p \in Players \ excused,
         UNCHANGED <<clock, tab>>, Orderly(p)',
         \A w : w \in Waiting' <=> w \in DueGone,
         presence'[p].present \in BOOLEAN,
         presence'[p].present <=> Shows(Due, p),
         presence'[p].at \in {presence[p].at, Due.at},
         stage' \in {"idle", "restart", "mark"}
  PROVE  PresenceOf(p)' /\ Pend(p)' \subseteq Pend(p)
<1>1. /\ WriterInv /\ PresenceOf(p) /\ Orderly(p)
      /\ presence[p].present \in BOOLEAN /\ presence[p].at \in Nat
  BY DEF PresenceInv, WriterInv, PresenceTypes, PresenceOf
<1>2. PICK last : last = Due
  OBVIOUS
<1>3. /\ last.at \in Nat /\ last.at <= clock /\ last \in Pend(p)
      /\ \A w \in Pend(p) : last.at <= w.at /\ (w.kind = "event" => last.at < w.at)
  BY <1>1, <1>2, DueRow, DueFirst
<1>4. \A w : w \in Waiting <=> w \in DueGone \/ w = last
  <2>1. Unwritten = (Rest \cup IF stage = "clear" THEN Onlines ELSE {}) \cup {Min(todo)}
    BY <1>1, DueRow DEF Unwritten, Rest
  <2> QED
    BY <2>1, <1>2 DEF Waiting, DueGone, Due
<1>5. \A w : w \in Pend(p) <=> w \in Pend(p)' \/ w = last
  <2>1. \A w : w \in Pend(p)' <=> w \in DueGone /\ Bears(w, p)
    BY DEF Pend, Bears
  <2>2. \A w : w \in Pend(p) <=> w \in Waiting /\ Bears(w, p)
    BY DEF Pend
  <2> QED
    BY <1>3, <1>4, <2>1, <2>2
<1>6. Chain(Pend(p)', presence'[p].present, p \in tab', p)
  <2>1. PICK P, Q, s, s1, t : /\ P = Pend(p) /\ Q = Pend(p)'
                              /\ s = presence[p].present /\ s1 = presence'[p].present
                              /\ t = (p \in tab)
    OBVIOUS
  <2>2. Q \in SUBSET P /\ last \in P /\ s \in BOOLEAN /\ s1 \in BOOLEAN /\ t \in BOOLEAN
    BY <1>1, <1>3, <1>5, <2>1
  <2>3. /\ \A v \in P : v.at \in Nat
        /\ \A u, v, e \in P : e.kind = "event" /\ u.at = v.at /\ u.at < e.at => u = v
    BY <1>1, <2>1, PendFacts
  <2>4. /\ \A v \in P \ Q : v.at <= last.at
        /\ \A v \in Q : last.at <= v.at /\ (v.kind = "event" => last.at < v.at)
    BY <1>3, <1>5, <2>1
  <2>5. Chain(P, s, t, p) /\ (s1 <=> Shows(last, p))
    BY <1>1, <1>2, <2>1 DEF PresenceOf
  <2>6. Chain(Q, s1, t, p)
    BY <2>2, <2>3, <2>4, <2>5, ChainWritten
  <2> QED
    BY <2>1, <2>6
<1>7. presence'[p].at <= clock' /\ \A w \in Pend(p)' : presence'[p].at <= w.at
  BY <1>1, <1>2, <1>3, <1>5 DEF PresenceOf
<1>8. Pend(p)' \subseteq Pend(p)
  BY <1>5
<1> QED
  BY <1>6, <1>7, <1>8 DEF PresenceOf

LEMMA ClearPresenceKeeps ==
  ASSUME PresenceInv, ClearPresence
  PROVE  PresenceInv'
<1>1. /\ stage = "clear" /\ log' = log /\ Continue(Rest, Onlines)
      /\ UNCHANGED <<tabJoins, clock, tab, snapshot, queue, excused>>
      /\ presence' = [p \in Players |->
           IF p \in Present THEN [present |-> FALSE, at |-> Due.at] ELSE presence[p]]
  BY DEF ClearPresence, gameVars
<1>2. /\ WriterInv /\ Due.at \in Nat /\ Due.kind = "restart"
      /\ log \subseteq LogRow /\ presence \in [Players -> [present : BOOLEAN, at : Nat]]
  BY <1>1, DueRow DEF PresenceInv, WriterInv, PresenceTypes
<1>3. presence' \in [Players -> [present : BOOLEAN, at : Nat]]
  BY <1>1, <1>2
<1>4. /\ PresenceTypes' /\ Stages' /\ InOrder' /\ RowsGenuine'
      /\ stage' \in {"idle", "restart", "mark"}
      /\ \A w : w \in Waiting' <=> w \in DueGone
      /\ \A p : Orderly(p) => Orderly(p)'
  <2>1. Rest \in SUBSET Restarts /\ Onlines \in SUBSET Onlines
    BY <1>1 DEF PresenceInv, WriterInv, Stages, Rest
  <2>2. /\ PresenceTypes' /\ Stages' /\ InOrder' /\ RowsGenuine'
        /\ stage' \in {"idle", "restart", "mark"}
        /\ \A w : w \in Waiting' <=> \/ w \in ToSet(queue)
                                     \/ \E i \in Rest \cup Onlines : w = batch[i]
        /\ \A p : Orderly(p) => Orderly(p)'
    BY <1>1, <1>2, <1>3, <2>1, Writing
  <2>3. \A w : w \in DueGone <=> \/ w \in ToSet(queue)
                                 \/ \E i \in Rest \cup Onlines : w = batch[i]
    BY <1>1 DEF DueGone
  <2> QED
    BY <2>2, <2>3
<1>5. ASSUME NEW p \in Players \ excused'
      PROVE  PresenceOf(p)' /\ (tabJoins => LogOf(p))'
  <2>1. p \in Players \ excused /\ PresenceOf(p) /\ (tabJoins => LogOf(p)) /\ Orderly(p)'
    BY <1>1, <1>4, <1>5 DEF PresenceInv, WriterInv, PresenceOf
  <2>2. /\ ~presence'[p].present /\ presence'[p].present \in BOOLEAN
        /\ presence'[p].at \in {presence[p].at, Due.at}
    <3>1. p \in Present <=> presence[p].present
      BY DEF Present
    <3>2. CASE p \in Present
      BY <1>1, <3>2
    <3>3. CASE p \notin Present
      BY <1>1, <1>3, <3>1, <3>3
    <3> QED
      BY <3>2, <3>3
  <2>3. ~Shows(Due, p)
    BY <1>2 DEF Shows
  <2>4. PresenceOf(p)' /\ Pend(p)' \subseteq Pend(p)
    BY <1>1, <1>4, <2>1, <2>2, <2>3, DueWritten
  <2>5. Unlogged(p)' \subseteq Unlogged(p)
    BY <1>1, <2>4 DEF Unlogged
  <2>6. OpenJoin(p)' = OpenJoin(p) /\ DoubleJoin(p)' = DoubleJoin(p) /\ ~LoggedPresent(p)
    BY <1>1 DEF OpenJoin, DoubleJoin, LoggedPresent
  <2>7. tabJoins => LogOf(p)'
    BY <1>1, <2>1, <2>5, <2>6 DEF LogOf
  <2> QED
    BY <1>1, <2>4, <2>7
<1> QED
  BY <1>4, <1>5 DEF PresenceInv, WriterInv

LEMMA MarkOnlineKeeps ==
  ASSUME PresenceInv, MarkOnline
  PROVE  PresenceInv'
<1>1. /\ stage = "mark" /\ stage' = "rejoin" /\ log' = log
      /\ UNCHANGED <<tabJoins, clock, tab, snapshot, queue, batch, todo, excused>>
      /\ presence' = [p \in Players |->
           IF p \in Due.players THEN Upsert(p, TRUE, Due.at) ELSE presence[p]]
  BY DEF MarkOnline, gameVars
<1>2. /\ WriterInv /\ Due.at \in Nat /\ Due.at <= clock
      /\ log \subseteq LogRow /\ presence \in [Players -> [present : BOOLEAN, at : Nat]]
  BY <1>1, DueRow DEF PresenceInv, WriterInv, PresenceTypes
<1>3. presence' \in [Players -> [present : BOOLEAN, at : Nat]]
  BY <1>1, <1>2, Upserted
<1>4. /\ PresenceTypes' /\ Stages' /\ InOrder' /\ RowsGenuine'
      /\ Waiting' = Waiting /\ Due' = Due
      /\ \A p : Orderly(p) => Orderly(p)'
  BY <1>1, <1>2, <1>3, Staying
<1>5. ASSUME NEW p \in Players \ excused'
      PROVE  PresenceOf(p)' /\ (tabJoins => LogOf(p))'
  <2>1. /\ PresenceOf(p) /\ (tabJoins => LogOf(p)) /\ Orderly(p) /\ Orderly(p)'
        /\ presence[p].present \in BOOLEAN /\ presence[p].at \in Nat
        /\ presence'[p].present \in BOOLEAN
    BY <1>1, <1>2, <1>3, <1>4, <1>5 DEF PresenceInv, WriterInv, PresenceOf
  <2>2. Pend(p)' = Pend(p)
    BY <1>4 DEF Pend
  <2>3. /\ Due \in Pend(p)
        /\ \A w \in Pend(p) : Due.at <= w.at /\ (w.kind = "event" => Due.at < w.at)
    BY <1>1, <1>2, <2>1, DueRow, DueFirst
  <2>4. /\ p \in Due.players => presence'[p].present
        /\ presence[p].present => presence'[p].present
        /\ presence'[p].present => presence[p].present \/ p \in Due.players
        /\ presence'[p].at \in {presence[p].at, Due.at}
    <3>1. CASE p \in Due.players
      <4>1. presence'[p] = [present |-> TRUE, at |-> Due.at]
        BY <1>1, <2>1, <2>3, <3>1 DEF Upsert, PresenceOf
      <4> QED
        BY <3>1, <4>1
    <3>2. CASE p \notin Due.players
      BY <1>1, <3>2
    <3> QED
      BY <3>1, <3>2
  <2>5. Chain(Pend(p)', presence'[p].present, p \in tab', p)
    <3>1. PICK P, due, s, s1, t : /\ P = Pend(p) /\ due = Due
                                  /\ s = presence[p].present /\ s1 = presence'[p].present
                                  /\ t = (p \in tab)
      OBVIOUS
    <3>2. due \in P /\ s \in BOOLEAN /\ s1 \in BOOLEAN /\ t \in BOOLEAN
      BY <2>1, <2>3, <3>1
    <3>3. Chain(P, s, t, p) /\ \A e \in P : e.kind = "event" => due.at < e.at
      BY <2>1, <2>3, <3>1 DEF PresenceOf
    <3>4. Chain(P, s1, t, p)
      BY <3>2, <3>3, ChainDue
    <3> QED
      BY <1>1, <2>2, <3>1, <3>4
  <2>6. PresenceOf(p)'
    BY <1>1, <1>2, <1>4, <2>1, <2>2, <2>3, <2>4, <2>5 DEF PresenceOf
  <2>7. Unlogged(p)' \subseteq Unlogged(p)
    BY <1>1, <2>2 DEF Unlogged
  <2>8. /\ OpenJoin(p)' = OpenJoin(p) /\ DoubleJoin(p)' = DoubleJoin(p)
        /\ LoggedPresent(p) => LoggedPresent(p)'
    BY <1>1, <2>4 DEF OpenJoin, DoubleJoin, LoggedPresent
  <2>9. tabJoins => LogOf(p)'
    BY <1>1, <2>1, <2>7, <2>8 DEF LogOf
  <2> QED
    BY <1>1, <2>6, <2>9
<1> QED
  BY <1>4, <1>5 DEF PresenceInv, WriterInv

LEMMA LogRejoinsKeeps ==
  ASSUME PresenceInv, LogRejoins
  PROVE  PresenceInv'
<1>1. /\ stage = "rejoin" /\ stage' = "leave"
      /\ log' = log \cup {Record(p, "j", "r", Due.at) : p \in MissedJoins(Due.players)}
      /\ UNCHANGED <<tabJoins, clock, tab, snapshot, queue, batch, todo, presence, excused>>
  BY DEF LogRejoins, gameVars
<1>2. /\ WriterInv /\ Due.at \in Nat /\ Due.players \subseteq Players
      /\ log \subseteq LogRow /\ clock \in Nat
  BY <1>1, DueRow, LogWriterAssumption
     DEF PresenceInv, WriterInv, PresenceTypes, LogWriterAssumption
<1>3. /\ log \subseteq log' /\ log' \subseteq LogRow
      /\ \A r \in log' \ log : /\ r.player \in MissedJoins(Due.players) /\ r.player \in Due.players
                               /\ r.type = "j" /\ r.at = Due.at
  <2>1. \A p \in Players : LET r == Record(p, "j", "r", Due.at)
                           IN r \in LogRow /\ r.player = p /\ r.type = "j" /\ r.at = Due.at
    BY <1>2 DEF Record, LogRow
  <2>2. MissedJoins(Due.players) \subseteq Due.players
    BY DEF MissedJoins
  <2> QED
    BY <1>1, <1>2, <2>1, <2>2
<1>4. /\ PresenceTypes' /\ Stages' /\ InOrder' /\ RowsGenuine'
      /\ Waiting' = Waiting /\ Due' = Due
      /\ \A p : Orderly(p) => Orderly(p)'
  <2>1. presence' \in [Players -> [present : BOOLEAN, at : Nat]]
    BY <1>1 DEF PresenceInv, WriterInv, PresenceTypes
  <2> QED
    BY <1>1, <1>3, <2>1, Staying
<1>5. ASSUME NEW p \in Players \ excused'
      PROVE  PresenceOf(p)' /\ (tabJoins => LogOf(p))'
  <2>1. p \in Players \ excused /\ PresenceOf(p) /\ (tabJoins => LogOf(p))
    BY <1>1, <1>5 DEF PresenceInv, WriterInv
  <2>2. Pend(p)' = Pend(p)
    BY <1>4 DEF Pend
  <2>3. PresenceOf(p)'
    BY <1>1, <1>4, <2>1, <2>2 DEF PresenceOf
  <2>4. ASSUME tabJoins
        PROVE  LogOf(p)'
    <3>1. /\ \A r \in log' : r.player = p => r.at <= clock'
          /\ \A r \in log', w \in Unlogged(p)' : r.player = p => r.at <= w.at
          /\ \A r \in log : r.player = p => r.at <= Due.at
      BY <1>1, <1>3, <2>1, <2>2, <2>4, DueLogged
    <3>2. \A r \in log' : r.at \in Nat
      BY <1>3 DEF LogRow
    \* the log of a player who is given a join ends with a leave
    <3>3. ASSUME p \in MissedJoins(Due.players), NEW r \in log, r.player = p
          PROVE  \E t \in log : t.player = p /\ t.type = "l" /\ r.at <= t.at
      <4>1. PICK seen : seen = {x \in log : x.player = p}
        OBVIOUS
      <4>2. Latest(seen).type # "j" /\ r \in seen
        BY <3>3, <4>1 DEF MissedJoins
      <4>3. \A x \in seen : x.at \in Nat /\ x.at <= clock
        BY <1>1, <3>1, <3>2, <1>3, <4>1
      <4>4. Latest(seen) \in seen /\ \A x \in seen : x.at <= Latest(seen).at
        BY <1>2, <4>2, <4>3, LatestWorks
      <4>5. Latest(seen) \in log /\ Latest(seen).player = p /\ Latest(seen).type \in {"j", "l"}
        BY <1>2, <4>1, <4>4 DEF LogRow
      <4> QED
        BY <4>2, <4>4, <4>5
    <3>4. ~DoubleJoin(p)'
      <4> SUFFICES ASSUME NEW r \in log', NEW s \in log',
                          r.player = p, s.player = p, r.type = "j", s.type = "j", r.at < s.at
                   PROVE  \E t \in log' : /\ t.player = p /\ t.type = "l"
                                          /\ r.at <= t.at /\ t.at <= s.at
        BY DEF DoubleJoin
      <4>1. r \in log
        BY <1>2, <1>3, <3>1, <3>2
      <4>2. CASE s \in log
        BY <1>3, <2>1, <2>4, <4>1, <4>2 DEF LogOf, DoubleJoin
      <4>3. CASE s \notin log
        <5>1. p \in MissedJoins(Due.players) /\ s.at = Due.at
          BY <1>3, <4>3
        <5>2. PICK t \in log : t.player = p /\ t.type = "l" /\ r.at <= t.at
          BY <3>3, <4>1, <5>1
        <5> QED
          BY <1>3, <3>1, <5>1, <5>2
      <4> QED
        BY <4>2, <4>3
    <3>5. OpenJoin(p)' => LoggedPresent(p)'
      <4> SUFFICES ASSUME OpenJoin(p)'
                   PROVE  presence[p].present
        BY <1>1 DEF LoggedPresent
      <4>1. PICK r \in log' : /\ r.player = p /\ r.type = "j"
                              /\ \A t \in log' : t.player = p /\ t.type = "l" => t.at < r.at
        BY DEF OpenJoin
      <4>2. CASE r \in log
        <5>1. OpenJoin(p)
          BY <1>3, <4>1, <4>2 DEF OpenJoin
        <5> QED
          BY <1>1, <2>1, <2>4, <5>1 DEF LogOf, LoggedPresent
      <4>3. CASE r \notin log
        BY <1>1, <1>3, <2>1, <4>1, <4>3 DEF PresenceOf
      <4> QED
        BY <4>2, <4>3
    <3> QED
      BY <3>1, <3>4, <3>5 DEF LogOf
  <2> QED
    BY <1>1, <2>3, <2>4
<1> QED
  BY <1>4, <1>5 DEF PresenceInv, WriterInv

LEMMA LogMissedLeavesKeeps ==
  ASSUME PresenceInv, LogMissedLeaves
  PROVE  PresenceInv'
<1>1. /\ stage = "leave" /\ stage' = "retire"
      /\ log' = log \cup {Record(p, "l", "r", Due.at) : p \in Stale(Due.players)}
      /\ UNCHANGED <<tabJoins, clock, tab, snapshot, queue, batch, todo, presence, excused>>
  BY DEF LogMissedLeaves, gameVars
<1>2. WriterInv /\ Due.at \in Nat
  BY <1>1, DueRow DEF PresenceInv, WriterInv
<1>3. /\ log \subseteq log' /\ log' \subseteq LogRow
      /\ \A r \in log' \ log : r.type = "l" /\ r.at = Due.at
      /\ \A p \in Stale(Due.players) : \E t \in log' : t.player = p /\ t.type = "l" /\ t.at = Due.at
  <2>1. \A p \in Players : LET r == Record(p, "l", "r", Due.at)
                           IN r \in LogRow /\ r.player = p /\ r.type = "l" /\ r.at = Due.at
    BY <1>2 DEF Record, LogRow
  <2>2. log \subseteq LogRow /\ Stale(Due.players) \subseteq Players
    BY DEF PresenceInv, WriterInv, PresenceTypes, Present, Stale
  <2> QED
    BY <1>1, <2>1, <2>2
<1>4. /\ PresenceTypes' /\ Stages' /\ InOrder' /\ RowsGenuine'
      /\ Waiting' = Waiting /\ Due' = Due
      /\ \A p : Orderly(p) => Orderly(p)'
  <2>1. presence' \in [Players -> [present : BOOLEAN, at : Nat]]
    BY <1>1 DEF PresenceInv, WriterInv, PresenceTypes
  <2> QED
    BY <1>1, <1>3, <2>1, Staying
<1>5. ASSUME NEW p \in Players \ excused'
      PROVE  PresenceOf(p)' /\ (tabJoins => LogOf(p))'
  <2>1. p \in Players \ excused /\ PresenceOf(p) /\ (tabJoins => LogOf(p))
    BY <1>1, <1>5 DEF PresenceInv, WriterInv
  <2>2. Pend(p)' = Pend(p)
    BY <1>4 DEF Pend
  <2>3. PresenceOf(p)'
    BY <1>1, <1>4, <2>1, <2>2 DEF PresenceOf
  <2>4. ASSUME tabJoins
        PROVE  LogOf(p)'
    <3>1. /\ \A r \in log' : r.player = p => r.at <= clock'
          /\ \A r \in log', w \in Unlogged(p)' : r.player = p => r.at <= w.at
          /\ \A r \in log : r.player = p => r.at <= Due.at
      BY <1>1, <1>3, <2>1, <2>2, <2>4, DueLogged
    <3>2. ~DoubleJoin(p)' /\ (OpenJoin(p)' => OpenJoin(p))
      BY <1>3, <2>1, <2>4, LeavesAdded DEF LogOf
    <3>3. OpenJoin(p)' => p \in Due.players
      <4> SUFFICES ASSUME OpenJoin(p)', p \notin Due.players
                   PROVE  FALSE
        OBVIOUS
      <4>1. p \in Stale(Due.players)
        BY <1>1, <2>1, <2>4, <3>2 DEF LogOf, LoggedPresent, Present, Stale
      <4>2. PICK r \in log' : /\ r.player = p /\ r.type = "j"
                              /\ \A t \in log' : t.player = p /\ t.type = "l" => t.at < r.at
        BY DEF OpenJoin
      <4>3. r \in log /\ r.at <= Due.at
        BY <1>3, <3>1, <4>2
      <4>4. Due.at < r.at /\ r.at \in Nat
        BY <1>3, <4>1, <4>2 DEF LogRow
      <4> QED
        BY <1>2, <4>3, <4>4
    <3>4. OpenJoin(p)' => LoggedPresent(p)'
      BY <1>1, <1>4, <3>3 DEF LoggedPresent
    <3> QED
      BY <3>1, <3>2, <3>4 DEF LogOf
  <2> QED
    BY <1>1, <2>3, <2>4
<1> QED
  BY <1>4, <1>5 DEF PresenceInv, WriterInv

LEMMA RetireStaleKeeps ==
  ASSUME PresenceInv, RetireStale
  PROVE  PresenceInv'
<1>1. /\ stage = "retire" /\ log' = log /\ Continue({}, Rest)
      /\ UNCHANGED <<tabJoins, clock, tab, snapshot, queue, excused>>
      /\ presence' = [p \in Players |->
           IF p \in Stale(Due.players)
           THEN [present |-> FALSE, at |-> Due.at] ELSE presence[p]]
  BY DEF RetireStale, gameVars
<1>2. /\ WriterInv /\ Due.at \in Nat /\ Due.kind = "online"
      /\ log \subseteq LogRow /\ presence \in [Players -> [present : BOOLEAN, at : Nat]]
  BY <1>1, DueRow DEF PresenceInv, WriterInv, PresenceTypes
<1>3. presence' \in [Players -> [present : BOOLEAN, at : Nat]]
  BY <1>1, <1>2
<1>4. /\ PresenceTypes' /\ Stages' /\ InOrder' /\ RowsGenuine'
      /\ stage' \in {"idle", "restart", "mark"}
      /\ \A w : w \in Waiting' <=> w \in DueGone
      /\ \A p : Orderly(p) => Orderly(p)'
  <2>1. {} \in SUBSET Restarts /\ Rest \in SUBSET Onlines
    BY <1>1 DEF PresenceInv, WriterInv, Stages, Rest
  <2>2. /\ PresenceTypes' /\ Stages' /\ InOrder' /\ RowsGenuine'
        /\ stage' \in {"idle", "restart", "mark"}
        /\ \A w : w \in Waiting' <=> \/ w \in ToSet(queue)
                                     \/ \E i \in {} \cup Rest : w = batch[i]
        /\ \A p : Orderly(p) => Orderly(p)'
    BY <1>1, <1>2, <1>3, <2>1, Writing
  <2>3. \A w : w \in DueGone <=> \/ w \in ToSet(queue)
                                 \/ \E i \in {} \cup Rest : w = batch[i]
    BY <1>1 DEF DueGone
  <2> QED
    BY <2>2, <2>3
<1>5. ASSUME NEW p \in Players \ excused'
      PROVE  PresenceOf(p)' /\ (tabJoins => LogOf(p))'
  <2>1. p \in Players \ excused /\ PresenceOf(p) /\ (tabJoins => LogOf(p)) /\ Orderly(p)'
    BY <1>1, <1>4, <1>5 DEF PresenceInv, WriterInv, PresenceOf
  <2>2. /\ presence'[p].present <=> p \in Due.players
        /\ presence'[p].present \in BOOLEAN
        /\ presence'[p].at \in {presence[p].at, Due.at}
    <3>1. /\ p \in Stale(Due.players) <=> presence[p].present /\ p \notin Due.players
          /\ p \in Due.players => presence[p].present
      BY <1>1, <2>1 DEF Present, Stale, PresenceOf
    <3>2. CASE p \in Stale(Due.players)
      BY <1>1, <3>1, <3>2
    <3>3. CASE p \notin Stale(Due.players)
      BY <1>1, <1>3, <3>1, <3>3
    <3> QED
      BY <3>2, <3>3
  <2>3. Shows(Due, p) <=> p \in Due.players
    BY <1>2 DEF Shows
  <2>4. PresenceOf(p)' /\ Pend(p)' \subseteq Pend(p)
    BY <1>1, <1>4, <2>1, <2>2, <2>3, DueWritten
  <2>5. Unlogged(p)' \subseteq Unlogged(p)
    BY <1>1, <2>4 DEF Unlogged
  <2>6. /\ OpenJoin(p)' = OpenJoin(p) /\ DoubleJoin(p)' = DoubleJoin(p)
        /\ LoggedPresent(p) => LoggedPresent(p)'
    BY <1>1, <1>4, <2>2 DEF OpenJoin, DoubleJoin, LoggedPresent
  <2>7. tabJoins => LogOf(p)'
    BY <1>1, <2>1, <2>5, <2>6 DEF LogOf
  <2> QED
    BY <1>1, <2>4, <2>7
<1> QED
  BY <1>4, <1>5 DEF PresenceInv, WriterInv

\* A statement that fails spoils everyone's rows.
LEMMA FailKeeps ==
  ASSUME PresenceInv, Fail
  PROVE  PresenceInv'
<1>1. /\ stage' = "idle" /\ todo' = {} /\ batch' = <<>> /\ excused' = Players
      /\ UNCHANGED <<tabJoins, clock, tab, snapshot, queue, log, presence>>
  BY DEF Fail, Done, gameVars, dbVars
<1>2. ToSet(<<>>) = {} /\ DOMAIN <<>> = {} /\ <<>> \in Seq(WriteRow)
  BY EmptySeq DEF ToSet
<1>3. PresenceTypes' /\ Stages'
  BY <1>1, <1>2 DEF PresenceInv, WriterInv, PresenceTypes, Stages
<1>4. InOrder' /\ RowsGenuine'
  BY <1>1, <1>2 DEF PresenceInv, WriterInv, InOrder, RowsGenuine, Genuine, Before
<1> QED
  BY <1>1, <1>3, <1>4 DEF PresenceInv, WriterInv

-----------------------------------------------------------------------------
LEMMA PresenceStarts == PresenceInit => PresenceInv
<1> SUFFICES ASSUME PresenceInit
             PROVE  PresenceInv
  OBVIOUS
<1>1. ToSet(<<>>) = {} /\ DOMAIN <<>> = {} /\ <<>> \in Seq(WriteRow)
  BY EmptySeq DEF ToSet
<1>2. PresenceTypes /\ Stages
  BY <1>1, LogWriterAssumption
     DEF PresenceInit, PresenceTypes, Stages, Never, LogWriterAssumption
<1>3. InOrder /\ RowsGenuine
  BY <1>1 DEF PresenceInit, InOrder, RowsGenuine
<1>4. ASSUME NEW p \in Players
      PROVE  PresenceOf(p) /\ LogOf(p)
  <2>1. Pend(p) = {} /\ Orderly(p)
    BY <1>1 DEF PresenceInit, Pend, Waiting, Unwritten, Orderly
  <2>2. presence[p] = Never /\ log = {} /\ tab = {} /\ stage = "idle" /\ clock = 1
    BY DEF PresenceInit
  <2>3. PresenceOf(p)
    BY <2>1, <2>2 DEF PresenceOf, Chain, Never
  <2>4. LogOf(p)
    BY <2>2 DEF LogOf, DoubleJoin, OpenJoin
  <2> QED
    BY <2>3, <2>4
<1> QED
  BY <1>2, <1>3, <1>4 DEF PresenceInv, WriterInv

LEMMA PresenceStands ==
  ASSUME PresenceInv, UNCHANGED logVars
  PROVE  PresenceInv'
<1>1. UNCHANGED <<tabJoins, clock, tab, snapshot, queue, stage, batch, todo, log, presence,
                  excused>>
  BY DEF logVars, gameVars, dbVars
<1>2. PresenceTypes' /\ Stages' /\ InOrder' /\ RowsGenuine'
  BY <1>1 DEF PresenceInv, WriterInv, PresenceTypes, Stages, Restarts, Onlines, InOrder, Before,
     RowsGenuine, Genuine
<1>3. ASSUME NEW p \in Players \ excused'
      PROVE  PresenceOf(p)' /\ (tabJoins => LogOf(p))'
  <2>1. clock \in Nat /\ clock' \in Nat /\ clock <= clock'
    BY <1>1, LogWriterAssumption DEF PresenceInv, WriterInv, PresenceTypes, LogWriterAssumption
  <2>2. PresenceOf(p) /\ (tabJoins => LogOf(p)) /\ WriterInv
    BY <1>1, <1>3 DEF PresenceInv, WriterInv
  <2> QED
    BY <1>1, <2>1, <2>2, PlayerStands
<1> QED
  BY <1>2, <1>3 DEF PresenceInv, WriterInv

LEMMA PresenceKeeps == PresenceInv /\ PresenceStep => PresenceInv'
BY ArriveKeeps, DepartKeeps, AnnounceKeeps, RestartCountdownKeeps, GoQuietKeeps,
   ReadTabKeeps, QueueOnlineKeeps, FlushKeeps, WriteEventsKeeps, WritePresenceKeeps,
   LogRestartKeeps, ClearPresenceKeeps, MarkOnlineKeeps, LogRejoinsKeeps,
   LogMissedLeavesKeeps, RetireStaleKeeps, FailKeeps
   DEF PresenceStep, Game, Reconcile, Write

LEMMA PresenceSuffices == PresenceInv => LogAccounted
<1> SUFFICES ASSUME PresenceInv
             PROVE  PresenceAccounted /\ JoinsAccounted
  BY DEF LogAccounted
<1>1. PresenceAccounted
  <2> SUFFICES ASSUME Settled, NEW p \in Players \ excused
               PROVE  presence[p].present <=> p \in tab
    BY DEF PresenceAccounted
  <2>1. Pend(p) = {}
    BY DEF Settled, PresenceInv, WriterInv, Stages, Pend, Waiting, Unwritten, ToSet
  <2> QED
    BY <2>1 DEF PresenceInv, WriterInv, PresenceOf, Chain
<1>2. JoinsAccounted
  BY DEF JoinsAccounted, PresenceInv, WriterInv, LogOf
<1> QED
  BY <1>1, <1>2

-----------------------------------------------------------------------------
(* Who the players are.                                                    *)

Sighting == [name : Names, uuid : Accounts \cup {NoUuid}, rank : Shown \cup {NoRank}]
Stops == {"idle", "resolve", "chat", "remove", "insert", "remember", "rank"}

BookTypes ==
  /\ holder \in [Names -> Accounts \cup {NoUuid}]
  /\ \A n, m \in Names : holder[n] = holder[m] => n = m \/ holder[n] = NoUuid
  /\ inbox \in [Writers -> Seq(Sighting)]
  /\ taken \in [Writers -> Seq(Sighting)]
  /\ doing \in [Writers -> Stops]
  /\ dict \in [Names -> Nat] /\ IsFiniteSet({n \in Names : dict[n] # 0})
  /\ ids \in [Writers -> [Names -> Nat]]
  /\ known \in [Writers -> [Names -> {"none", "made", "real"}]]
  /\ shown \in [Writers -> [Names -> Shown \cup {NoRank}]]
  /\ book \in [Uuids -> [name : Names \cup {NoPlayer}, rank : Shown \cup {NoRank}]]
  /\ met \subseteq Names
  /\ said \in [Names -> Shown \cup {NoRank}]
  /\ \A w \in Writers : doing[w] = "idle" => taken[w] = <<>>

\* A name's id in the cache of a writer is the dictionary's, and so is the one
\* that rows are linked with.
IdsAgree ==
  /\ \A w \in Writers, n \in Names \ spoiled : ids[w][n] # 0 => dict[n] = ids[w][n]
  /\ \A w \in Writers : doing[w] \notin {"idle", "resolve"} =>
       \A n \in NamesIn(taken[w]) : ids[w][n] # 0
  /\ linked \subseteq Names \X (Nat \ {0})
  /\ \A l \in linked : l[1] \notin spoiled => dict[l[1]] = l[2]

\* A name in the book is in player_names, or about to be.
Storing == UNION {FreshRows(w) : w \in {v \in Writers : doing[v] = "remember"}}

WornSoon ==
  \A u \in Uuids : \A n \in Names \ spoiled :
    book[u].name = n => <<u, n>> \in worn \cup Storing

\* Names under which nobody plays, or whose account has its row.
Stored == {n \in Names : holder[n] = NoUuid \/ (n \in met /\ book[holder[n]].name = n)}

\* Names with a uuid in a row that is not written.
OnTheWay ==
  {n \in Names : \E w \in Writers : \E q \in InFlight(w) : q.name = n /\ q.uuid # NoUuid}

\* The uuid in a row is that of the account that plays under the name, and
\* under no other.
GivenRight(q) ==
  /\ q.name \in spoiled \/ holder[q.name] = NoUuid
       \/ (holder[q.name] = q.uuid /\ q.name \in met)
  /\ \A n \in Names \ spoiled : holder[n] = q.uuid => n = q.name

UuidsRight ==
  /\ \A n \in met : holder[n] # NoUuid
  /\ \A w \in Writers : \A q \in InFlight(w) : q.uuid # NoUuid => GivenRight(q)
  /\ \A w \in Writers, n \in Names \ spoiled : known[w][n] = "real" => n \in Stored
  /\ \A w \in Writers : doing[w] \in {"remember", "rank"} =>
       \A q \in ToSet(taken[w]) : q.uuid # NoUuid => q.name \in Stored \cup spoiled
  /\ met \ spoiled \subseteq Stored \cup OnTheWay

\* What a subject leaves out.
OnlySubject ==
  /\ subject = "names" =>
       /\ met = {}
       /\ \A w \in Writers : /\ \A n \in Names : known[w][n] # "real"
                             /\ \A q \in InFlight(w) : q.uuid = NoUuid
  /\ subject # "ranks" =>
       /\ \A n \in Names : said[n] = NoRank
       /\ \A w \in Writers : \A q \in InFlight(w) : q.rank = NoRank
  /\ subject = "ranks" =>
       /\ \A u \in Uuids : book[u].name \in Names =>
            u \in {MadeUp(book[u].name), holder[book[u].name]}
       /\ \A w \in Writers : \A q \in InFlight(w) : q.uuid \in {NoUuid, holder[q.name]}

LatestRank(rows, n) == LastRank(rows, n, NoRank)

\* Only one writer has rows about a player when one of them shows a rank.
RankAlone ==
  \A v, w \in Writers : v # w =>
    \A q \in InFlight(v), s \in InFlight(w) :
      q.name = s.name /\ q.rank # NoRank => q.name \in spoiled

\* Names with a rank in a row that is not written, and those that have the
\* rank that was shown last.
RankOnTheWay ==
  {n \in Names : \E w \in Writers : RanksIn(inbox[w], n) \cup RanksIn(taken[w], n) # {}}
RankStored == {n \in Names : \E u \in Uuids : book[u] = [name |-> n, rank |-> said[n]]}

RanksRight ==
  \A n \in Names \ spoiled :
    /\ \A w \in Writers :
         /\ RanksIn(inbox[w], n) # {} => LatestRank(inbox[w], n) = said[n]
         /\ RanksIn(inbox[w], n) = {} /\ RanksIn(taken[w], n) # {} =>
              LatestRank(taken[w], n) = said[n]
    /\ said[n] # NoRank => n \in RankOnTheWay \cup RankStored

NamesInv == BookTypes /\ IdsAgree /\ WornSoon
UuidsInv == NamesInv /\ OnlySubject /\ UuidsRight
BookInv == UuidsInv /\ RankAlone /\ RanksRight

-----------------------------------------------------------------------------
(* The rows of a batch.                                                    *)

LEMMA LastPlace ==
  ASSUME NEW k \in Nat, NEW P \in SUBSET (1..k), P # {}
  PROVE  /\ (CHOOSE i \in P : \A j \in P : j <= i) \in P
         /\ \A j \in P : j <= (CHOOSE i \in P : \A m \in P : m <= i)
<1> DEFINE Left == {k - i : i \in P}
<1>1. Left \in SUBSET Nat /\ Left # {}
  <2>1. \A i \in P : k - i \in Nat
    OBVIOUS
  <2> QED
    BY <2>1
<1>2. PICK m \in Left : \A n \in Left : m <= n
  BY <1>1, LeastWorks
<1>3. PICK i \in P : m = k - i
  BY <1>2
<1>4. \A j \in P : j <= i
  <2> TAKE j \in P
  <2>1. k - j \in Left
    OBVIOUS
  <2>2. k - i <= k - j
    BY <2>1, <1>2, <1>3
  <2> QED
    BY <2>2
<1> QED
  BY <1>4

LEMMA RowsAppended ==
  ASSUME NEW rows \in Seq(Sighting), NEW q \in Sighting
  PROVE  /\ Append(rows, q) \in Seq(Sighting)
         /\ ToSet(Append(rows, q)) = ToSet(rows) \cup {q}
<1>1. /\ Append(rows, q) \in Seq(Sighting)
      /\ Len(Append(rows, q)) = Len(rows) + 1 /\ Len(rows) \in Nat
      /\ \A i \in 1..Len(rows) : Append(rows, q)[i] = rows[i]
      /\ Append(rows, q)[Len(rows) + 1] = q
  BY AppendProperties, LenProperties
<1>2. DOMAIN rows = 1..Len(rows) /\ DOMAIN Append(rows, q) = 1..(Len(rows) + 1)
  BY <1>1, LenProperties
<1>3. 1..(Len(rows) + 1) = 1..Len(rows) \cup {Len(rows) + 1}
  BY <1>1
<1> QED
  BY <1>1, <1>2, <1>3 DEF ToSet

\* touch_players' uuid for a name is one that a row of the batch has.
LEMMA GivenFacts ==
  ASSUME NEW rows \in Seq(Sighting), NEW n
  PROVE  /\ Given(rows, n) # NoUuid =>
              \E q \in ToSet(rows) : q.name = n /\ q.uuid = Given(rows, n)
         /\ \A q \in ToSet(rows) : q.name = n /\ q.uuid # NoUuid => Given(rows, n) # NoUuid
<1> DEFINE with == {i \in 1..Len(rows) : rows[i].name = n /\ rows[i].uuid # NoUuid}
           k == CHOOSE i \in with : \A j \in with : j <= i
<1>1. Len(rows) \in Nat /\ DOMAIN rows = 1..Len(rows)
  BY LenProperties
<1>2. with # {} => k \in with
  <2>1. with \in SUBSET (1..Len(rows))
    OBVIOUS
  <2> HIDE DEF with
  <2> QED
    BY <1>1, <2>1, LastPlace
<1>3. Given(rows, n) = IF with = {} THEN NoUuid ELSE rows[k].uuid
  BY DEF Given
<1> HIDE DEF k
<1>4. ASSUME Given(rows, n) # NoUuid
      PROVE  \E q \in ToSet(rows) : q.name = n /\ q.uuid = Given(rows, n)
  <2>1. k \in with /\ Given(rows, n) = rows[k].uuid
    BY <1>2, <1>3, <1>4
  <2>2. rows[k] \in ToSet(rows)
    BY <1>1, <2>1 DEF ToSet
  <2> QED
    BY <2>1, <2>2
<1>5. ASSUME NEW q \in ToSet(rows), q.name = n, q.uuid # NoUuid
      PROVE  Given(rows, n) # NoUuid
  <2>1. PICK i \in 1..Len(rows) : q = rows[i]
    BY <1>1 DEF ToSet
  <2>2. i \in with
    BY <1>5, <2>1
  <2> QED
    BY <1>2, <1>3, <2>2
<1> QED
  BY <1>4, <1>5

\* write_ranks' rank for a name is one that the batch shows.
LEMMA LastRankFacts ==
  ASSUME NEW rows \in Seq(Sighting), NEW n, NEW d
  PROVE  /\ LastRank(rows, n, d) # NoRank =>
              LastRank(rows, n, d) \in RanksIn(rows, n) \ {d}
         /\ LastRank(rows, n, d) = NoRank => RanksIn(rows, n) \subseteq {d}
<1> DEFINE of == {i \in 1..Len(rows) : rows[i].name = n /\ rows[i].rank \notin {NoRank, d}}
           k == CHOOSE i \in of : \A j \in of : j <= i
<1>1. Len(rows) \in Nat /\ DOMAIN rows = 1..Len(rows)
  BY LenProperties
<1>2. of # {} => k \in of
  <2>1. of \in SUBSET (1..Len(rows))
    OBVIOUS
  <2> HIDE DEF of
  <2> QED
    BY <1>1, <2>1, LastPlace
<1>3. LastRank(rows, n, d) = IF of = {} THEN NoRank ELSE rows[k].rank
  BY DEF LastRank
<1> HIDE DEF k
<1>4. ASSUME LastRank(rows, n, d) # NoRank
      PROVE  LastRank(rows, n, d) \in RanksIn(rows, n) \ {d}
  <2>1. k \in of /\ LastRank(rows, n, d) = rows[k].rank
    BY <1>2, <1>3, <1>4
  <2>2. rows[k] \in ToSet(rows)
    BY <1>1, <2>1 DEF ToSet
  <2> QED
    BY <2>1, <2>2 DEF RanksIn
<1>5. ASSUME LastRank(rows, n, d) = NoRank, NEW r \in RanksIn(rows, n), r # d
      PROVE  FALSE
  <2>1. PICK q \in ToSet(rows) : q.name = n /\ q.rank = r /\ r # NoRank
    BY DEF RanksIn
  <2>2. PICK i \in 1..Len(rows) : q = rows[i]
    BY <1>1 DEF ToSet
  <2>3. i \in of
    BY <1>5, <2>1, <2>2
  <2> QED
    BY <1>2, <1>3, <1>5, <2>3
<1> QED
  BY <1>4, <1>5

LEMMA RankAppended ==
  ASSUME NEW rows \in Seq(Sighting), NEW q \in Sighting, NEW n
  PROVE  /\ q.name = n /\ q.rank # NoRank => LatestRank(Append(rows, q), n) = q.rank
         /\ q.name # n \/ q.rank = NoRank =>
              LatestRank(Append(rows, q), n) = LatestRank(rows, n)
<1> DEFINE k == Len(rows)
           Places(s, m) ==
             {i \in 1..m : s[i].name = n /\ s[i].rank \notin {NoRank, NoRank}}
           longer == Append(rows, q)
<1>1. /\ k \in Nat /\ Len(longer) = k + 1
      /\ \A i \in 1..k : longer[i] = rows[i]
      /\ longer[k + 1] = q
  BY AppendProperties, LenProperties
<1>2. \A i \in 1..(k + 1) : i \in 1..k \/ i = k + 1
  BY <1>1
<1>3. /\ LatestRank(longer, n) = IF Places(longer, k + 1) = {} THEN NoRank
           ELSE longer[CHOOSE i \in Places(longer, k + 1) : \A j \in Places(longer, k + 1) : j <= i].rank
      /\ LatestRank(rows, n) = IF Places(rows, k) = {} THEN NoRank
           ELSE rows[CHOOSE i \in Places(rows, k) : \A j \in Places(rows, k) : j <= i].rank
  BY <1>1 DEF LatestRank, LastRank
<1>4. CASE q.name = n /\ q.rank # NoRank
  <2> DEFINE m == k + 1
             P == Places(longer, m)
             c == CHOOSE i \in P : \A j \in P : j <= i
  <2>1. /\ m \in Nat /\ P \in SUBSET (1..m) /\ m \in P
        /\ LatestRank(longer, n) = IF P = {} THEN NoRank ELSE longer[c].rank
    <3>1. m \in Nat /\ P \in SUBSET (1..m)
      BY <1>1
    <3>2. m \in P
      BY <1>1, <1>4
    <3>3. LatestRank(longer, n) = IF P = {} THEN NoRank ELSE longer[c].rank
      BY <1>3, Zenon
    <3> QED
      BY <3>1, <3>2, <3>3, Zenon
  <2>2. longer[m] = q
    BY <1>1
  <2> HIDE DEF m, P
  <2>3. c \in P /\ m <= c
    <3>1. P # {}
      BY <2>1
    <3> QED
      BY <2>1, <3>1, LastPlace
  <2> HIDE DEF c
  <2>4. c = m
    BY <2>1, <2>3
  <2> QED
    BY <1>4, <2>1, <2>2, <2>4
<1>5. CASE q.name # n \/ q.rank = NoRank
  <2>1. Places(longer, k + 1) = Places(rows, k)
    BY <1>1, <1>2, <1>5
  <2> DEFINE S == Places(rows, k)
             c == CHOOSE i \in S : \A j \in S : j <= i
  <2>2. S # {} => c \in 1..k
    <3>1. S \in SUBSET (1..k)
      OBVIOUS
    <3> HIDE DEF S
    <3> QED
      BY <1>1, <3>1, LastPlace
  <2>3. /\ LatestRank(longer, n) = IF S = {} THEN NoRank ELSE longer[c].rank
        /\ LatestRank(rows, n) = IF S = {} THEN NoRank ELSE rows[c].rank
    BY <2>1, <1>3, Zenon
  <2>4. S # {} => longer[c] = rows[c]
    BY <2>2, <1>1
  <2>5. CASE S = {}
    BY <2>3, <2>5, <1>5, Zenon
  <2>6. CASE S # {}
    <3>1. longer[c].rank = rows[c].rank
      BY <2>4, <2>6
    <3> QED
      BY <2>3, <2>6, <3>1, <1>5, Zenon
  <2> HIDE DEF S
  <2> QED
    BY <2>5, <2>6
<1> QED
  BY <1>4, <1>5

-----------------------------------------------------------------------------
(* The types.                                                              *)

LEMMA EmptyRows == <<>> \in Seq(Sighting) /\ ToSet(<<>>) = {} /\ NamesIn(<<>>) = {}
BY EmptySeq DEF ToSet, NamesIn

LEMMA SightTypes ==
  ASSUME BookTypes, NEW w \in Writers, NEW n \in Names, Sight(w, n)
  PROVE  BookTypes'
<1>1. PICK u \in {NoUuid} \cup IF subject = "names" THEN {} ELSE {holder[n]},
           r \in {NoRank} \cup IF subject = "ranks" THEN Shown ELSE {} :
        /\ inbox' = [inbox EXCEPT ![w] = Append(@, [name |-> n, uuid |-> u, rank |-> r])]
        /\ met' = IF u = NoUuid THEN met ELSE met \cup {n}
        /\ said' = IF r = NoRank THEN said ELSE [said EXCEPT ![n] = r]
  BY DEF Sight
<1>2. u \in Accounts \cup {NoUuid} /\ r \in Shown \cup {NoRank}
  BY DEF BookTypes
<1>3. [name |-> n, uuid |-> u, rank |-> r] \in Sighting
  BY <1>2 DEF Sighting
<1>4. inbox' \in [Writers -> Seq(Sighting)]
  BY <1>1, <1>3, RowsAppended DEF BookTypes
<1>5. met' \subseteq Names /\ said' \in [Names -> Shown \cup {NoRank}]
  BY <1>1, <1>2 DEF BookTypes
<1>6. UNCHANGED <<holder, taken, doing, dict, ids, known, shown, book>>
  BY DEF Sight, cacheVars, tableVars
<1> QED
  BY <1>4, <1>5, <1>6 DEF BookTypes

LEMMA RenameTypes ==
  ASSUME BookTypes, NEW u \in Accounts, NEW n \in Names, Rename(u, n)
  PROVE  BookTypes'
<1>1. UNCHANGED <<inbox, taken, doing, dict, ids, known, shown, book, said>>
  BY DEF Rename, cacheVars, tableVars
<1>2. /\ holder' = [m \in Names |-> IF m = n THEN u ELSE IF holder[m] = u THEN NoUuid
                                     ELSE holder[m]]
      /\ met' \subseteq Names
  BY DEF Rename, BookTypes
<1>3. holder' \in [Names -> Accounts \cup {NoUuid}]
  BY <1>2 DEF BookTypes
<1>4. ASSUME NEW k \in Names, NEW m \in Names, holder'[k] = holder'[m], k # m
      PROVE  holder'[k] = NoUuid
  <2>1. NoUuid \notin Accounts
    BY BookAssumption DEF BookAssumption
  <2>2. holder[k] = holder[m] => holder[k] = NoUuid
    BY <1>4 DEF BookTypes
  <2> QED
    BY <1>2, <1>4, <2>1, <2>2
<1> QED
  BY <1>1, <1>2, <1>3, <1>4 DEF BookTypes

LEMMA DrainTypes ==
  ASSUME BookTypes, NEW w \in Writers, Drain(w)
  PROVE  BookTypes'
<1>1. UNCHANGED <<holder, dict, ids, known, shown, book, met, said>>
  BY DEF Drain, cacheVars, tableVars
<1>2. inbox' \in [Writers -> Seq(Sighting)] /\ taken' \in [Writers -> Seq(Sighting)]
  BY EmptyRows DEF Drain, BookTypes
<1>3. doing' \in [Writers -> Stops] /\ \A v \in Writers : doing'[v] = "idle" => taken'[v] = <<>>
  BY DEF Drain, Goes, Stops, BookTypes
<1> QED
  BY <1>1, <1>2, <1>3 DEF BookTypes

\* The names that the dictionary is given get ids.
LEMMA ResolveFacts ==
  ASSUME BookTypes, NEW w \in Writers, Resolve(w)
  PROVE  /\ dict' \in [Names -> Nat] /\ IsFiniteSet({n \in Names : dict'[n] # 0})
         /\ \A n \in Names : dict[n] # 0 => dict'[n] = dict[n]
         /\ \A n \in NamesIn(taken[w]) : ids[w][n] = 0 => dict'[n] # 0
         /\ ids' = [ids EXCEPT ![w] = [n \in Names |->
                      IF n \in NamesIn(taken[w]) /\ ids[w][n] = 0 THEN dict'[n] ELSE ids[w][n]]]
<1> DEFINE missing == {n \in NamesIn(taken[w]) : ids[w][n] = 0}
           S == {n \in missing : dict[n] = 0}
           new == SetToSeq(S)
           next == Cardinality({n \in Names : dict[n] # 0})
           Place(n) == CHOOSE i \in 1..Len(new) : new[i] = n
<1>1. /\ dict' = [n \in Names |-> IF Contains(new, n) THEN next + Place(n) ELSE dict[n]]
      /\ ids' = [ids EXCEPT ![w] =
                   [n \in Names |-> IF n \in missing THEN dict'[n] ELSE ids[w][n]]]
  BY DEF Resolve, BookTypes
<1>2. IsFiniteSet(S)
  <2>1. IsFiniteSet(DOMAIN taken[w])
    BY LenProperties, FS_Interval DEF BookTypes
  <2>2. IsFiniteSet(NamesIn(taken[w]))
    <3> DEFINE f == [i \in DOMAIN taken[w] |-> taken[w][i].name]
    <3>1. f \in Surjection(DOMAIN taken[w], NamesIn(taken[w]))
      BY DEF NamesIn, ToSet, Surjection
    <3> QED
      BY <2>1, <3>1, FS_Surjection
  <2>3. S \in SUBSET NamesIn(taken[w])
    OBVIOUS
  <2> QED
    BY <2>2, <2>3, FS_Subset
<1>3. Cardinality(S) \in Nat
  BY <1>2, FS_CardinalityType
<1>4. /\ Len(new) = Cardinality(S) /\ new \in [1..Cardinality(S) -> S]
      /\ \A n \in S : \E i \in 1..Cardinality(S) : new[i] = n
  <2> HIDE DEF S
  <2>1. ExistsBijection(1..Cardinality(S), S)
    BY <1>2, FS_CardinalityType
  <2>2. new \in Injection(1..Cardinality(S), S)
    <3>1. PICK f : f \in [1..Cardinality(S) -> S] /\ IsInjective(f)
      BY <2>1 DEF ExistsBijection, Bijection, Injection
    <3> QED
      BY <3>1 DEF SetToSeq, Injection
  <2>3. IsFiniteSet(1..Cardinality(S)) /\ Cardinality(1..Cardinality(S)) = Cardinality(S)
    BY <1>3, FS_Interval
  <2>4. new \in Surjection(1..Cardinality(S), S)
    BY <1>2, <2>2, <2>3, FS_Injection
  <2>5. new \in [1..Cardinality(S) -> S]
    BY <2>2 DEF Injection
  <2>6. new \in Seq(S) /\ Len(new) = Cardinality(S)
    BY <1>3, <2>5, LenProperties, SeqDef
  <2> QED
    BY <2>4, <2>5, <2>6 DEF Surjection
<1> HIDE DEF S, new
<1>5. \A n \in Names : Contains(new, n) <=> n \in S
  BY <1>4 DEF Contains
<1>6. next \in Nat
  BY FS_CardinalityType DEF BookTypes
<1>7. \A n \in S : Place(n) \in Nat /\ Place(n) >= 1
  BY <1>3, <1>4
<1> HIDE DEF next, Place
<1>8. \A n \in Names : dict'[n] = IF n \in S THEN next + Place(n) ELSE dict[n]
  BY <1>1, <1>5
<1>9. \A n \in Names : dict'[n] \in Nat
  <2>1. \A n \in Names : dict[n] \in Nat
    BY DEF BookTypes
  <2>2. \A n \in S : next + Place(n) \in Nat
    BY <1>6, <1>7
  <2> QED
    BY <1>8, <2>1, <2>2
<1>10. \A n \in NamesIn(taken[w]) : n \in Names
  <2>1. ToSet(taken[w]) \subseteq Sighting
    BY SeqRows DEF BookTypes
  <2> QED
    BY <2>1 DEF NamesIn, Sighting
<1>11. \A n \in S : dict'[n] # 0
  <2> TAKE n \in S
  <2>1. n \in Names
    BY <1>10 DEF S
  <2> QED
    BY <1>6, <1>7, <1>8, <2>1
<1>12. {n \in Names : dict'[n] # 0} \subseteq {n \in Names : dict[n] # 0} \cup S
  BY <1>8
<1>13. IsFiniteSet({n \in Names : dict'[n] # 0})
  <2>1. IsFiniteSet({n \in Names : dict[n] # 0} \cup S)
    BY <1>2, FS_Union DEF BookTypes
  <2> QED
    BY <1>12, <2>1, FS_Subset
<1>14. \A n \in NamesIn(taken[w]) : ids[w][n] = 0 => dict'[n] # 0
  BY <1>8, <1>10, <1>11 DEF S
<1>15. ids' = [ids EXCEPT ![w] = [n \in Names |->
                IF n \in NamesIn(taken[w]) /\ ids[w][n] = 0 THEN dict'[n] ELSE ids[w][n]]]
  BY <1>1
<1>16. \A n \in Names : dict[n] # 0 => dict'[n] = dict[n]
  BY <1>8 DEF S
<1>17. dict' \in [Names -> Nat]
  BY <1>1, <1>9
<1> QED
  BY <1>13, <1>14, <1>15, <1>16, <1>17

LEMMA ResolveTypes ==
  ASSUME BookTypes, NEW w \in Writers, Resolve(w)
  PROVE  BookTypes'
<1>1. UNCHANGED <<holder, inbox, taken, known, shown, book, met, said>>
  BY DEF Resolve, Keeps
<1>2. ids' \in [Writers -> [Names -> Nat]]
  <2>1. [n \in Names |-> IF n \in NamesIn(taken[w]) /\ ids[w][n] = 0 THEN dict'[n]
                         ELSE ids[w][n]] \in [Names -> Nat]
    <3>1. dict' \in [Names -> Nat]
      BY ResolveFacts
    <3>2. ids[w] \in [Names -> Nat]
      BY DEF BookTypes
    <3> QED
      BY <3>1, <3>2
  <2> QED
    BY <2>1, ResolveFacts DEF BookTypes
<1>3. doing' \in [Writers -> Stops] /\ \A v \in Writers : doing'[v] = "idle" => doing[v] = "idle"
  BY DEF Resolve, Goes, Stops, BookTypes
<1> QED
  BY <1>1, <1>2, <1>3, ResolveFacts DEF BookTypes

LEMMA WriteChatTypes ==
  ASSUME BookTypes, NEW w \in Writers, WriteChat(w)
  PROVE  BookTypes'
<1>1. UNCHANGED <<holder, inbox, taken, dict, ids, known, shown, book, met, said>>
  BY DEF WriteChat, Keeps, cacheVars
<1>2. doing' \in [Writers -> Stops] /\ \A v \in Writers : doing'[v] = "idle" => doing[v] = "idle"
  BY DEF WriteChat, Goes, Stops, BookTypes
<1> QED
  BY <1>1, <1>2 DEF BookTypes

LEMMA RemoveOthersTypes ==
  ASSUME BookTypes, NEW w \in Writers, RemoveOthers(w)
  PROVE  BookTypes'
<1>1. UNCHANGED <<holder, inbox, taken, dict, ids, known, shown, met, said>>
  BY DEF RemoveOthers, Keeps, cacheVars
<1>2. doing' \in [Writers -> Stops] /\ \A v \in Writers : doing'[v] = "idle" => doing[v] = "idle"
  BY DEF RemoveOthers, Goes, Stops, BookTypes
<1>3. book' \in [Uuids -> [name : Names \cup {NoPlayer}, rank : Shown \cup {NoRank}]]
  BY DEF RemoveOthers, Free, BookTypes
<1> QED
  BY <1>1, <1>2, <1>3 DEF BookTypes

\* What is to be stored is of a row's name, and under the uuid it has or one
\* that is made up.
LEMMA FreshFacts ==
  ASSUME BookTypes, NEW w \in Writers
  PROVE  /\ Fresh(w) \subseteq Names /\ NamesIn(taken[w]) \subseteq Names
         /\ \A r \in FreshRows(w) :
              /\ r[2] \in Fresh(w) /\ r[1] = UuidFor(taken[w], r[2])
              /\ r = <<r[1], r[2]>> /\ r[1] \in Uuids
         /\ \A n \in Fresh(w) : <<UuidFor(taken[w], n), n>> \in FreshRows(w)
         /\ \A n : Given(taken[w], n) \in Accounts \cup {NoUuid}
<1>1. taken[w] \in Seq(Sighting)
  BY DEF BookTypes
<1>2. ToSet(taken[w]) \subseteq Sighting
  BY <1>1, SeqRows
<1>3. NamesIn(taken[w]) \subseteq Names
  BY <1>2 DEF NamesIn, Sighting
<1>4. Fresh(w) \subseteq Names
  BY <1>3 DEF Fresh
<1>5. \A n : Given(taken[w], n) \in Accounts \cup {NoUuid}
  <2> TAKE n
  <2>1. CASE Given(taken[w], n) # NoUuid
    <3>1. PICK q \in ToSet(taken[w]) : q.uuid = Given(taken[w], n)
      BY <1>1, <2>1, GivenFacts
    <3> QED
      BY <1>2, <3>1 DEF Sighting
  <2> QED
    BY <2>1
<1>6. \A n \in Names : UuidFor(taken[w], n) \in Uuids
  BY <1>5 DEF UuidFor, Uuids
<1> HIDE DEF Fresh
<1>7. \A r \in FreshRows(w) : \E n \in Fresh(w) : r = <<UuidFor(taken[w], n), n>>
  BY DEF FreshRows
<1>8. \A n \in Fresh(w) : <<UuidFor(taken[w], n), n>> \in FreshRows(w)
  BY DEF FreshRows
<1> QED
  BY <1>3, <1>4, <1>5, <1>6, <1>7, <1>8

LEMMA AbandonFacts ==
  ASSUME BookTypes, NEW w \in Writers, Abandon(w)
  PROVE  /\ taken' \in [Writers -> Seq(Sighting)] /\ doing' \in [Writers -> Stops]
         /\ taken'[w] = <<>> /\ doing'[w] = "idle"
         /\ \A v \in Writers \ {w} : taken'[v] = taken[v] /\ doing'[v] = doing[v]
         /\ \A v \in Writers : doing'[v] = "idle" => taken'[v] = <<>>
BY EmptyRows DEF Abandon, Goes, Stops, BookTypes

\* What the INSERT does when it goes through, and when it does not.
Inserted(w) == {r \in FreshRows(w) : dict[r[2]] # 0}
InsertRefused(w) ==
  /\ Abandon(w)
  /\ spoiled' = spoiled \cup Losing(taken[w])
  /\ book' = book
InsertDone(w) ==
  /\ \A r \in Inserted(w) :
       /\ book'[r[1]].name = r[2] /\ book'[r[1]].rank = book[r[1]].rank
       /\ \A u \in Others(w) : book[u].name # r[2]
  /\ \A u \in Uuids : (\A r \in Inserted(w) : r[1] # u) => book'[u] = book[u]
  /\ doing' = [doing EXCEPT ![w] = "remember"]
  /\ taken' = taken /\ spoiled' = spoiled

LEMMA InsertFacts ==
  ASSUME BookTypes, NEW w \in Writers, InsertPlayers(w)
  PROVE  /\ InsertRefused(w) \/ InsertDone(w)
         /\ doing[w] = "insert"
         /\ book' \in [Uuids -> [name : Names \cup {NoPlayer}, rank : Shown \cup {NoRank}]]
         /\ UNCHANGED <<subject, holder, inbox, dict, ids, known, shown, worn, linked, met, said>>
<1> DEFINE Works ==
      /\ ~\E r \in Inserted(w), u \in Others(w) : book[u].name = r[2]
      /\ ~\E r, s \in Inserted(w) : r[1] = s[1] /\ r[2] # s[2]
      /\ book' = [u \in Uuids |->
                    IF \E r \in Inserted(w) : r[1] = u
                    THEN [book[u] EXCEPT !.name = (CHOOSE r \in Inserted(w) : r[1] = u)[2]]
                    ELSE book[u]]
      /\ doing' = [doing EXCEPT ![w] = "remember"]
      /\ taken' = taken /\ spoiled' = spoiled
<1>1. InsertRefused(w) \/ Works
  BY DEF InsertPlayers, InsertRefused, Inserted, Goes
<1>2. \A r \in Inserted(w) : r[1] \in Uuids /\ r[2] \in Names
  BY FreshFacts DEF Inserted
<1>3. ASSUME Works
      PROVE  /\ InsertDone(w)
             /\ book' \in [Uuids -> [name : Names \cup {NoPlayer}, rank : Shown \cup {NoRank}]]
  <2> HIDE DEF Inserted
  <2>1. \A r \in Inserted(w) : (CHOOSE s \in Inserted(w) : s[1] = r[1])[2] = r[2]
    BY <1>3
  <2>2. \A u \in Uuids : book[u] \in [name : Names \cup {NoPlayer}, rank : Shown \cup {NoRank}]
    BY DEF BookTypes
  <2>3. \A r \in Inserted(w) : book'[r[1]] = [book[r[1]] EXCEPT !.name = r[2]]
    BY <1>2, <1>3, <2>1
  <2>4. \A u \in Uuids : (\A r \in Inserted(w) : r[1] # u) => book'[u] = book[u]
    BY <1>3
  <2>5. \A u \in Uuids : book'[u] \in [name : Names \cup {NoPlayer}, rank : Shown \cup {NoRank}]
    <3> TAKE u \in Uuids
    <3>1. CASE \A r \in Inserted(w) : r[1] # u
      BY <2>2, <2>4, <3>1
    <3>2. ASSUME NEW r \in Inserted(w), r[1] = u
          PROVE  book'[u] \in [name : Names \cup {NoPlayer}, rank : Shown \cup {NoRank}]
      <4>1. book'[u] = [book[u] EXCEPT !.name = r[2]] /\ r[2] \in Names
        BY <1>2, <2>3, <3>2
      <4> QED
        BY <2>2, <4>1
    <3> QED
      BY <3>1, <3>2
  <2>6. \A r \in Inserted(w) : book'[r[1]].name = r[2] /\ book'[r[1]].rank = book[r[1]].rank
    BY <1>2, <2>2, <2>3
  <2>7. InsertDone(w)
    BY <1>3, <2>4, <2>6 DEF InsertDone
  <2>8. book' = [u \in Uuids |-> book'[u]]
    BY <1>3
  <2> QED
    BY <2>5, <2>7, <2>8
<1>4. InsertRefused(w) =>
        book' \in [Uuids -> [name : Names \cup {NoPlayer}, rank : Shown \cup {NoRank}]]
  BY DEF InsertRefused, BookTypes
<1>5. /\ doing[w] = "insert"
      /\ UNCHANGED <<subject, holder, inbox, dict, ids, known, shown, worn, linked, met, said>>
  BY DEF InsertPlayers, Keeps, cacheVars
<1> HIDE DEF Works
<1> QED
  BY <1>1, <1>3, <1>4, <1>5

LEMMA InsertPlayersTypes ==
  ASSUME BookTypes, NEW w \in Writers, InsertPlayers(w)
  PROVE  BookTypes'
<1>1. /\ taken' \in [Writers -> Seq(Sighting)] /\ doing' \in [Writers -> Stops]
      /\ \A v \in Writers : doing'[v] = "idle" => taken'[v] = <<>>
  <2>1. CASE InsertRefused(w)
    BY <2>1, AbandonFacts DEF InsertRefused
  <2>2. CASE InsertDone(w)
    BY <2>2 DEF InsertDone, BookTypes, Stops
  <2> QED
    BY <2>1, <2>2, InsertFacts
<1> QED
  BY <1>1, InsertFacts DEF BookTypes

LEMMA RememberTypes ==
  ASSUME BookTypes, NEW w \in Writers, Remember(w)
  PROVE  BookTypes'
<1>1. UNCHANGED <<holder, inbox, taken, dict, ids, shown, book, met, said>>
  BY DEF Remember, Keeps
<1>2. doing' \in [Writers -> Stops] /\ \A v \in Writers : doing'[v] = "idle" => doing[v] = "idle"
  BY DEF Remember, Goes, Stops, BookTypes
<1>3. known' \in [Writers -> [Names -> {"none", "made", "real"}]]
  BY DEF Remember, BookTypes
<1> QED
  BY <1>1, <1>2, <1>3 DEF BookTypes

\* A rank that is written is one that the batch shows.
LEMMA ChangedFacts ==
  ASSUME BookTypes, NEW w \in Writers, NEW n \in Names
  PROVE  /\ ChangedRank(w, n) \in Shown \cup {NoRank}
         /\ ChangedRank(w, n) # NoRank =>
              ChangedRank(w, n) \in RanksIn(taken[w], n) /\ ChangedRank(w, n) # shown[w][n]
         /\ ChangedRank(w, n) = NoRank => RanksIn(taken[w], n) \subseteq {shown[w][n]}
<1>1. taken[w] \in Seq(Sighting) /\ ToSet(taken[w]) \subseteq Sighting
  BY SeqRows DEF BookTypes
<1>2. RanksIn(taken[w], n) \subseteq Shown
  BY <1>1 DEF RanksIn, Sighting
<1>3. /\ ChangedRank(w, n) # NoRank =>
           ChangedRank(w, n) \in RanksIn(taken[w], n) \ {shown[w][n]}
      /\ ChangedRank(w, n) = NoRank => RanksIn(taken[w], n) \subseteq {shown[w][n]}
  BY <1>1, LastRankFacts DEF ChangedRank
<1> QED
  BY <1>2, <1>3

LEMMA WriteRanksFacts ==
  ASSUME BookTypes, NEW w \in Writers, WriteRanks(w)
  PROVE  /\ book' \in [Uuids -> [name : Names \cup {NoPlayer}, rank : Shown \cup {NoRank}]]
         /\ shown' \in [Writers -> [Names -> Shown \cup {NoRank}]]
         /\ \A u \in Uuids : book'[u].name = book[u].name
         /\ \A u \in Uuids : \A n \in Names : book[u].name = n =>
              book'[u].rank = IF ChangedRank(w, n) # NoRank THEN ChangedRank(w, n)
                              ELSE book[u].rank
<1> DEFINE changed == {n \in Names : ChangedRank(w, n) # NoRank}
<1>1. /\ book' = [u \in Uuids |->
                   IF book[u].name \in changed
                   THEN [book[u] EXCEPT !.rank = ChangedRank(w, book[u].name)] ELSE book[u]]
      /\ shown' = [shown EXCEPT ![w] = [n \in Names |->
                   IF n \in changed THEN ChangedRank(w, n) ELSE shown[w][n]]]
  BY DEF WriteRanks, BookTypes
<1>2. \A n \in Names : ChangedRank(w, n) \in Shown \cup {NoRank}
  BY ChangedFacts
<1>3. \A u \in Uuids : book[u] \in [name : Names \cup {NoPlayer}, rank : Shown \cup {NoRank}]
  BY DEF BookTypes
<1>4. shown' \in [Writers -> [Names -> Shown \cup {NoRank}]]
  BY <1>1, <1>2 DEF BookTypes
<1>5. ASSUME NEW u \in Uuids
      PROVE  /\ book'[u] \in [name : Names \cup {NoPlayer}, rank : Shown \cup {NoRank}]
             /\ book'[u].name = book[u].name
             /\ \A n \in Names : book[u].name = n =>
                  book'[u].rank = IF ChangedRank(w, n) # NoRank THEN ChangedRank(w, n)
                                  ELSE book[u].rank
  <2>1. CASE book[u].name \in changed
    <3>1. book'[u] = [book[u] EXCEPT !.rank = ChangedRank(w, book[u].name)]
      BY <1>1, <2>1
    <3> QED
      BY <1>2, <1>3, <2>1, <3>1
  <2>2. CASE book[u].name \notin changed
    <3>1. book'[u] = book[u]
      BY <1>1, <2>2
    <3> QED
      BY <1>3, <2>2, <3>1
  <2> QED
    BY <2>1, <2>2
<1>6. DOMAIN book' = Uuids /\ book' = [u \in Uuids |-> book'[u]]
  BY <1>1
<1> HIDE DEF changed
<1> QED
  BY <1>4, <1>5, <1>6

LEMMA WriteRanksTypes ==
  ASSUME BookTypes, NEW w \in Writers, WriteRanks(w)
  PROVE  BookTypes'
<1>1. UNCHANGED <<holder, inbox, dict, ids, known, met, said>> /\ Abandon(w)
  BY DEF WriteRanks, Keeps
<1> QED
  BY <1>1, AbandonFacts, WriteRanksFacts DEF BookTypes

LEMMA StatementFailsTypes ==
  ASSUME BookTypes, NEW w \in Writers, StatementFails(w)
  PROVE  BookTypes'
<1>1. UNCHANGED <<holder, inbox, dict, ids, known, shown, book, met, said>> /\ Abandon(w)
  BY DEF StatementFails, Keeps, cacheVars, tableVars
<1> QED
  BY <1>1, AbandonFacts DEF BookTypes

LEMMA ForgetsFacts ==
  ASSUME BookTypes, NEW w \in Writers, Forgets(w)
  PROVE  /\ inbox' \in [Writers -> Seq(Sighting)] /\ inbox'[w] = <<>>
         /\ ids' \in [Writers -> [Names -> Nat]]
         /\ known' \in [Writers -> [Names -> {"none", "made", "real"}]]
         /\ shown' \in [Writers -> [Names -> Shown \cup {NoRank}]]
         /\ \A n \in Names : ids'[w][n] = 0 /\ known'[w][n] = "none"
         /\ \A v \in Writers \ {w} : /\ inbox'[v] = inbox[v] /\ ids'[v] = ids[v]
                                     /\ known'[v] = known[v]
         /\ Abandon(w)
BY EmptyRows DEF Forgets, BookTypes

LEMMA RestartWriterTypes ==
  ASSUME BookTypes, NEW w \in Writers, RestartWriter(w)
  PROVE  BookTypes'
<1>1. UNCHANGED <<holder, dict, book, met, said>> /\ Forgets(w) /\ Abandon(w)
  BY ForgetsFacts DEF RestartWriter, tableVars
<1>2. /\ taken' \in [Writers -> Seq(Sighting)] /\ doing' \in [Writers -> Stops]
      /\ \A v \in Writers : doing'[v] = "idle" => taken'[v] = <<>>
  BY <1>1, AbandonFacts
<1>3. /\ inbox' \in [Writers -> Seq(Sighting)] /\ ids' \in [Writers -> [Names -> Nat]]
      /\ known' \in [Writers -> [Names -> {"none", "made", "real"}]]
      /\ shown' \in [Writers -> [Names -> Shown \cup {NoRank}]]
  BY <1>1, ForgetsFacts
<1> QED
  BY <1>1, <1>2, <1>3 DEF BookTypes

LEMMA ResetDatabaseTypes ==
  ASSUME BookTypes, NEW w \in Writers, ResetDatabase(w)
  PROVE  BookTypes'
<1>1. UNCHANGED <<holder, met, said>> /\ Forgets(w) /\ Abandon(w)
  BY ForgetsFacts DEF ResetDatabase
<1>2. dict' \in [Names -> Nat] /\ IsFiniteSet({n \in Names : dict'[n] # 0})
  <2>1. dict' = [n \in Names |-> 0]
    BY DEF ResetDatabase
  <2>2. {n \in Names : dict'[n] # 0} = {}
    BY <2>1
  <2> QED
    BY <2>1, <2>2, FS_EmptySet
<1>3. book' \in [Uuids -> [name : Names \cup {NoPlayer}, rank : Shown \cup {NoRank}]]
  BY DEF ResetDatabase, Free
<1>4. /\ taken' \in [Writers -> Seq(Sighting)] /\ doing' \in [Writers -> Stops]
      /\ \A v \in Writers : doing'[v] = "idle" => taken'[v] = <<>>
  BY <1>1, AbandonFacts
<1>5. /\ inbox' \in [Writers -> Seq(Sighting)] /\ ids' \in [Writers -> [Names -> Nat]]
      /\ known' \in [Writers -> [Names -> {"none", "made", "real"}]]
      /\ shown' \in [Writers -> [Names -> Shown \cup {NoRank}]]
  BY <1>1, ForgetsFacts
<1> QED
  BY <1>1, <1>2, <1>3, <1>4, <1>5 DEF BookTypes

-----------------------------------------------------------------------------
(* The dictionary, and the names that players had.                         *)

LEMMA IdsStay ==
  ASSUME BookTypes, IdsAgree, spoiled \subseteq spoiled', UNCHANGED <<dict, ids, linked>>,
         \A w \in Writers : doing'[w] \notin {"idle", "resolve"} =>
           doing[w] \notin {"idle", "resolve"} /\ taken'[w] = taken[w]
  PROVE  IdsAgree'
<1>1. \A w \in Writers, n \in Names \ spoiled' : ids'[w][n] # 0 => dict'[n] = ids'[w][n]
  BY DEF IdsAgree
<1>2. \A w \in Writers : doing'[w] \notin {"idle", "resolve"} =>
        \A n \in NamesIn(taken'[w]) : ids'[w][n] # 0
  BY DEF IdsAgree
<1>3. /\ linked' \subseteq Names \X (Nat \ {0})
      /\ \A l \in linked' : l[1] \notin spoiled' => dict'[l[1]] = l[2]
  BY DEF IdsAgree
<1> QED
  BY <1>1, <1>2, <1>3 DEF IdsAgree

LEMMA ResolveIds ==
  ASSUME BookTypes, IdsAgree, NEW w \in Writers, Resolve(w)
  PROVE  IdsAgree'
<1> DEFINE held == NamesIn(taken[w])
<1>1. UNCHANGED <<taken, linked, spoiled>> /\ doing' = [doing EXCEPT ![w] = "chat"]
  BY DEF Resolve, Keeps, Goes
<1>2. held \subseteq Names
  BY FreshFacts
<1>3. /\ \A n \in Names : ids'[w][n] = IF n \in held /\ ids[w][n] = 0 THEN dict'[n] ELSE ids[w][n]
      /\ \A v \in Writers \ {w} : ids'[v] = ids[v]
  <2>1. ids' = [ids EXCEPT ![w] = [n \in Names |->
                  IF n \in held /\ ids[w][n] = 0 THEN dict'[n] ELSE ids[w][n]]]
    BY ResolveFacts
  <2>2. DOMAIN ids = Writers
    BY DEF BookTypes
  <2> HIDE DEF held
  <2> QED
    BY <2>1, <2>2
<1>4. \A v \in Writers, n \in Names \ spoiled' : ids'[v][n] # 0 => dict'[n] = ids'[v][n]
  <2> TAKE v \in Writers, n \in Names \ spoiled'
  <2>1. ids[v][n] # 0 => dict'[n] = ids[v][n]
    BY <1>1, ResolveFacts DEF IdsAgree
  <2> QED
    BY <1>3, <2>1
<1>5. ASSUME NEW v \in Writers, doing'[v] \notin {"idle", "resolve"}, NEW n \in NamesIn(taken'[v])
      PROVE  ids'[v][n] # 0
  <2>1. CASE v = w
    BY <1>1, <1>2, <1>3, <2>1, ResolveFacts
  <2>2. CASE v # w
    BY <1>1, <1>3, <1>5, <2>2 DEF IdsAgree, BookTypes
  <2> QED
    BY <2>1, <2>2
<1>6. \A l \in linked' : l[1] \notin spoiled' => dict'[l[1]] = l[2]
  <2> TAKE l \in linked'
  <2>1. l[1] \in Names /\ l[2] # 0
    BY <1>1 DEF IdsAgree
  <2>2. l[1] \notin spoiled => dict[l[1]] = l[2]
    BY <1>1 DEF IdsAgree
  <2> QED
    BY <1>1, <2>1, <2>2, ResolveFacts
<1> QED
  BY <1>1, <1>4, <1>5, <1>6 DEF IdsAgree

LEMMA WriteChatIds ==
  ASSUME BookTypes, IdsAgree, NEW w \in Writers, WriteChat(w)
  PROVE  IdsAgree'
<1>1. /\ UNCHANGED <<taken, dict, ids, spoiled>>
      /\ doing[w] = "chat" /\ doing' = [doing EXCEPT ![w] = "remove"]
      /\ linked' = linked \cup {<<n, ids[w][n]>> : n \in NamesIn(taken[w])}
  BY DEF WriteChat, Keeps, Goes, cacheVars
<1>2. NamesIn(taken[w]) \subseteq Names
  BY FreshFacts
<1>3. \A n \in NamesIn(taken[w]) :
        /\ ids[w][n] \in Nat \ {0}
        /\ n \notin spoiled => dict[n] = ids[w][n]
  <2> TAKE n \in NamesIn(taken[w])
  <2>1. n \in Names /\ ids[w][n] \in Nat
    BY <1>2 DEF BookTypes
  <2>2. ids[w][n] # 0
    BY <1>1 DEF IdsAgree
  <2> QED
    BY <2>1, <2>2 DEF IdsAgree
<1>4. ASSUME NEW l \in linked'
      PROVE  l \in Names \X (Nat \ {0}) /\ (l[1] \notin spoiled => dict[l[1]] = l[2])
  <2>1. CASE l \in linked
    BY <2>1 DEF IdsAgree
  <2>2. ASSUME NEW n \in NamesIn(taken[w]), l = <<n, ids[w][n]>>
        PROVE  l \in Names \X (Nat \ {0}) /\ (l[1] \notin spoiled => dict[l[1]] = l[2])
    BY <1>2, <1>3, <2>2
  <2> QED
    BY <1>1, <2>1, <2>2
<1>5. \A v \in Writers : doing'[v] \notin {"idle", "resolve"} => doing[v] \notin {"idle", "resolve"}
  BY <1>1 DEF BookTypes
<1> QED
  BY <1>1, <1>4, <1>5 DEF IdsAgree

LEMMA RestartWriterIds ==
  ASSUME BookTypes, IdsAgree, NEW w \in Writers, RestartWriter(w)
  PROVE  IdsAgree'
<1>1. UNCHANGED <<dict, linked>> /\ spoiled \subseteq spoiled' /\ Forgets(w) /\ Abandon(w)
  BY ForgetsFacts DEF RestartWriter, tableVars
<1>2. \A v \in Writers, n \in Names \ spoiled' : ids'[v][n] # 0 => dict'[n] = ids'[v][n]
  <2> TAKE v \in Writers, n \in Names \ spoiled'
  <2>1. v = w => ids'[v][n] = 0
    BY <1>1, ForgetsFacts
  <2>2. v # w => ids'[v] = ids[v]
    BY <1>1, ForgetsFacts
  <2> QED
    BY <1>1, <2>1, <2>2 DEF IdsAgree
<1>3. \A v \in Writers : doing'[v] \notin {"idle", "resolve"} =>
        \A n \in NamesIn(taken'[v]) : ids'[v][n] # 0
  <2> TAKE v \in Writers
  <2>1. v = w => doing'[v] = "idle"
    BY <1>1, AbandonFacts
  <2>2. v # w => ids'[v] = ids[v] /\ taken'[v] = taken[v] /\ doing'[v] = doing[v]
    BY <1>1, AbandonFacts, ForgetsFacts
  <2> QED
    BY <2>1, <2>2 DEF IdsAgree
<1>4. \A l \in linked' : l[1] \notin spoiled' => dict'[l[1]] = l[2]
  BY <1>1 DEF IdsAgree
<1> QED
  BY <1>1, <1>2, <1>3, <1>4 DEF IdsAgree

LEMMA ResetDatabaseIds ==
  ASSUME BookTypes, IdsAgree, NEW w \in Writers, ResetDatabase(w)
  PROVE  IdsAgree'
<1>1. /\ linked' = {} /\ Forgets(w) /\ Abandon(w)
      /\ spoiled' = spoiled \cup {n \in Names : \E v \in Writers \ {w} :
                                  ids[v][n] # 0 \/ n \in NamesIn(taken[v])}
  BY ForgetsFacts DEF ResetDatabase
<1>2. \A v \in Writers, n \in Names \ spoiled' : ids'[v][n] = 0
  <2> TAKE v \in Writers, n \in Names \ spoiled'
  <2>1. v = w => ids'[v][n] = 0
    BY <1>1, ForgetsFacts
  <2>2. v # w => ids'[v] = ids[v] /\ ids[v][n] = 0
    BY <1>1, ForgetsFacts
  <2> QED
    BY <2>1, <2>2
<1>3. \A v \in Writers : doing'[v] \notin {"idle", "resolve"} =>
        \A n \in NamesIn(taken'[v]) : ids'[v][n] # 0
  <2> TAKE v \in Writers
  <2>1. v = w => doing'[v] = "idle"
    BY <1>1, AbandonFacts
  <2>2. v # w => ids'[v] = ids[v] /\ taken'[v] = taken[v] /\ doing'[v] = doing[v]
    BY <1>1, AbandonFacts, ForgetsFacts
  <2> QED
    BY <2>1, <2>2 DEF IdsAgree
<1> QED
  BY <1>1, <1>2, <1>3 DEF IdsAgree

LEMMA FreshSame ==
  ASSUME NEW w, taken'[w] = taken[w], known'[w] = known[w]
  PROVE  FreshRows(w)' = FreshRows(w) /\ Fresh(w)' = Fresh(w)
<1>1. Fresh(w)' = Fresh(w)
  BY DEF Fresh
<1> QED
  BY <1>1 DEF FreshRows

LEMMA StillStoring ==
  ASSUME NEW w \in Writers, doing'[w] = "remember", taken'[w] = taken[w], known'[w] = known[w]
  PROVE  FreshRows(w) \subseteq Storing'
<1>1. FreshRows(w)' \subseteq Storing'
  BY DEF Storing, FreshRows, Fresh
<1> QED
  BY <1>1, FreshSame

\* A writer that is about to store names in player_names goes on to, has done
\* so, or the names are excepted.
LEMMA WornStays ==
  ASSUME BookTypes, WornSoon, worn \subseteq worn', spoiled \subseteq spoiled',
         \A w \in Writers : doing[w] = "remember" =>
           \/ FreshRows(w) \subseteq worn' \cup Storing'
           \/ Fresh(w) \subseteq spoiled',
         \A u \in Uuids : \A n \in Names \ spoiled' : book'[u].name = n =>
           book[u].name = n \/ <<u, n>> \in Storing'
  PROVE  WornSoon'
<1> SUFFICES ASSUME NEW u \in Uuids, NEW n \in Names \ spoiled', book'[u].name = n
             PROVE  <<u, n>> \in worn' \cup Storing'
  BY DEF WornSoon
<1>1. CASE book[u].name = n
  <2>1. CASE <<u, n>> \in worn
    BY <2>1
  <2>2. ASSUME NEW w \in Writers, doing[w] = "remember", <<u, n>> \in FreshRows(w)
        PROVE  <<u, n>> \in worn' \cup Storing'
    <3>1. n \in Fresh(w)
      BY <2>2, FreshFacts
    <3> QED
      BY <2>2, <3>1
  <2>3. <<u, n>> \in worn \cup Storing
    BY <1>1 DEF WornSoon
  <2> QED
    BY <2>1, <2>2, <2>3 DEF Storing
<1> QED
  BY <1>1

LEMMA ResetDatabaseWorn ==
  ASSUME NEW w \in Writers, ResetDatabase(w)
  PROVE  WornSoon'
<1>1. \A u \in Uuids : book'[u].name = NoPlayer
  BY DEF ResetDatabase, Free
<1>2. NoPlayer \notin Names
  BY BookAssumption DEF BookAssumption
<1> QED
  BY <1>1, <1>2 DEF WornSoon

\* Steps outside the statements about names.
LEMMA NamesStay ==
  ASSUME NamesInv, spoiled \subseteq spoiled',
         UNCHANGED <<doing, taken, known, dict, ids, linked, worn, book>>
  PROVE  IdsAgree' /\ WornSoon'
<1>1. IdsAgree'
  BY IdsStay DEF NamesInv
<1>2. \A w \in Writers : doing[w] = "remember" => FreshRows(w) \subseteq Storing'
  BY StillStoring
<1>3. WornSoon'
  BY <1>2, WornStays DEF NamesInv
<1> QED
  BY <1>1, <1>3

LEMMA SightNames ==
  ASSUME NamesInv, NEW w \in Writers, NEW n \in Names, Sight(w, n)
  PROVE  IdsAgree' /\ WornSoon'
<1>1. spoiled \subseteq spoiled'
  BY DEF Sight
<1>2. UNCHANGED <<doing, taken, known, dict, ids, linked, worn, book>>
  BY DEF Sight, cacheVars, tableVars
<1> QED
  BY <1>1, <1>2, NamesStay

LEMMA RenameNames ==
  ASSUME NamesInv, NEW u \in Accounts, NEW n \in Names, Rename(u, n)
  PROVE  IdsAgree' /\ WornSoon'
<1>1. spoiled \subseteq spoiled'
  BY DEF Rename
<1>2. UNCHANGED <<doing, taken, known, dict, ids, linked, worn, book>>
  BY DEF Rename, cacheVars, tableVars
<1> QED
  BY <1>1, <1>2, NamesStay

LEMMA DrainNames ==
  ASSUME NamesInv, NEW w \in Writers, Drain(w)
  PROVE  IdsAgree' /\ WornSoon'
<1>1. UNCHANGED <<known, dict, ids, linked, worn, book, spoiled>>
  BY DEF Drain, cacheVars, tableVars
<1>2. /\ doing[w] = "idle" /\ doing'[w] = "resolve"
      /\ \A v \in Writers \ {w} : doing'[v] = doing[v] /\ taken'[v] = taken[v]
  BY DEF Drain, Goes, NamesInv, BookTypes
<1>3. \A v \in Writers : doing'[v] \notin {"idle", "resolve"} =>
        doing[v] \notin {"idle", "resolve"} /\ taken'[v] = taken[v]
  BY <1>2
<1>4. \A v \in Writers : doing[v] = "remember" => FreshRows(v) \subseteq Storing'
  BY <1>1, <1>2, StillStoring
<1> QED
  BY <1>1, <1>3, <1>4, IdsStay, WornStays DEF NamesInv

LEMMA ResolveNames ==
  ASSUME NamesInv, NEW w \in Writers, Resolve(w)
  PROVE  IdsAgree' /\ WornSoon'
<1>1. UNCHANGED <<taken, known, worn, book, spoiled>>
  BY DEF Resolve, Keeps
<1>2. doing[w] = "resolve" /\ \A v \in Writers \ {w} : doing'[v] = doing[v]
  BY DEF Resolve, Goes, NamesInv, BookTypes
<1>3. \A v \in Writers : doing[v] = "remember" => FreshRows(v) \subseteq Storing'
  BY <1>1, <1>2, StillStoring
<1> QED
  BY <1>1, <1>3, ResolveIds, WornStays DEF NamesInv

LEMMA WriteChatNames ==
  ASSUME NamesInv, NEW w \in Writers, WriteChat(w)
  PROVE  IdsAgree' /\ WornSoon'
<1>1. UNCHANGED <<taken, known, worn, book, spoiled>>
  BY DEF WriteChat, Keeps, cacheVars
<1>2. doing[w] = "chat" /\ \A v \in Writers \ {w} : doing'[v] = doing[v]
  BY DEF WriteChat, Goes, NamesInv, BookTypes
<1>3. \A v \in Writers : doing[v] = "remember" => FreshRows(v) \subseteq Storing'
  BY <1>1, <1>2, StillStoring
<1> QED
  BY <1>1, <1>3, WriteChatIds, WornStays DEF NamesInv

LEMMA RemoveOthersNames ==
  ASSUME NamesInv, NEW w \in Writers, RemoveOthers(w)
  PROVE  IdsAgree' /\ WornSoon'
<1>1. UNCHANGED <<taken, known, dict, ids, linked, worn>> /\ spoiled \subseteq spoiled'
  BY DEF RemoveOthers, Keeps, cacheVars
<1>2. doing[w] = "remove" /\ \A v \in Writers \ {w} : doing'[v] = doing[v]
  BY DEF RemoveOthers, Goes, NamesInv, BookTypes
<1>3. \A v \in Writers : doing[v] = "remember" => FreshRows(v) \subseteq Storing'
  BY <1>1, <1>2, StillStoring
<1>4. \A u \in Uuids : \A n \in Names \ spoiled' : book'[u].name = n => book[u].name = n
  <2>1. NoPlayer \notin Names
    BY BookAssumption DEF BookAssumption
  <2>2. book' = [u \in Uuids |-> IF u \in Others(w) THEN Free ELSE book[u]]
    BY DEF RemoveOthers
  <2> QED
    BY <2>1, <2>2 DEF Free
<1>5. \A v \in Writers : doing'[v] \notin {"idle", "resolve"} => doing[v] \notin {"idle", "resolve"}
  BY <1>2
<1> QED
  BY <1>1, <1>3, <1>4, <1>5, IdsStay, WornStays DEF NamesInv

LEMMA InsertPlayersNames ==
  ASSUME NamesInv, NEW w \in Writers, InsertPlayers(w)
  PROVE  IdsAgree' /\ WornSoon'
<1>1. UNCHANGED <<known, dict, ids, linked, worn>> /\ doing[w] = "insert"
  BY InsertFacts DEF NamesInv
<1>2. \A v \in Writers \ {w} : doing'[v] = doing[v] /\ taken'[v] = taken[v]
  <2>1. CASE InsertRefused(w)
    BY <2>1, AbandonFacts DEF InsertRefused, NamesInv
  <2>2. CASE InsertDone(w)
    BY <2>2 DEF InsertDone, NamesInv, BookTypes
  <2> QED
    BY <2>1, <2>2, InsertFacts DEF NamesInv
<1>3. spoiled \subseteq spoiled'
  BY InsertFacts DEF InsertRefused, InsertDone, NamesInv
<1>4. IdsAgree'
  <2>1. doing'[w] = "idle" \/ taken'[w] = taken[w]
    BY InsertFacts, AbandonFacts DEF InsertRefused, InsertDone, NamesInv
  <2> QED
    BY <1>1, <1>2, <1>3, <2>1, IdsStay DEF NamesInv
<1>5. \A v \in Writers : doing[v] = "remember" => FreshRows(v) \subseteq Storing'
  BY <1>1, <1>2, StillStoring
<1>6. ASSUME NEW u \in Uuids, NEW n \in Names \ spoiled', book'[u].name = n
      PROVE  book[u].name = n \/ <<u, n>> \in Storing'
  <2>1. CASE InsertRefused(w)
    BY <1>6, <2>1 DEF InsertRefused
  <2>2. ASSUME InsertDone(w), NEW r \in Inserted(w), r[1] = u
        PROVE  <<u, n>> \in Storing'
    <3>1. book'[u].name = r[2] /\ r \in FreshRows(w)
      BY <2>2 DEF InsertDone, Inserted
    <3>2. <<u, n>> \in FreshRows(w)
      BY <1>6, <2>2, <3>1, FreshFacts DEF NamesInv
    <3>3. doing'[w] = "remember" /\ taken' = taken
      BY <2>2 DEF InsertDone, NamesInv, BookTypes
    <3> QED
      BY <1>1, <3>2, <3>3, StillStoring
  <2>3. CASE InsertDone(w) /\ \A r \in Inserted(w) : r[1] # u
    BY <1>6, <2>3 DEF InsertDone
  <2> QED
    BY <2>1, <2>2, <2>3, InsertFacts DEF NamesInv
<1>7. WornSoon'
  BY <1>1, <1>3, <1>5, <1>6, WornStays DEF NamesInv
<1> QED
  BY <1>4, <1>7

LEMMA RememberNames ==
  ASSUME NamesInv, NEW w \in Writers, Remember(w)
  PROVE  IdsAgree' /\ WornSoon'
<1>1. UNCHANGED <<taken, dict, ids, linked, book, spoiled>> /\ worn' = worn \cup FreshRows(w)
  BY DEF Remember, Keeps
<1>2. /\ doing[w] = "remember"
      /\ \A v \in Writers \ {w} : doing'[v] = doing[v] /\ known'[v] = known[v]
  BY DEF Remember, Goes, NamesInv, BookTypes
<1>3. ASSUME NEW v \in Writers, doing[v] = "remember"
      PROVE  FreshRows(v) \subseteq worn' \cup Storing'
  <2>1. CASE v = w
    BY <1>1, <2>1
  <2>2. CASE v # w
    BY <1>1, <1>2, <1>3, <2>2, StillStoring
  <2> QED
    BY <2>1, <2>2
<1>4. \A v \in Writers : doing'[v] \notin {"idle", "resolve"} => doing[v] \notin {"idle", "resolve"}
  BY <1>2
<1> QED
  BY <1>1, <1>3, <1>4, IdsStay, WornStays DEF NamesInv

\* A writer gives up its batch.
LEMMA AbandonNames ==
  ASSUME NamesInv, NEW w \in Writers, Abandon(w), spoiled \subseteq spoiled',
         doing[w] = "remember" => Fresh(w) \subseteq spoiled',
         \A u \in Uuids : book'[u].name = book[u].name,
         UNCHANGED <<known, dict, ids, linked, worn>>
  PROVE  IdsAgree' /\ WornSoon'
<1>1. /\ doing'[w] = "idle"
      /\ \A v \in Writers \ {w} : doing'[v] = doing[v] /\ taken'[v] = taken[v]
  BY AbandonFacts DEF NamesInv
<1>2. \A v \in Writers : doing'[v] \notin {"idle", "resolve"} =>
        doing[v] \notin {"idle", "resolve"} /\ taken'[v] = taken[v]
  BY <1>1
<1>3. ASSUME NEW v \in Writers, doing[v] = "remember"
      PROVE  FreshRows(v) \subseteq worn' \cup Storing' \/ Fresh(v) \subseteq spoiled'
  <2>1. CASE v = w
    BY <1>3, <2>1
  <2>2. CASE v # w
    BY <1>1, <1>3, <2>2, StillStoring
  <2> QED
    BY <2>1, <2>2
<1> QED
  BY <1>2, <1>3, IdsStay, WornStays DEF NamesInv

LEMMA WriteRanksNames ==
  ASSUME NamesInv, NEW w \in Writers, WriteRanks(w)
  PROVE  IdsAgree' /\ WornSoon'
<1>1. /\ UNCHANGED <<known, dict, ids, linked, worn>> /\ spoiled \subseteq spoiled'
      /\ Abandon(w) /\ doing[w] = "rank"
  BY DEF WriteRanks
<1>2. \A u \in Uuids : book'[u].name = book[u].name
  BY WriteRanksFacts DEF NamesInv
<1> QED
  BY <1>1, <1>2, AbandonNames

LEMMA LostFacts ==
  ASSUME BookTypes, NEW w \in Writers, NEW rows, doing[w] = "remember"
  PROVE  Fresh(w) \subseteq LostWith(w, rows)
BY DEF LostWith, Fresh

LEMMA StatementFailsNames ==
  ASSUME NamesInv, NEW w \in Writers, StatementFails(w)
  PROVE  IdsAgree' /\ WornSoon'
<1>1. /\ UNCHANGED <<known, dict, ids, linked, worn, book>> /\ Abandon(w)
      /\ spoiled' = spoiled \cup LostWith(w, taken[w])
  BY DEF StatementFails, cacheVars, tableVars
<1>2. doing[w] = "remember" => Fresh(w) \subseteq spoiled'
  BY <1>1, LostFacts DEF NamesInv
<1> QED
  BY <1>1, <1>2, AbandonNames

LEMMA RestartWriterNames ==
  ASSUME NamesInv, NEW w \in Writers, RestartWriter(w)
  PROVE  IdsAgree' /\ WornSoon'
<1>1. /\ UNCHANGED <<worn, book>> /\ Abandon(w) /\ Forgets(w)
      /\ spoiled' = spoiled \cup LostWith(w, inbox[w] \o taken[w])
  BY DEF RestartWriter, tableVars, Forgets
<1>2. ASSUME NEW v \in Writers, doing[v] = "remember"
      PROVE  FreshRows(v) \subseteq worn' \cup Storing' \/ Fresh(v) \subseteq spoiled'
  <2>1. CASE v = w
    BY <1>1, <1>2, <2>1, LostFacts DEF NamesInv
  <2>2. CASE v # w
    <3>1. doing'[v] = doing[v] /\ taken'[v] = taken[v] /\ known'[v] = known[v]
      BY <1>1, <2>2, AbandonFacts, ForgetsFacts DEF NamesInv
    <3> QED
      BY <1>2, <3>1, StillStoring
  <2> QED
    BY <2>1, <2>2
<1>3. IdsAgree'
  BY RestartWriterIds DEF NamesInv
<1> QED
  BY <1>1, <1>2, <1>3, WornStays DEF NamesInv

LEMMA ResetDatabaseNames ==
  ASSUME NamesInv, NEW w \in Writers, ResetDatabase(w)
  PROVE  IdsAgree' /\ WornSoon'
BY ResetDatabaseIds, ResetDatabaseWorn DEF NamesInv

LEMMA NamesStart == BookInit => NamesInv
<1> SUFFICES ASSUME BookInit
             PROVE  BookTypes /\ IdsAgree /\ WornSoon
  BY DEF NamesInv
<1>1. BookTypes
  <2>1. {n \in Names : dict[n] # 0} = {}
    BY DEF BookInit
  <2>2. IsFiniteSet({n \in Names : dict[n] # 0})
    BY <2>1, FS_EmptySet
  <2>3. /\ holder \in [Names -> Accounts \cup {NoUuid}]
        /\ \A n, m \in Names : holder[n] = holder[m] => n = m \/ holder[n] = NoUuid
    BY BookAssumption DEF BookInit, BookAssumption
  <2> QED
    BY <2>2, <2>3, EmptyRows DEF BookInit, BookTypes, Stops, Free
<1>2. NoPlayer \notin Names
  BY BookAssumption DEF BookAssumption
<1> QED
  BY <1>1, <1>2 DEF BookInit, IdsAgree, WornSoon, Free

-----------------------------------------------------------------------------
(* The rows on their way, and what a subject leaves out.                   *)

LEMMA FlightTypes ==
  ASSUME BookTypes, NEW w \in Writers
  PROVE  InFlight(w) \subseteq Sighting
BY SeqRows DEF InFlight, BookTypes

\* Only Sight adds a row.
Sighted(w, n, u, r) ==
  /\ inbox' = [inbox EXCEPT ![w] = Append(@, [name |-> n, uuid |-> u, rank |-> r])]
  /\ taken' = taken
  /\ u # NoUuid => u = holder[n] /\ r = NoRank /\ subject # "names"
  /\ r # NoRank => r \in Shown /\ subject = "ranks"
  /\ met' = IF u = NoUuid THEN met ELSE met \cup {n}
  /\ said' = IF r = NoRank THEN said ELSE [said EXCEPT ![n] = r]
  /\ spoiled' = IF \E v \in Writers \ {w} : \E q \in InFlight(v) :
                     q.name = n /\ {q.rank, r} \cap Shown # {}
                THEN spoiled \cup {n} ELSE spoiled

LEMMA SightFacts ==
  ASSUME BookTypes, NEW w \in Writers, NEW n \in Names, Sight(w, n)
  PROVE  /\ \E u \in Accounts \cup {NoUuid}, r \in Shown \cup {NoRank} : Sighted(w, n, u, r)
         /\ UNCHANGED <<subject, holder, doing, dict, ids, known, shown, book, worn, linked>>
<1>1. PICK u \in {NoUuid} \cup IF subject = "names" THEN {} ELSE {holder[n]},
           r \in {NoRank} \cup IF subject = "ranks" THEN Shown ELSE {} :
        /\ u # NoUuid => r = NoRank
        /\ inbox' = [inbox EXCEPT ![w] = Append(@, [name |-> n, uuid |-> u, rank |-> r])]
        /\ met' = IF u = NoUuid THEN met ELSE met \cup {n}
        /\ said' = IF r = NoRank THEN said ELSE [said EXCEPT ![n] = r]
        /\ spoiled' = IF \E v \in Writers \ {w} : \E q \in InFlight(v) :
                           q.name = n /\ {q.rank, r} \cap Shown # {}
                      THEN spoiled \cup {n} ELSE spoiled
  BY DEF Sight
<1>2. UNCHANGED <<subject, holder, taken, doing, dict, ids, known, shown, book, worn, linked>>
  BY DEF Sight, cacheVars, tableVars
<1>3. u \in Accounts \cup {NoUuid} /\ r \in Shown \cup {NoRank}
  BY DEF BookTypes
<1>4. /\ u # NoUuid => u = holder[n] /\ r = NoRank /\ subject # "names"
      /\ r # NoRank => r \in Shown /\ subject = "ranks"
  BY <1>1
<1>5. Sighted(w, n, u, r)
  BY <1>1, <1>2, <1>4 DEF Sighted
<1> QED
  BY <1>2, <1>3, <1>5

LEMMA ReachFacts ==
  ASSUME BookTypes, NEW w \in Writers, NEW n \in Names,
         NEW u \in Accounts \cup {NoUuid}, NEW r \in Shown \cup {NoRank}, Sighted(w, n, u, r),
         NEW q, q = [name |-> n, uuid |-> u, rank |-> r]
  PROVE  /\ q \in Sighting /\ q.name = n /\ q.uuid = u /\ q.rank = r
         /\ inbox'[w] = Append(inbox[w], q)
         /\ ToSet(inbox'[w]) \cup ToSet(taken'[w]) = InFlight(w) \cup {q}
         /\ \A v \in Writers \ {w} :
              inbox'[v] = inbox[v] /\ ToSet(inbox'[v]) \cup ToSet(taken'[v]) = InFlight(v)
<1>1. q \in Sighting /\ q.name = n /\ q.uuid = u /\ q.rank = r
  BY DEF Sighting
<1>2. /\ inbox'[w] = Append(inbox[w], q) /\ \A v \in Writers \ {w} : inbox'[v] = inbox[v]
      /\ taken' = taken
  BY DEF Sighted, BookTypes
<1>3. ToSet(inbox'[w]) = ToSet(inbox[w]) \cup {q}
  BY <1>1, <1>2, RowsAppended DEF BookTypes
<1>4. ToSet(inbox'[w]) \cup ToSet(taken'[w]) = InFlight(w) \cup {q}
  BY <1>2, <1>3 DEF InFlight
<1>5. \A v \in Writers \ {w} : ToSet(inbox'[v]) \cup ToSet(taken'[v]) = InFlight(v)
  BY <1>2 DEF InFlight
<1> QED
  BY <1>1, <1>2, <1>4, <1>5

\* The other steps move rows or lose them.
Working(w) ==
  Resolve(w) \/ WriteChat(w) \/ RemoveOthers(w) \/ Remember(w)

LEMMA WorkingFacts ==
  ASSUME BookTypes, NEW w \in Writers, Working(w)
  PROVE  /\ UNCHANGED <<subject, holder, inbox, taken, met, said, shown>>
         /\ \A v \in Writers : doing'[v] = "idle" <=> doing[v] = "idle"
BY DEF Working, Resolve, WriteChat, RemoveOthers, Remember, Keeps, Goes, cacheVars, BookTypes

LEMMA DrainFacts ==
  ASSUME BookTypes, NEW w \in Writers, Drain(w)
  PROVE  /\ doing[w] = "idle" /\ taken[w] = <<>> /\ doing'[w] = "resolve"
         /\ inbox'[w] = <<>> /\ taken'[w] = inbox[w]
         /\ \A v \in Writers \ {w} : /\ doing'[v] = doing[v]
                                     /\ taken'[v] = taken[v] /\ inbox'[v] = inbox[v]
         /\ UNCHANGED <<subject, holder, cacheVars, tableVars, met, said, spoiled>>
BY DEF Drain, Goes, BookTypes

LEMMA FlightDrains ==
  ASSUME BookTypes, NEW w \in Writers, Drain(w)
  PROVE  \A v \in Writers : ToSet(inbox'[v]) \cup ToSet(taken'[v]) = InFlight(v)
<1> TAKE v \in Writers
<1>1. CASE v = w
  BY <1>1, DrainFacts, EmptyRows DEF InFlight
<1>2. CASE v # w
  BY <1>2, DrainFacts DEF InFlight
<1> QED
  BY <1>1, <1>2

LEMMA FlightAbandons ==
  ASSUME BookTypes, NEW w \in Writers, Abandon(w),
         inbox'[w] = inbox[w] \/ inbox'[w] = <<>>,
         \A v \in Writers \ {w} : inbox'[v] = inbox[v]
  PROVE  /\ \A v \in Writers : ToSet(inbox'[v]) \cup ToSet(taken'[v]) \subseteq InFlight(v)
         /\ \A v \in Writers \ {w} : ToSet(inbox'[v]) \cup ToSet(taken'[v]) = InFlight(v)
<1>1. ToSet(taken'[w]) = {} /\ ToSet(inbox'[w]) \subseteq ToSet(inbox[w])
  BY AbandonFacts, EmptyRows
<1>2. \A v \in Writers \ {w} : taken'[v] = taken[v]
  BY AbandonFacts
<1> QED
  BY <1>1, <1>2 DEF InFlight

\* A uuid made up is not an account's, and is one name's.
LEMMA MadeUpFacts ==
  /\ \A n \in Names : MadeUp(n) \notin Accounts \cup {NoUuid} /\ MadeUp(n) \in Uuids
  /\ \A m, n \in Names : MadeUp(m) = MadeUp(n) => m = n
  /\ Accounts \subseteq Uuids
  /\ NoUuid \notin Accounts /\ NoRank \notin Shown /\ NoPlayer \notin Names
<1>1. \A n \in Names : MadeUp(n) \notin Accounts \cup {NoUuid}
  BY MadeUpAssumption DEF MadeUpAssumption
<1>2. (\A n \in Names : MadeUp(n) \in Uuids) /\ Accounts \subseteq Uuids
  BY DEF Uuids
<1>3. \A m, n \in Names : MadeUp(m) = MadeUp(n) => m = n
  BY DEF MadeUp
<1>4. NoUuid \notin Accounts /\ NoRank \notin Shown /\ NoPlayer \notin Names
  BY BookAssumption DEF BookAssumption
<1> QED
  BY <1>1, <1>2, <1>3, <1>4

LEMMA OnlyStays ==
  ASSUME OnlySubject, UNCHANGED <<subject, holder>>, met' \subseteq met, said' = said,
         \A v \in Writers : ToSet(inbox'[v]) \cup ToSet(taken'[v]) \subseteq InFlight(v),
         subject = "names" => \A v \in Writers, n \in Names :
           known'[v][n] = "real" => known[v][n] = "real",
         subject = "ranks" => \A u \in Uuids :
           \/ book'[u].name = book[u].name
           \/ book'[u].name \in Names =>
                u \in {MadeUp(book'[u].name), holder[book'[u].name]}
  PROVE  OnlySubject'
<1>1. subject = "names" =>
        /\ met' = {}
        /\ \A w \in Writers : /\ \A n \in Names : known'[w][n] # "real"
                              /\ \A q \in ToSet(inbox'[w]) \cup ToSet(taken'[w]) : q.uuid = NoUuid
  BY DEF OnlySubject
<1>2. subject # "ranks" =>
        /\ \A n \in Names : said'[n] = NoRank
        /\ \A w \in Writers : \A q \in ToSet(inbox'[w]) \cup ToSet(taken'[w]) : q.rank = NoRank
  BY DEF OnlySubject
<1>3. subject = "ranks" =>
        /\ \A u \in Uuids : book'[u].name \in Names =>
             u \in {MadeUp(book'[u].name), holder'[book'[u].name]}
        /\ \A w \in Writers : \A q \in ToSet(inbox'[w]) \cup ToSet(taken'[w]) :
             q.uuid \in {NoUuid, holder'[q.name]}
  BY DEF OnlySubject
<1> QED
  BY <1>1, <1>2, <1>3 DEF OnlySubject, InFlight

LEMMA SightOnly ==
  ASSUME BookTypes, OnlySubject, NEW w \in Writers, NEW n \in Names, Sight(w, n)
  PROVE  OnlySubject'
<1>1. PICK u \in Accounts \cup {NoUuid}, r \in Shown \cup {NoRank} : Sighted(w, n, u, r)
  BY SightFacts
<1>2. UNCHANGED <<subject, holder, known, book>>
  BY SightFacts
<1>q. PICK q : q = [name |-> n, uuid |-> u, rank |-> r]
  OBVIOUS
<1>3. /\ q.name = n /\ q.uuid = u /\ q.rank = r
      /\ \A v \in Writers : \A s \in ToSet(inbox'[v]) \cup ToSet(taken'[v]) :
           s = q \/ s \in InFlight(v)
  <2>1. /\ q.name = n /\ q.uuid = u /\ q.rank = r
        /\ ToSet(inbox'[w]) \cup ToSet(taken'[w]) = InFlight(w) \cup {q}
        /\ \A v \in Writers \ {w} : ToSet(inbox'[v]) \cup ToSet(taken'[v]) = InFlight(v)
    BY <1>1, <1>q, ReachFacts
  <2> QED
    BY <2>1
<1>4. subject = "names" =>
        /\ met' = {}
        /\ \A v \in Writers : /\ \A m \in Names : known'[v][m] # "real"
                              /\ \A s \in ToSet(inbox'[v]) \cup ToSet(taken'[v]) : s.uuid = NoUuid
  BY <1>1, <1>2, <1>3 DEF OnlySubject, Sighted
<1>5. subject # "ranks" =>
        /\ \A m \in Names : said'[m] = NoRank
        /\ \A v \in Writers : \A s \in ToSet(inbox'[v]) \cup ToSet(taken'[v]) : s.rank = NoRank
  BY <1>1, <1>3 DEF OnlySubject, Sighted
<1>6. subject = "ranks" =>
        \A v \in Writers : \A s \in ToSet(inbox'[v]) \cup ToSet(taken'[v]) :
          s.uuid \in {NoUuid, holder[s.name]}
  BY <1>1, <1>3 DEF OnlySubject, Sighted
<1> QED
  BY <1>2, <1>4, <1>5, <1>6 DEF OnlySubject, InFlight

LEMMA RenameOnly ==
  ASSUME BookTypes, OnlySubject, NEW u \in Accounts, NEW n \in Names, Rename(u, n)
  PROVE  OnlySubject'
<1>1. /\ subject = "uuids" /\ subject' = subject
      /\ UNCHANGED <<inbox, taken, said>>
  BY DEF Rename
<1> QED
  BY <1>1 DEF OnlySubject, InFlight

LEMMA InsertPlayersOnly ==
  ASSUME BookTypes, OnlySubject, NEW w \in Writers, InsertPlayers(w)
  PROVE  OnlySubject'
<1>1. UNCHANGED <<subject, holder, inbox, known, met, said>>
  BY InsertFacts
<1>2. \A v \in Writers : ToSet(inbox'[v]) \cup ToSet(taken'[v]) \subseteq InFlight(v)
  <2>1. CASE InsertRefused(w)
    BY <1>1, <2>1, FlightAbandons DEF InsertRefused
  <2>2. CASE InsertDone(w)
    BY <1>1, <2>2 DEF InsertDone, InFlight
  <2> QED
    BY <2>1, <2>2, InsertFacts
<1>3. ASSUME subject = "ranks", NEW u \in Uuids, book'[u].name # book[u].name
      PROVE  book'[u].name \in Names /\ u \in {MadeUp(book'[u].name), holder[book'[u].name]}
  <2>1. InsertDone(w)
    BY <1>3, InsertFacts DEF InsertRefused
  <2>2. PICK r \in Inserted(w) : r[1] = u
    BY <1>3, <2>1 DEF InsertDone
  <2>3. book'[u].name = r[2]
    BY <2>1, <2>2 DEF InsertDone
  <2>4. r[2] \in Names /\ u = UuidFor(taken[w], r[2])
    BY <2>2, FreshFacts DEF Inserted
  <2>5. CASE Given(taken[w], r[2]) = NoUuid
    BY <2>3, <2>4, <2>5 DEF UuidFor
  <2>6. CASE Given(taken[w], r[2]) # NoUuid
    <3>1. PICK q \in ToSet(taken[w]) : q.name = r[2] /\ q.uuid = Given(taken[w], r[2])
      BY <2>6, GivenFacts DEF BookTypes
    <3>2. q.uuid \in {NoUuid, holder[q.name]}
      BY <1>3, <3>1 DEF OnlySubject, InFlight
    <3> QED
      BY <2>3, <2>4, <2>6, <3>1, <3>2 DEF UuidFor
  <2> QED
    BY <2>5, <2>6
<1> QED
  BY <1>1, <1>2, <1>3, OnlyStays

LEMMA RememberOnly ==
  ASSUME BookTypes, OnlySubject, NEW w \in Writers, Remember(w)
  PROVE  OnlySubject'
<1>1. UNCHANGED <<subject, holder, inbox, taken, met, said, book>>
  BY DEF Remember, Keeps
<1>2. \A v \in Writers : ToSet(inbox'[v]) \cup ToSet(taken'[v]) \subseteq InFlight(v)
  BY <1>1 DEF InFlight
<1>3. ASSUME subject = "names", NEW v \in Writers, NEW n \in Names, known'[v][n] = "real"
      PROVE  known[v][n] = "real"
  <2>1. CASE v = w
    <3>1. Given(taken[w], n) = NoUuid
      <4>1. ASSUME Given(taken[w], n) # NoUuid
            PROVE  FALSE
        <5>1. PICK q \in ToSet(taken[w]) : q.name = n /\ q.uuid = Given(taken[w], n)
          BY <4>1, GivenFacts DEF BookTypes
        <5> QED
          BY <1>3, <4>1, <5>1 DEF OnlySubject, InFlight
      <4> QED
        BY <4>1
    <3>2. known'[w][n] = IF n \notin Fresh(w) THEN known[w][n]
                         ELSE IF Given(taken[w], n) = NoUuid THEN "made" ELSE "real"
      BY DEF Remember, BookTypes
    <3> QED
      BY <1>3, <2>1, <3>1, <3>2
  <2>2. CASE v # w
    BY <1>3, <2>2 DEF Remember, BookTypes
  <2> QED
    BY <2>1, <2>2
<1> QED
  BY <1>1, <1>2, <1>3, OnlyStays

LEMMA OtherOnly ==
  ASSUME BookTypes, OnlySubject, NEW w \in Writers,
         \/ Drain(w) \/ Resolve(w) \/ WriteChat(w) \/ RemoveOthers(w) \/ WriteRanks(w)
         \/ StatementFails(w) \/ RestartWriter(w) \/ ResetDatabase(w)
  PROVE  OnlySubject'
<1>1. CASE Drain(w)
  <2>1. UNCHANGED <<subject, holder, known, book, met, said>>
    BY <1>1, DrainFacts DEF cacheVars, tableVars
  <2> QED
    BY <1>1, <2>1, FlightDrains, OnlyStays
<1>2. CASE Resolve(w) \/ WriteChat(w)
  <2>1. UNCHANGED <<subject, holder, known, book, met, said, inbox, taken>>
    BY <1>2 DEF Resolve, WriteChat, Keeps, cacheVars
  <2>2. \A v \in Writers : ToSet(inbox'[v]) \cup ToSet(taken'[v]) \subseteq InFlight(v)
    BY <2>1 DEF InFlight
  <2> QED
    BY <2>1, <2>2, OnlyStays
<1>3. CASE RemoveOthers(w)
  <2>1. UNCHANGED <<subject, holder, known, met, said, inbox, taken>>
    BY <1>3 DEF RemoveOthers, Keeps, cacheVars
  <2>2. \A v \in Writers : ToSet(inbox'[v]) \cup ToSet(taken'[v]) \subseteq InFlight(v)
    BY <2>1 DEF InFlight
  <2>3. \A u \in Uuids : book'[u].name = book[u].name \/ book'[u].name \notin Names
    BY <1>3, MadeUpFacts DEF RemoveOthers, Free
  <2> QED
    BY <2>1, <2>2, <2>3, OnlyStays
<1>4. CASE WriteRanks(w)
  <2>1. UNCHANGED <<subject, holder, known, met, said, inbox>> /\ Abandon(w)
    BY <1>4 DEF WriteRanks, Keeps
  <2>2. \A v \in Writers : ToSet(inbox'[v]) \cup ToSet(taken'[v]) \subseteq InFlight(v)
    BY <2>1, FlightAbandons
  <2>3. \A u \in Uuids : book'[u].name = book[u].name
    BY <1>4, WriteRanksFacts
  <2> QED
    BY <2>1, <2>2, <2>3, OnlyStays
<1>5. CASE StatementFails(w)
  <2>1. UNCHANGED <<subject, holder, known, met, said, inbox, book>> /\ Abandon(w)
    BY <1>5 DEF StatementFails, Keeps, cacheVars, tableVars
  <2>2. \A v \in Writers : ToSet(inbox'[v]) \cup ToSet(taken'[v]) \subseteq InFlight(v)
    BY <2>1, FlightAbandons
  <2> QED
    BY <2>1, <2>2, OnlyStays
<1>6. CASE RestartWriter(w)
  <2>1. UNCHANGED <<subject, holder, met, said, book>> /\ Forgets(w)
    BY <1>6 DEF RestartWriter, tableVars
  <2>2. \A v \in Writers : ToSet(inbox'[v]) \cup ToSet(taken'[v]) \subseteq InFlight(v)
    BY <2>1, FlightAbandons, ForgetsFacts
  <2>3. \A v \in Writers, n \in Names : known'[v][n] = "real" => known[v][n] = "real"
    BY <2>1, ForgetsFacts
  <2> QED
    BY <2>1, <2>2, <2>3, OnlyStays
<1>7. CASE ResetDatabase(w)
  <2>1. UNCHANGED <<subject, holder, met, said>> /\ Forgets(w) /\ subject = "names"
    BY <1>7 DEF ResetDatabase
  <2>2. \A v \in Writers : ToSet(inbox'[v]) \cup ToSet(taken'[v]) \subseteq InFlight(v)
    BY <2>1, FlightAbandons, ForgetsFacts
  <2>3. \A v \in Writers, n \in Names : known'[v][n] = "real" => known[v][n] = "real"
    BY <2>1, ForgetsFacts
  <2> QED
    BY <2>1, <2>2, <2>3, OnlyStays
<1> QED
  BY <1>1, <1>2, <1>3, <1>4, <1>5, <1>6, <1>7

-----------------------------------------------------------------------------
(* The uuids.                                                              *)

LEMMA GivenStays ==
  ASSUME UuidsInv, spoiled \subseteq spoiled', UNCHANGED <<holder, met>>,
         \A v \in Writers : ToSet(inbox'[v]) \cup ToSet(taken'[v]) \subseteq InFlight(v)
  PROVE  \A w \in Writers : \A q \in ToSet(inbox'[w]) \cup ToSet(taken'[w]) :
           q.uuid # NoUuid =>
             /\ q.name \in spoiled' \/ holder'[q.name] = NoUuid
                  \/ (holder'[q.name] = q.uuid /\ q.name \in met')
             /\ \A n \in Names \ spoiled' : holder'[n] = q.uuid => n = q.name
<1> TAKE w \in Writers
<1> TAKE q \in ToSet(inbox'[w]) \cup ToSet(taken'[w])
<1> HAVE q.uuid # NoUuid
<1>1. q \in InFlight(w)
  OBVIOUS
<1>2. GivenRight(q)
  BY <1>1 DEF UuidsInv, UuidsRight
<1> QED
  BY <1>2 DEF GivenRight

\* The five parts of UuidsRight after a step that changes no holder.
LEMMA UuidsStay ==
  ASSUME UuidsInv, spoiled \subseteq spoiled', UNCHANGED <<holder, met>>,
         \A v \in Writers : ToSet(inbox'[v]) \cup ToSet(taken'[v]) \subseteq InFlight(v),
         \A n \in met \ spoiled' : book[holder[n]].name = n => book'[holder[n]].name = n,
         \A v \in Writers, n \in Names \ spoiled' : known'[v][n] = "real" =>
           known[v][n] = "real" \/ n \in Stored',
         \A v \in Writers : doing'[v] \in {"remember", "rank"} =>
           \/ doing[v] \in {"remember", "rank"} /\ taken'[v] = taken[v]
           \/ \A q \in ToSet(taken'[v]) : q.uuid # NoUuid => q.name \in Stored' \cup spoiled',
         \A v \in Writers : \A q \in InFlight(v) : q.uuid # NoUuid =>
           q \in ToSet(inbox'[v]) \cup ToSet(taken'[v]) \/ q.name \in Stored' \cup spoiled'
  PROVE  UuidsRight'
<1>1. Stored \ spoiled' \subseteq Stored'
  BY DEF Stored
<1>2. \A n \in met' : holder'[n] # NoUuid
  BY DEF UuidsInv, UuidsRight
<1>3. \A w \in Writers : \A q \in ToSet(inbox'[w]) \cup ToSet(taken'[w]) :
        q.uuid # NoUuid =>
          /\ q.name \in spoiled' \/ holder'[q.name] = NoUuid
               \/ (holder'[q.name] = q.uuid /\ q.name \in met')
          /\ \A n \in Names \ spoiled' : holder'[n] = q.uuid => n = q.name
  BY GivenStays
<1>4. \A w \in Writers, n \in Names \ spoiled' : known'[w][n] = "real" => n \in Stored'
  BY <1>1 DEF UuidsInv, UuidsRight
<1>5. ASSUME NEW w \in Writers, doing'[w] \in {"remember", "rank"},
             NEW q \in ToSet(taken'[w]), q.uuid # NoUuid
      PROVE  q.name \in Stored' \cup spoiled'
  <2>1. CASE doing[w] \in {"remember", "rank"} /\ taken'[w] = taken[w]
    <3>1. q.name \in Stored \cup spoiled
      BY <1>5, <2>1 DEF UuidsInv, UuidsRight
    <3> QED
      BY <1>1, <3>1
  <2> QED
    BY <1>5, <2>1
<1>6. ASSUME NEW n \in met' \ spoiled'
      PROVE  n \in Stored' \cup OnTheWay'
  <2>1. n \in Names /\ n \in Stored \cup OnTheWay
    BY <1>6 DEF UuidsInv, UuidsRight, NamesInv, BookTypes
  <2>2. CASE n \in Stored
    BY <1>1, <1>6, <2>2
  <2>3. CASE n \in OnTheWay
    <3>1. PICK v \in Writers : \E q \in InFlight(v) : q.name = n /\ q.uuid # NoUuid
      BY <2>3 DEF OnTheWay
    <3>2. PICK q \in InFlight(v) : q.name = n /\ q.uuid # NoUuid
      BY <3>1
    <3>3. CASE q \in ToSet(inbox'[v]) \cup ToSet(taken'[v])
      BY <2>1, <3>2, <3>3 DEF OnTheWay, InFlight
    <3>4. CASE q.name \in Stored' \cup spoiled'
      BY <1>6, <3>2, <3>4
    <3> QED
      BY <3>2, <3>3, <3>4
  <2> QED
    BY <2>1, <2>2, <2>3
<1> HIDE DEF Stored
<1> QED
  BY <1>2, <1>3, <1>4, <1>5, <1>6 DEF UuidsRight, GivenRight, InFlight

LEMMA SightUuids ==
  ASSUME UuidsInv, NEW w \in Writers, NEW n \in Names, Sight(w, n)
  PROVE  UuidsRight'
<1>1. PICK u \in Accounts \cup {NoUuid}, r \in Shown \cup {NoRank} : Sighted(w, n, u, r)
  BY SightFacts DEF UuidsInv, NamesInv
<1>2. UNCHANGED <<holder, doing, taken, known, book>>
  BY SightFacts, <1>1 DEF UuidsInv, NamesInv, Sighted
<1>q. PICK q : q = [name |-> n, uuid |-> u, rank |-> r]
  OBVIOUS
<1>3. /\ q.name = n /\ q.uuid = u
      /\ ToSet(inbox'[w]) \cup ToSet(taken'[w]) = InFlight(w) \cup {q}
      /\ \A v \in Writers \ {w} : ToSet(inbox'[v]) \cup ToSet(taken'[v]) = InFlight(v)
  BY <1>1, <1>q, ReachFacts DEF UuidsInv, NamesInv
<1>4. /\ spoiled \subseteq spoiled' /\ met \subseteq met' /\ met' \subseteq met \cup {n}
      /\ u = NoUuid => met' = met
      /\ u # NoUuid => u = holder[n] /\ n \in met'
  BY <1>1 DEF Sighted
<1>5. Stored \subseteq Stored'
  BY <1>2, <1>4 DEF Stored
<1>6. \A m \in met' : holder'[m] # NoUuid
  BY <1>2, <1>4 DEF UuidsInv, UuidsRight
<1>7. ASSUME NEW v \in Writers, NEW s \in ToSet(inbox'[v]) \cup ToSet(taken'[v]), s.uuid # NoUuid
      PROVE  /\ s.name \in spoiled' \/ holder'[s.name] = NoUuid
                  \/ (holder'[s.name] = s.uuid /\ s.name \in met')
             /\ \A m \in Names \ spoiled' : holder'[m] = s.uuid => m = s.name
  <2>1. CASE s \in InFlight(v)
    <3>1. GivenRight(s)
      BY <1>7, <2>1 DEF UuidsInv, UuidsRight
    <3> QED
      BY <1>2, <1>4, <3>1 DEF GivenRight
  <2>2. CASE s = q
    BY <1>2, <1>3, <1>4, <1>7, <2>2 DEF UuidsInv, NamesInv, BookTypes
  <2> QED
    BY <1>3, <2>1, <2>2
<1>8. \A v \in Writers, m \in Names \ spoiled' : known'[v][m] = "real" => m \in Stored'
  BY <1>2, <1>4, <1>5 DEF UuidsInv, UuidsRight
<1>9. \A v \in Writers : doing'[v] \in {"remember", "rank"} =>
        \A s \in ToSet(taken'[v]) : s.uuid # NoUuid => s.name \in Stored' \cup spoiled'
  BY <1>2, <1>4, <1>5 DEF UuidsInv, UuidsRight
<1>10. ASSUME NEW m \in met' \ spoiled'
       PROVE  m \in Stored' \cup OnTheWay'
  <2>0. m \in Names
    BY <1>4 DEF UuidsInv, NamesInv, BookTypes
  <2>1. CASE m = n /\ u # NoUuid
    BY <1>3, <2>1 DEF OnTheWay, InFlight
  <2>2. CASE ~(m = n /\ u # NoUuid)
    <3>1. m \in Stored \cup OnTheWay
      BY <1>4, <2>2 DEF UuidsInv, UuidsRight
    <3>2. CASE m \in OnTheWay
      <4>1. PICK v \in Writers : \E s \in InFlight(v) : s.name = m /\ s.uuid # NoUuid
        BY <3>2 DEF OnTheWay
      <4>2. \E s \in ToSet(inbox'[v]) \cup ToSet(taken'[v]) : s.name = m /\ s.uuid # NoUuid
        BY <1>3, <4>1
      <4> QED
        BY <2>0, <4>2 DEF OnTheWay, InFlight
    <3> QED
      BY <1>5, <3>1, <3>2
  <2> QED
    BY <2>1, <2>2
<1> QED
  BY <1>6, <1>7, <1>8, <1>9, <1>10 DEF UuidsRight, GivenRight, InFlight

LEMMA RenameUuids ==
  ASSUME UuidsInv, NEW u \in Accounts, NEW n \in Names, Rename(u, n)
  PROVE  UuidsRight'
<1>1. /\ holder' = [m \in Names |-> IF m = n THEN u ELSE IF holder[m] = u THEN NoUuid
                                     ELSE holder[m]]
      /\ met' = met \ {m \in Names : m = n \/ holder[m] = u}
      /\ UNCHANGED <<inbox, taken, doing, known, book>>
      /\ spoiled \subseteq spoiled'
      /\ (\E w \in Writers : known[w][n] = "real") => n \in spoiled'
      /\ (\E w \in Writers : \E q \in InFlight(w) :
            q.uuid = u \/ (q.name = n /\ q.uuid # NoUuid)) => n \in spoiled'
  BY DEF Rename, cacheVars, tableVars
<1>2. u # NoUuid /\ met \subseteq Names
  BY MadeUpFacts DEF UuidsInv, NamesInv, BookTypes
<1>3. Stored \ {n} \subseteq Stored'
  BY <1>1 DEF Stored
<1>4. \A m \in met' : holder'[m] # NoUuid /\ m # n /\ holder[m] # u /\ m \in met /\ m \in Names
  BY <1>1, <1>2 DEF UuidsInv, UuidsRight
<1>5. ASSUME NEW v \in Writers, NEW s \in InFlight(v), s.uuid # NoUuid
      PROVE  /\ s.name \in spoiled' \/ holder'[s.name] = NoUuid
                  \/ (holder'[s.name] = s.uuid /\ s.name \in met')
             /\ \A m \in Names \ spoiled' : holder'[m] = s.uuid => m = s.name
  <2>1. GivenRight(s) /\ s.name \in Names
    BY <1>5, FlightTypes DEF UuidsInv, UuidsRight, NamesInv, Sighting
  <2>2. s.uuid = u \/ s.name = n => n \in spoiled'
    BY <1>1, <1>5
  <2>3. ASSUME NEW m \in Names \ spoiled', holder'[m] = s.uuid
        PROVE  m = s.name
    <3>1. m # n
      BY <1>1, <2>2, <2>3
    <3>2. holder[m] = s.uuid
      BY <1>1, <1>5, <2>3, <3>1
    <3> QED
      BY <1>1, <2>1, <3>2 DEF GivenRight
  <2>4. ASSUME s.name \notin spoiled', holder'[s.name] # NoUuid
        PROVE  holder'[s.name] = s.uuid /\ s.name \in met'
    <3>1. s.name # n
      BY <2>2, <2>4
    <3>2. holder'[s.name] = holder[s.name] /\ holder[s.name] # u
      BY <1>1, <2>1, <2>4, <3>1
    <3> QED
      BY <1>1, <2>1, <2>4, <3>1, <3>2 DEF GivenRight
  <2> QED
    BY <2>3, <2>4
<1>6. \A v \in Writers, m \in Names \ spoiled' : known'[v][m] = "real" => m \in Stored'
  BY <1>1, <1>3 DEF UuidsInv, UuidsRight
<1>7. ASSUME NEW v \in Writers, doing'[v] \in {"remember", "rank"},
             NEW s \in ToSet(taken'[v]), s.uuid # NoUuid
      PROVE  s.name \in Stored' \cup spoiled'
  <2>1. s.name \in Stored \cup spoiled
    BY <1>1, <1>7 DEF UuidsInv, UuidsRight
  <2>2. s.name = n => n \in spoiled'
    BY <1>1, <1>7 DEF InFlight
  <2> QED
    BY <1>1, <1>3, <2>1, <2>2
<1>8. OnTheWay' = OnTheWay
  BY <1>1 DEF OnTheWay, InFlight
<1>9. met' \ spoiled' \subseteq Stored' \cup OnTheWay'
  BY <1>1, <1>3, <1>4, <1>8 DEF UuidsInv, UuidsRight
<1> QED
  BY <1>1, <1>4, <1>5, <1>6, <1>7, <1>9 DEF UuidsRight, GivenRight, InFlight

LEMMA ByWriterUuids ==
  ASSUME UuidsInv, NEW w \in Writers, Drain(w) \/ Resolve(w) \/ WriteChat(w)
  PROVE  UuidsRight'
<1>1. UNCHANGED <<holder, met, known, book, spoiled>>
  BY DEF Drain, Resolve, WriteChat, Keeps, cacheVars, tableVars
<1>2. \A v \in Writers : ToSet(inbox'[v]) \cup ToSet(taken'[v]) = InFlight(v)
  <2>1. CASE Drain(w)
    BY <2>1, FlightDrains DEF UuidsInv, NamesInv
  <2>2. CASE Resolve(w) \/ WriteChat(w)
    BY <2>2 DEF Resolve, WriteChat, Keeps, InFlight
  <2> QED
    BY <2>1, <2>2
<1>3. \A v \in Writers : doing'[v] \in {"remember", "rank"} =>
        doing[v] \in {"remember", "rank"} /\ taken'[v] = taken[v]
  BY DEF Drain, Resolve, WriteChat, Keeps, Goes, UuidsInv, NamesInv, BookTypes
<1> QED
  BY <1>1, <1>2, <1>3, UuidsStay

\* A row's uuid is what touch_players takes, if the name is not excepted.
LEMMA GivenHolds ==
  ASSUME UuidsInv, NEW w \in Writers, NEW n \in Names \ spoiled, Given(taken[w], n) # NoUuid
  PROVE  /\ holder[n] = NoUuid \/ (holder[n] = Given(taken[w], n) /\ n \in met)
         /\ \A m \in Names \ spoiled : holder[m] = Given(taken[w], n) => m = n
<1>1. PICK q \in ToSet(taken[w]) : q.name = n /\ q.uuid = Given(taken[w], n)
  BY GivenFacts DEF UuidsInv, NamesInv, BookTypes
<1>2. GivenRight(q)
  BY <1>1 DEF UuidsInv, UuidsRight, InFlight
<1> QED
  BY <1>1, <1>2 DEF GivenRight

LEMMA RemoveOthersUuids ==
  ASSUME UuidsInv, NEW w \in Writers, RemoveOthers(w)
  PROVE  UuidsRight'
<1>1. /\ UNCHANGED <<holder, met, known, inbox, taken>>
      /\ book' = [u \in Uuids |-> IF u \in Others(w) THEN Free ELSE book[u]]
      /\ spoiled' = spoiled \cup {n \in Fresh(w) : \E u \in Others(w) : book[u].name = n /\
                  (book[u].rank # NoRank \/ (IsReal(u) /\ Given(taken[w], n) = NoUuid))}
  BY DEF RemoveOthers, Keeps, cacheVars
<1>2. BookTypes
  BY DEF UuidsInv, NamesInv
<1>3. ASSUME NEW n \in met \ spoiled', book[holder[n]].name = n
      PROVE  book'[holder[n]].name = n
  <2>1. n \in Names /\ holder[n] \in Accounts /\ holder[n] \in Uuids
    BY <1>2, MadeUpFacts DEF UuidsInv, UuidsRight, BookTypes
  <2>2. ASSUME holder[n] \in Others(w)
        PROVE  FALSE
    <3>1. PICK r \in FreshRows(w) : book[holder[n]].name = r[2] /\ holder[n] # r[1]
      BY <2>2 DEF Others
    <3>2. n \in Fresh(w) /\ r[1] = UuidFor(taken[w], n)
      BY <1>2, <1>3, <3>1, FreshFacts
    <3>3. Given(taken[w], n) # NoUuid
      BY <1>1, <1>3, <2>1, <2>2, <3>2 DEF IsReal
    <3>4. holder[n] = Given(taken[w], n)
      BY <1>1, <2>1, <3>3, GivenHolds, MadeUpFacts
    <3> QED
      BY <3>1, <3>2, <3>3, <3>4 DEF UuidFor
  <2> QED
    BY <1>1, <1>3, <2>1, <2>2
<1>4. ASSUME NEW v \in Writers, doing'[v] \in {"remember", "rank"},
             ~(doing[v] \in {"remember", "rank"} /\ taken'[v] = taken[v]),
             NEW q \in ToSet(taken'[v]), q.uuid # NoUuid
      PROVE  q.name \in Stored' \cup spoiled'
  <2>1. v = w /\ Fresh(w) = {}
    BY <1>1, <1>2, <1>4 DEF RemoveOthers, Goes, BookTypes
  <2>2. q \in ToSet(taken[w]) /\ q.name \in NamesIn(taken[w]) /\ q.name \in Names
    BY <1>1, <1>2, <1>4, <2>1, FreshFacts DEF NamesIn
  <2>3. Given(taken[w], q.name) # NoUuid
    BY <1>2, <1>4, <2>2, GivenFacts DEF BookTypes
  <2>4. known[w][q.name] = "real"
    BY <1>2, <2>1, <2>2, <2>3 DEF Fresh, BookTypes
  <2>5. q.name \in Stored \cup spoiled
    BY <2>2, <2>4 DEF UuidsInv, UuidsRight
  <2>6. Stored \ spoiled' \subseteq Stored'
    BY <1>1, <1>3 DEF Stored
  <2> QED
    BY <1>1, <2>5, <2>6
<1>5. \A v \in Writers : ToSet(inbox'[v]) \cup ToSet(taken'[v]) = InFlight(v)
  BY <1>1 DEF InFlight
<1> QED
  BY <1>1, <1>3, <1>4, <1>5, UuidsStay

\* A name's id is in the dictionary when its row is inserted, which joins it.
LEMMA FreshIsInserted ==
  ASSUME NamesInv, NEW w \in Writers, doing[w] = "insert", NEW n \in Fresh(w) \ spoiled
  PROVE  <<UuidFor(taken[w], n), n>> \in Inserted(w)
<1>1. n \in Names /\ n \in NamesIn(taken[w]) /\ <<UuidFor(taken[w], n), n>> \in FreshRows(w)
  BY FreshFacts DEF NamesInv, Fresh
<1>2. ids[w][n] # 0 /\ dict[n] = ids[w][n]
  BY <1>1 DEF NamesInv, IdsAgree
<1> QED
  BY <1>1, <1>2 DEF Inserted

LEMMA InsertDoneUuids ==
  ASSUME UuidsInv, NEW w \in Writers, InsertPlayers(w), InsertDone(w)
  PROVE  UuidsRight'
<1>1. UNCHANGED <<holder, met, known, inbox, taken, spoiled>> /\ doing[w] = "insert"
  BY InsertFacts DEF InsertDone, UuidsInv, NamesInv
<1>2. BookTypes
  BY DEF UuidsInv, NamesInv
<1>3. ASSUME NEW n \in met \ spoiled, book[holder[n]].name = n
      PROVE  book'[holder[n]].name = n
  <2>1. n \in Names /\ holder[n] \in Accounts /\ holder[n] \in Uuids
    BY <1>2, MadeUpFacts DEF UuidsInv, UuidsRight, BookTypes
  <2>2. ASSUME NEW r \in Inserted(w), r[1] = holder[n]
        PROVE  r[2] = n
    <3>1. r[2] \in Names /\ r[1] = UuidFor(taken[w], r[2])
      BY <1>2, FreshFacts DEF Inserted
    <3>2. Given(taken[w], r[2]) = r[1]
      BY <2>1, <2>2, <3>1, MadeUpFacts DEF UuidFor
    <3>3. PICK q \in ToSet(taken[w]) : q.name = r[2] /\ q.uuid = r[1]
      <4>1. taken[w] \in Seq(Sighting)
        BY <1>2 DEF BookTypes
      <4>2. Given(taken[w], r[2]) # NoUuid
        BY <2>1, <2>2, <3>2, MadeUpFacts
      <4> QED
        BY <3>2, <4>1, <4>2, GivenFacts
    <3>4. GivenRight(q)
      BY <2>1, <2>2, <3>3, MadeUpFacts DEF UuidsInv, UuidsRight, InFlight
    <3> QED
      BY <2>1, <2>2, <3>3, <3>4 DEF GivenRight
  <2>3. CASE \A r \in Inserted(w) : r[1] # holder[n]
    BY <1>3, <2>1, <2>3 DEF InsertDone
  <2> QED
    BY <2>2, <2>3 DEF InsertDone
<1>4. Stored \ spoiled \subseteq Stored'
  BY <1>1, <1>3 DEF Stored
<1>5. ASSUME NEW q \in ToSet(taken[w]), q.uuid # NoUuid, q.name \notin spoiled
      PROVE  q.name \in Stored'
  <2>1. q.name \in NamesIn(taken[w]) /\ q.name \in Names
    BY <1>2, <1>5, FreshFacts DEF NamesIn
  <2>2. Given(taken[w], q.name) # NoUuid
    BY <1>2, <1>5, <2>1, GivenFacts DEF BookTypes
  <2>3. CASE q.name \notin Fresh(w)
    <3>1. known[w][q.name] = "real"
      BY <1>2, <2>1, <2>2, <2>3 DEF Fresh, BookTypes
    <3>2. q.name \in Stored
      BY <1>5, <2>1, <3>1 DEF UuidsInv, UuidsRight
    <3> QED
      BY <1>4, <1>5, <3>2
  <2>4. CASE q.name \in Fresh(w)
    <3>1. <<UuidFor(taken[w], q.name), q.name>> \in Inserted(w)
      BY <1>1, <1>5, <2>4, FreshIsInserted DEF UuidsInv
    <3>2. book'[Given(taken[w], q.name)].name = q.name
      BY <2>2, <3>1 DEF InsertDone, UuidFor
    <3>3. holder[q.name] = NoUuid \/ (holder[q.name] = Given(taken[w], q.name) /\ q.name \in met)
      BY <1>5, <2>1, <2>2, GivenHolds
    <3> QED
      BY <1>1, <2>1, <3>2, <3>3 DEF Stored
  <2> QED
    BY <2>3, <2>4
<1>6. \A v \in Writers : doing'[v] \in {"remember", "rank"} =>
        \/ doing[v] \in {"remember", "rank"} /\ taken'[v] = taken[v]
        \/ \A q \in ToSet(taken'[v]) : q.uuid # NoUuid => q.name \in Stored' \cup spoiled'
  <2> TAKE v \in Writers
  <2>1. CASE v = w
    BY <1>1, <1>5, <2>1
  <2>2. CASE v # w
    BY <1>1, <1>2, <2>2 DEF InsertDone, BookTypes
  <2> QED
    BY <2>1, <2>2
<1>7. \A v \in Writers : ToSet(inbox'[v]) \cup ToSet(taken'[v]) = InFlight(v)
  BY <1>1 DEF InFlight
<1> QED
  BY <1>1, <1>3, <1>6, <1>7, UuidsStay

LEMMA LosingFacts ==
  ASSUME NEW rows, NEW q \in ToSet(rows), q.uuid # NoUuid \/ q.rank # NoRank
  PROVE  q.name \in Losing(rows)
BY DEF Losing

\* A writer gives up a batch of which no uuid matters any more.
LEMMA AbandonUuids ==
  ASSUME UuidsInv, NEW w \in Writers, Abandon(w), spoiled \subseteq spoiled',
         UNCHANGED <<holder, met>>,
         \A v \in Writers \ {w} : inbox'[v] = inbox[v] /\ known'[v] = known[v],
         inbox'[w] = inbox[w] \/ inbox'[w] = <<>>,
         \A n \in Names : known'[w][n] = "real" => known[w][n] = "real",
         \A u \in Uuids : book'[u].name = book[u].name,
         \A q \in InFlight(w) : q.uuid # NoUuid =>
           q \in ToSet(inbox'[w]) \/ q.name \in Stored \cup spoiled'
  PROVE  UuidsRight'
<1>1. /\ \A v \in Writers : ToSet(inbox'[v]) \cup ToSet(taken'[v]) \subseteq InFlight(v)
      /\ \A v \in Writers \ {w} : ToSet(inbox'[v]) \cup ToSet(taken'[v]) = InFlight(v)
  BY FlightAbandons DEF UuidsInv, NamesInv
<1>2. \A n \in met : holder[n] \in Uuids
  BY MadeUpFacts DEF UuidsInv, UuidsRight, NamesInv, BookTypes
<1>3. \A n \in met \ spoiled' : book[holder[n]].name = n => book'[holder[n]].name = n
  BY <1>2
<1>4. Stored \subseteq Stored'
  BY <1>2 DEF Stored
<1>5. \A v \in Writers, n \in Names \ spoiled' : known'[v][n] = "real" => known[v][n] = "real"
  OBVIOUS
<1>6. \A v \in Writers : doing'[v] \in {"remember", "rank"} =>
        doing[v] \in {"remember", "rank"} /\ taken'[v] = taken[v]
  BY AbandonFacts DEF UuidsInv, NamesInv
<1>7. \A v \in Writers : \A q \in InFlight(v) : q.uuid # NoUuid =>
        q \in ToSet(inbox'[v]) \cup ToSet(taken'[v]) \/ q.name \in Stored' \cup spoiled'
  BY <1>1, <1>4
<1> QED
  BY <1>1, <1>3, <1>5, <1>6, <1>7, UuidsStay

LEMMA InsertPlayersUuids ==
  ASSUME UuidsInv, NEW w \in Writers, InsertPlayers(w)
  PROVE  UuidsRight'
<1>1. CASE InsertRefused(w)
  <2>1. UNCHANGED <<holder, met, inbox, known, book>>
    BY <1>1, InsertFacts DEF InsertRefused, UuidsInv, NamesInv
  <2>2. \A q \in InFlight(w) : q.uuid # NoUuid => q \in ToSet(inbox'[w]) \/ q.name \in spoiled'
    BY <1>1, <2>1, LosingFacts DEF InsertRefused, InFlight
  <2> QED
    BY <1>1, <2>1, <2>2, AbandonUuids DEF InsertRefused
<1>2. CASE InsertDone(w)
  BY <1>2, InsertDoneUuids
<1> QED
  BY <1>1, <1>2, InsertFacts DEF UuidsInv, NamesInv

LEMMA RememberUuids ==
  ASSUME UuidsInv, NEW w \in Writers, Remember(w)
  PROVE  UuidsRight'
<1>1. UNCHANGED <<holder, met, inbox, taken, book, spoiled>> /\ doing[w] = "remember"
  BY DEF Remember, Keeps
<1>2. BookTypes
  BY DEF UuidsInv, NamesInv
<1>3. Stored' = Stored
  BY <1>1 DEF Stored
<1>4. ASSUME NEW v \in Writers, NEW n \in Names \ spoiled', known'[v][n] = "real"
      PROVE  known[v][n] = "real" \/ n \in Stored'
  <2>1. CASE v # w \/ n \notin Fresh(w)
    BY <1>2, <1>4, <2>1 DEF Remember, BookTypes
  <2>2. CASE v = w /\ n \in Fresh(w)
    <3>1. Given(taken[w], n) # NoUuid
      BY <1>2, <1>4, <2>2 DEF Remember, BookTypes
    <3>2. PICK q \in ToSet(taken[w]) : q.name = n /\ q.uuid # NoUuid
      BY <1>2, <3>1, GivenFacts DEF BookTypes
    <3> QED
      BY <1>1, <1>3, <1>4, <3>2 DEF UuidsInv, UuidsRight
  <2> QED
    BY <2>1, <2>2
<1>5. \A v \in Writers : doing'[v] \in {"remember", "rank"} =>
        doing[v] \in {"remember", "rank"} /\ taken'[v] = taken[v]
  BY <1>1, <1>2 DEF Remember, Goes, BookTypes
<1>6. \A v \in Writers : ToSet(inbox'[v]) \cup ToSet(taken'[v]) = InFlight(v)
  BY <1>1 DEF InFlight
<1> QED
  BY <1>1, <1>4, <1>5, <1>6, UuidsStay

LEMMA WriteRanksUuids ==
  ASSUME UuidsInv, NEW w \in Writers, WriteRanks(w)
  PROVE  UuidsRight'
<1>1. /\ UNCHANGED <<holder, met, inbox, known>> /\ spoiled \subseteq spoiled'
      /\ Abandon(w) /\ doing[w] = "rank"
  BY DEF WriteRanks, Keeps
<1>2. \A u \in Uuids : book'[u].name = book[u].name
  BY WriteRanksFacts DEF UuidsInv, NamesInv
<1>3. \A q \in InFlight(w) : q.uuid # NoUuid =>
        q \in ToSet(inbox'[w]) \/ q.name \in Stored \cup spoiled'
  BY <1>1 DEF UuidsInv, UuidsRight, InFlight
<1> QED
  BY <1>1, <1>2, <1>3, AbandonUuids

LEMMA StatementFailsUuids ==
  ASSUME UuidsInv, NEW w \in Writers, StatementFails(w)
  PROVE  UuidsRight'
<1>1. /\ UNCHANGED <<holder, met, inbox, known, book>> /\ Abandon(w)
      /\ spoiled' = spoiled \cup LostWith(w, taken[w])
  BY DEF StatementFails, Keeps, cacheVars, tableVars
<1>2. \A q \in InFlight(w) : q.uuid # NoUuid => q \in ToSet(inbox'[w]) \/ q.name \in spoiled'
  BY <1>1, LosingFacts DEF InFlight, LostWith
<1> QED
  BY <1>1, <1>2, AbandonUuids

LEMMA JoinedRows ==
  ASSUME NEW s \in Seq(Sighting), NEW t \in Seq(Sighting)
  PROVE  ToSet(s) \cup ToSet(t) \subseteq ToSet(s \o t)
<1>1. /\ Len(s) \in Nat /\ Len(t) \in Nat /\ Len(s \o t) = Len(s) + Len(t)
      /\ s \o t \in Seq(Sighting)
      /\ \A i \in 1..Len(s) : (s \o t)[i] = s[i]
      /\ \A i \in 1..Len(t) : (s \o t)[Len(s) + i] = t[i]
  BY LenProperties, ConcatProperties
<1>2. DOMAIN s = 1..Len(s) /\ DOMAIN t = 1..Len(t) /\ DOMAIN (s \o t) = 1..(Len(s) + Len(t))
  BY <1>1, LenProperties
<1>3. \A i \in 1..Len(s) : i \in 1..(Len(s) + Len(t))
  BY <1>1
<1>4. \A i \in 1..Len(t) : Len(s) + i \in 1..(Len(s) + Len(t))
  BY <1>1
<1>5. \A i \in DOMAIN s : s[i] \in ToSet(s \o t)
  BY <1>1, <1>2, <1>3 DEF ToSet
<1>6. \A i \in DOMAIN t : t[i] \in ToSet(s \o t)
  BY <1>1, <1>2, <1>4 DEF ToSet
<1> QED
  BY <1>5, <1>6 DEF ToSet

\* A restart loses the rows of the queue too.
LEMMA LostOnRestart ==
  ASSUME BookTypes, NEW w \in Writers, RestartWriter(w),
         NEW q \in InFlight(w), q.uuid # NoUuid \/ q.rank # NoRank
  PROVE  q.name \in spoiled'
<1>1. spoiled' = spoiled \cup LostWith(w, inbox[w] \o taken[w])
  BY DEF RestartWriter
<1>2. q \in ToSet(inbox[w] \o taken[w])
  BY JoinedRows DEF InFlight, BookTypes
<1>3. q.name \in Losing(inbox[w] \o taken[w])
  BY <1>2, LosingFacts
<1> QED
  BY <1>1, <1>3 DEF LostWith

LEMMA RestartWriterUuids ==
  ASSUME UuidsInv, NEW w \in Writers, RestartWriter(w)
  PROVE  UuidsRight'
<1>1. UNCHANGED <<holder, met, book>> /\ Forgets(w) /\ spoiled \subseteq spoiled'
  BY DEF RestartWriter, tableVars
<1>2. /\ Abandon(w) /\ inbox'[w] = <<>>
      /\ \A v \in Writers \ {w} : inbox'[v] = inbox[v] /\ known'[v] = known[v]
      /\ \A n \in Names : known'[w][n] = "none"
  BY <1>1, ForgetsFacts DEF UuidsInv, NamesInv
<1>3. \A q \in InFlight(w) : q.uuid # NoUuid => q.name \in spoiled'
  BY LostOnRestart DEF UuidsInv, NamesInv
<1> QED
  BY <1>1, <1>2, <1>3, AbandonUuids

\* The database is reset in behaviours without uuids.
LEMMA ResetDatabaseUuids ==
  ASSUME UuidsInv, NEW w \in Writers, ResetDatabase(w)
  PROVE  UuidsRight'
<1>1. subject' = "names" /\ OnlySubject'
  BY OtherOnly DEF ResetDatabase, UuidsInv, NamesInv
<1>2. /\ met' = {}
      /\ \A v \in Writers : /\ \A n \in Names : known'[v][n] # "real"
                            /\ \A q \in ToSet(inbox'[v]) \cup ToSet(taken'[v]) : q.uuid = NoUuid
  BY <1>1 DEF OnlySubject, InFlight
<1> QED
  BY <1>2 DEF UuidsRight, InFlight

LEMMA UuidsStart == BookInit => UuidsInv
<1> SUFFICES ASSUME BookInit
             PROVE  OnlySubject /\ UuidsRight
  BY NamesStart DEF UuidsInv
<1>1. \A w \in Writers : InFlight(w) = {}
  BY EmptyRows DEF BookInit, InFlight
<1>2. OnlySubject
  BY <1>1, MadeUpFacts DEF BookInit, OnlySubject, Free
<1>3. UuidsRight
  BY <1>1, EmptyRows DEF BookInit, UuidsRight
<1> QED
  BY <1>2, <1>3

-----------------------------------------------------------------------------
(* The ranks.                                                              *)

LEMMA NoRanks == \A n : RanksIn(<<>>, n) = {}
BY EmptyRows DEF RanksIn

LEMMA OneRank ==
  ASSUME NEW rows \in Seq(Sighting), NEW n, ~(Cardinality(RanksIn(rows, n)) > 1),
         NEW r \in RanksIn(rows, n), NEW s \in RanksIn(rows, n)
  PROVE  r = s
<1>1. IsFiniteSet(RanksIn(rows, n))
  <2>1. IsFiniteSet(DOMAIN rows)
    BY LenProperties, FS_Interval
  <2>2. IsFiniteSet({q.rank : q \in ToSet(rows)})
    <3> DEFINE f == [i \in DOMAIN rows |-> rows[i].rank]
    <3>1. f \in Surjection(DOMAIN rows, {q.rank : q \in ToSet(rows)})
      BY DEF ToSet, Surjection
    <3> QED
      BY <2>1, <3>1, FS_Surjection
  <2>3. RanksIn(rows, n) \in SUBSET {q.rank : q \in ToSet(rows)}
    BY DEF RanksIn
  <2> QED
    BY <2>2, <2>3, FS_Subset
<1>2. Cardinality(RanksIn(rows, n)) \in Nat
  BY <1>1, FS_CardinalityType
<1>3. ASSUME r # s
      PROVE  FALSE
  <2>1. /\ IsFiniteSet({r}) /\ Cardinality({r}) = 1
    BY FS_Singleton
  <2>2. Cardinality({r} \cup {s}) = 2
    <3>1. s \notin {r}
      BY <1>3
    <3>2. Cardinality({r} \cup {s}) = Cardinality({r}) + 1
      BY <2>1, <3>1, FS_AddElement
    <3>3. Cardinality({r}) + 1 = 2
      BY <2>1
    <3> QED
      BY <3>2, <3>3, Zenon
  <2>3. {r} \cup {s} \in SUBSET RanksIn(rows, n)
    OBVIOUS
  <2>4. Cardinality({r} \cup {s}) <= Cardinality(RanksIn(rows, n))
    BY <1>1, <2>3, FS_Subset
  <2> DEFINE c == Cardinality(RanksIn(rows, n))
  <2>5. c \in Nat /\ 2 <= c /\ ~(c > 1)
    BY <1>2, <2>2, <2>4, Zenon
  <2> HIDE DEF c
  <2> QED
    BY <2>5
<1> QED
  BY <1>3

LEMMA RanksAppended ==
  ASSUME NEW rows \in Seq(Sighting), NEW q \in Sighting, NEW n
  PROVE  RanksIn(Append(rows, q), n) =
           RanksIn(rows, n) \cup IF q.name = n /\ q.rank # NoRank THEN {q.rank} ELSE {}
BY RowsAppended DEF RanksIn

LEMMA AloneStays ==
  ASSUME RankAlone, spoiled \subseteq spoiled',
         \A v \in Writers : ToSet(inbox'[v]) \cup ToSet(taken'[v]) \subseteq InFlight(v)
  PROVE  RankAlone'
<1>1. \A v, w \in Writers : v # w =>
        \A q \in ToSet(inbox'[v]) \cup ToSet(taken'[v]),
           s \in ToSet(inbox'[w]) \cup ToSet(taken'[w]) :
          q.name = s.name /\ q.rank # NoRank => q.name \in spoiled'
  BY DEF RankAlone
<1> QED
  BY <1>1 DEF RankAlone, InFlight

LEMMA RanksStay ==
  ASSUME BookInv, spoiled \subseteq spoiled', said' = said,
         \A v \in Writers, n \in Names \ spoiled' :
           /\ RanksIn(inbox'[v], n) # {} => inbox'[v] = inbox[v]
           /\ RanksIn(inbox'[v], n) = {} /\ RanksIn(taken'[v], n) # {} =>
                \/ inbox'[v] = inbox[v] /\ taken'[v] = taken[v]
                \/ taken'[v] = inbox[v],
         \A n \in Names \ spoiled' : said[n] # NoRank /\ n \in RankOnTheWay \cup RankStored =>
           n \in RankOnTheWay' \cup RankStored'
  PROVE  RanksRight'
<1> SUFFICES ASSUME NEW n \in Names \ spoiled'
             PROVE  /\ \A w \in Writers :
                         /\ RanksIn(inbox'[w], n) # {} => LatestRank(inbox'[w], n) = said'[n]
                         /\ RanksIn(inbox'[w], n) = {} /\ RanksIn(taken'[w], n) # {} =>
                              LatestRank(taken'[w], n) = said'[n]
                    /\ said'[n] # NoRank => n \in RankOnTheWay' \cup RankStored'
  BY DEF RanksRight, LatestRank
<1>1. /\ \A w \in Writers :
           /\ RanksIn(inbox[w], n) # {} => LatestRank(inbox[w], n) = said[n]
           /\ RanksIn(inbox[w], n) = {} /\ RanksIn(taken[w], n) # {} =>
                LatestRank(taken[w], n) = said[n]
      /\ said[n] # NoRank => n \in RankOnTheWay \cup RankStored
  BY DEF BookInv, RanksRight
<1>2. ASSUME NEW w \in Writers
      PROVE  /\ RanksIn(inbox'[w], n) # {} => LatestRank(inbox'[w], n) = said'[n]
             /\ RanksIn(inbox'[w], n) = {} /\ RanksIn(taken'[w], n) # {} =>
                  LatestRank(taken'[w], n) = said'[n]
  <2>1. RanksIn(inbox'[w], n) # {} => inbox'[w] = inbox[w]
    OBVIOUS
  <2>2. RanksIn(inbox'[w], n) = {} /\ RanksIn(taken'[w], n) # {} =>
          \/ inbox'[w] = inbox[w] /\ taken'[w] = taken[w]
          \/ taken'[w] = inbox[w]
    OBVIOUS
  <2> QED
    BY <1>1, <2>1, <2>2
<1> QED
  BY <1>1, <1>2

\* The rows on their way are those that were, and the rows of the players too.
LEMMA RanksSame ==
  ASSUME BookInv, UNCHANGED <<said, inbox, taken>>, spoiled \subseteq spoiled',
         \A n \in Names \ spoiled' : \A u \in Uuids :
           said[n] # NoRank /\ book[u] = [name |-> n, rank |-> said[n]] => book'[u] = book[u]
  PROVE  RankAlone' /\ RanksRight'
<1>1. RankOnTheWay' = RankOnTheWay
  BY DEF RankOnTheWay
<1>2. \A n \in Names \ spoiled' : said[n] # NoRank /\ n \in RankOnTheWay \cup RankStored =>
        n \in RankOnTheWay' \cup RankStored'
  BY <1>1 DEF RankStored
<1>3. RanksRight'
  BY <1>2, RanksStay
<1>4. \A v \in Writers : ToSet(inbox'[v]) \cup ToSet(taken'[v]) \subseteq InFlight(v)
  BY DEF InFlight
<1> QED
  BY <1>3, <1>4, AloneStays DEF BookInv

LEMMA SightRanks ==
  ASSUME BookInv, NEW w \in Writers, NEW n \in Names, Sight(w, n)
  PROVE  RankAlone' /\ RanksRight'
<1>1. PICK u \in Accounts \cup {NoUuid}, r \in Shown \cup {NoRank} : Sighted(w, n, u, r)
  BY SightFacts DEF BookInv, UuidsInv, NamesInv
<1>t. BookTypes
  BY DEF BookInv, UuidsInv, NamesInv
<1>2. UNCHANGED <<holder, taken, book>>
  BY SightFacts, <1>1, <1>t DEF Sighted
<1>q. PICK q : q = [name |-> n, uuid |-> u, rank |-> r]
  OBVIOUS
<1>3. /\ q \in Sighting /\ q.name = n /\ q.rank = r
      /\ inbox'[w] = Append(inbox[w], q)
      /\ ToSet(inbox'[w]) \cup ToSet(taken'[w]) = InFlight(w) \cup {q}
      /\ \A v \in Writers \ {w} :
           inbox'[v] = inbox[v] /\ ToSet(inbox'[v]) \cup ToSet(taken'[v]) = InFlight(v)
  BY <1>1, <1>q, <1>t, ReachFacts
<1>4. /\ said' = IF r = NoRank THEN said ELSE [said EXCEPT ![n] = r]
      /\ spoiled' = IF \E v \in Writers \ {w} : \E s \in InFlight(v) :
                         s.name = n /\ {s.rank, r} \cap Shown # {}
                    THEN spoiled \cup {n} ELSE spoiled
  BY <1>1 DEF Sighted
<1>5. \A v \in Writers \ {w} : \A s \in InFlight(v) :
        s.name = n /\ (s.rank # NoRank \/ r # NoRank) => n \in spoiled'
  <2> TAKE v \in Writers \ {w}
  <2> TAKE s \in InFlight(v)
  <2>1. s.rank \in Shown \cup {NoRank}
    BY <1>t, FlightTypes DEF Sighting
  <2> QED
    BY <1>4, <2>1
<1>6. RankAlone'
  <2> SUFFICES ASSUME NEW v1 \in Writers, NEW v2 \in Writers, v1 # v2,
                      NEW s \in ToSet(inbox'[v1]) \cup ToSet(taken'[v1]),
                      NEW t \in ToSet(inbox'[v2]) \cup ToSet(taken'[v2]),
                      s.name = t.name, s.rank # NoRank
               PROVE  s.name \in spoiled'
    BY DEF RankAlone, InFlight
  <2>1. CASE s \in InFlight(v1) /\ t \in InFlight(v2)
    BY <1>4, <2>1 DEF BookInv, RankAlone
  <2>2. CASE s \notin InFlight(v1)
    <3>1. v1 = w /\ s = q /\ t \in InFlight(v2)
      BY <1>3, <2>2
    <3> QED
      BY <1>3, <1>5, <3>1
  <2>3. CASE t \notin InFlight(v2)
    <3>1. v2 = w /\ t = q /\ s \in InFlight(v1)
      BY <1>3, <2>3
    <3> QED
      BY <1>3, <1>5, <3>1
  <2> QED
    BY <2>1, <2>2, <2>3
<1>7. ASSUME NEW m \in Names \ spoiled'
      PROVE  /\ \A v \in Writers :
                  /\ RanksIn(inbox'[v], m) # {} => LatestRank(inbox'[v], m) = said'[m]
                  /\ RanksIn(inbox'[v], m) = {} /\ RanksIn(taken'[v], m) # {} =>
                       LatestRank(taken'[v], m) = said'[m]
             /\ said'[m] # NoRank => m \in RankOnTheWay' \cup RankStored'
  <2>0. /\ \A v \in Writers :
             /\ RanksIn(inbox[v], m) # {} => LatestRank(inbox[v], m) = said[m]
             /\ RanksIn(inbox[v], m) = {} /\ RanksIn(taken[v], m) # {} =>
                  LatestRank(taken[v], m) = said[m]
        /\ said[m] # NoRank => m \in RankOnTheWay \cup RankStored
    BY <1>4, <1>7 DEF BookInv, RanksRight
  <2>a. inbox[w] \in Seq(Sighting)
    BY <1>t DEF BookTypes
  <2>1. CASE m # n \/ r = NoRank
    <3>1. said'[m] = said[m]
      BY <1>4, <1>t, <2>1 DEF BookTypes
    <3>2. \A v \in Writers : /\ RanksIn(inbox'[v], m) = RanksIn(inbox[v], m)
                             /\ LatestRank(inbox'[v], m) = LatestRank(inbox[v], m)
      <4>1. /\ RanksIn(inbox'[w], m) = RanksIn(inbox[w], m)
            /\ LatestRank(inbox'[w], m) = LatestRank(inbox[w], m)
        <5>1. RanksIn(Append(inbox[w], q), m) = RanksIn(inbox[w], m)
          <6>1. ~(q.name = m /\ q.rank # NoRank)
            BY <1>3, <2>1
          <6>2. RanksIn(Append(inbox[w], q), m) = RanksIn(inbox[w], m) \cup {}
            BY <1>3, <2>a, <6>1, RanksAppended
          <6> QED
            BY <6>2
        <5>2. LatestRank(Append(inbox[w], q), m) = LatestRank(inbox[w], m)
          BY <1>3, <2>1, <2>a, RankAppended
        <5> QED
          BY <1>3, <5>1, <5>2
      <4> QED
        BY <1>3, <4>1
    <3>3. m \in RankOnTheWay => m \in RankOnTheWay'
      BY <1>2, <3>2 DEF RankOnTheWay
    <3>4. m \in RankStored => m \in RankStored'
      BY <1>2, <3>1 DEF RankStored
    <3> QED
      BY <1>2, <2>0, <3>1, <3>2, <3>3, <3>4
  <2>2. CASE m = n /\ r # NoRank
    <3>1. said'[m] = r
      BY <1>4, <1>t, <2>2 DEF BookTypes
    <3>2. RanksIn(inbox'[w], m) # {} /\ LatestRank(inbox'[w], m) = r
      <4>1. RanksIn(Append(inbox[w], q), m) # {}
        BY <1>3, <2>2, <2>a, RanksAppended
      <4>2. LatestRank(Append(inbox[w], q), m) = r
        BY <1>3, <2>2, <2>a, RankAppended
      <4> QED
        BY <1>3, <4>1, <4>2
    <3>3. \A v \in Writers \ {w} : RanksIn(inbox'[v], m) = {} /\ RanksIn(taken'[v], m) = {}
      <4> TAKE v \in Writers \ {w}
      <4>1. \A s \in ToSet(inbox'[v]) \cup ToSet(taken'[v]) : s.name # m
        BY <1>3, <1>5, <1>7, <2>2
      <4> QED
        BY <4>1 DEF RanksIn
    <3>4. m \in RankOnTheWay'
      BY <3>2 DEF RankOnTheWay
    <3> QED
      BY <3>1, <3>2, <3>3, <3>4
  <2> QED
    BY <2>1, <2>2
<1>8. RanksRight'
  BY <1>7 DEF RanksRight, LatestRank
<1> QED
  BY <1>6, <1>8

LEMMA DrainRanks ==
  ASSUME BookInv, NEW w \in Writers, Drain(w)
  PROVE  RankAlone' /\ RanksRight'
<1>1. UNCHANGED <<said, spoiled, book>>
  BY DEF Drain, tableVars
<1>2. /\ taken[w] = <<>> /\ inbox'[w] = <<>> /\ taken'[w] = inbox[w]
      /\ \A v \in Writers \ {w} : taken'[v] = taken[v] /\ inbox'[v] = inbox[v]
  BY DrainFacts DEF BookInv, UuidsInv, NamesInv
<1>3. RankOnTheWay \subseteq RankOnTheWay'
  <2> SUFFICES ASSUME NEW n \in Names, NEW v \in Writers,
                      RanksIn(inbox[v], n) \cup RanksIn(taken[v], n) # {}
               PROVE  RanksIn(inbox'[v], n) \cup RanksIn(taken'[v], n) # {}
    BY DEF RankOnTheWay
  <2>1. CASE v = w
    BY <1>2, <2>1, NoRanks
  <2>2. CASE v # w
    BY <1>2, <2>2
  <2> QED
    BY <2>1, <2>2
<1>4. RankStored' = RankStored
  BY <1>1 DEF RankStored
<1>5. \A v \in Writers, n \in Names \ spoiled' :
        /\ RanksIn(inbox'[v], n) # {} => inbox'[v] = inbox[v]
        /\ RanksIn(inbox'[v], n) = {} /\ RanksIn(taken'[v], n) # {} =>
             \/ inbox'[v] = inbox[v] /\ taken'[v] = taken[v]
             \/ taken'[v] = inbox[v]
  BY <1>2, NoRanks
<1>6. RanksRight'
  BY <1>1, <1>3, <1>4, <1>5, RanksStay
<1>7. RankAlone'
  BY <1>1, FlightDrains, AloneStays DEF BookInv, UuidsInv, NamesInv
<1> QED
  BY <1>6, <1>7

\* A writer gives up a batch of which no rank matters any more.
LEMMA AbandonRanks ==
  ASSUME BookInv, NEW w \in Writers, Abandon(w), spoiled \subseteq spoiled', said' = said,
         \A v \in Writers \ {w} : inbox'[v] = inbox[v],
         inbox'[w] = inbox[w] \/ inbox'[w] = <<>>,
         \A n \in Names \ spoiled' :
           /\ said[n] # NoRank
           /\ n \in RankStored \/ RanksIn(inbox[w], n) \cup RanksIn(taken[w], n) # {}
           => RanksIn(inbox'[w], n) # {} \/ n \in RankStored'
  PROVE  RankAlone' /\ RanksRight'
<1>1. /\ taken'[w] = <<>>
      /\ \A v \in Writers \ {w} : taken'[v] = taken[v]
  BY AbandonFacts DEF BookInv, UuidsInv, NamesInv
<1>2. \A v \in Writers, n \in Names \ spoiled' :
        /\ RanksIn(inbox'[v], n) # {} => inbox'[v] = inbox[v]
        /\ RanksIn(inbox'[v], n) = {} /\ RanksIn(taken'[v], n) # {} =>
             inbox'[v] = inbox[v] /\ taken'[v] = taken[v]
  BY <1>1, NoRanks
<1>3. ASSUME NEW n \in Names \ spoiled', said[n] # NoRank, n \in RankOnTheWay
      PROVE  n \in RankOnTheWay' \cup RankStored'
  <2>1. PICK v \in Writers : RanksIn(inbox[v], n) \cup RanksIn(taken[v], n) # {}
    BY <1>3 DEF RankOnTheWay
  <2>2. RanksIn(inbox'[v], n) \cup RanksIn(taken'[v], n) # {} \/ n \in RankStored'
    <3>1. CASE v = w
      BY <1>3, <2>1, <3>1
    <3>2. CASE v # w
      BY <1>1, <2>1, <3>2
    <3> QED
      BY <3>1, <3>2
  <2> QED
    BY <2>2 DEF RankOnTheWay
<1>s. \A n \in Names \ spoiled' : said[n] # NoRank /\ n \in RankStored =>
        n \in RankOnTheWay' \cup RankStored'
  BY DEF RankOnTheWay
<1>4. RanksRight'
  BY <1>2, <1>3, <1>s, RanksStay
<1>5. RankAlone'
  BY FlightAbandons, AloneStays DEF BookInv, UuidsInv, NamesInv
<1> QED
  BY <1>4, <1>5

LEMMA LostRanks ==
  ASSUME NEW rows, NEW n, RanksIn(rows, n) # {}
  PROVE  n \in Losing(rows)
BY DEF RanksIn, Losing

LEMMA StatementFailsRanks ==
  ASSUME BookInv, NEW w \in Writers, StatementFails(w)
  PROVE  RankAlone' /\ RanksRight'
<1>1. /\ UNCHANGED <<said, inbox, book>> /\ Abandon(w)
      /\ spoiled' = spoiled \cup LostWith(w, taken[w])
  BY DEF StatementFails, Keeps, tableVars
<1>2. RankStored' = RankStored
  BY <1>1 DEF RankStored
<1>3. \A n \in Names \ spoiled' : RanksIn(taken[w], n) = {}
  BY <1>1, LostRanks DEF LostWith
<1> QED
  BY <1>1, <1>2, <1>3, AbandonRanks

LEMMA RestartWriterRanks ==
  ASSUME BookInv, NEW w \in Writers, RestartWriter(w)
  PROVE  RankAlone' /\ RanksRight'
<1>1. UNCHANGED <<said, book>> /\ Forgets(w) /\ spoiled \subseteq spoiled'
  BY DEF RestartWriter, tableVars
<1>2. /\ Abandon(w) /\ inbox'[w] = <<>>
      /\ \A v \in Writers \ {w} : inbox'[v] = inbox[v]
  BY <1>1, ForgetsFacts DEF BookInv, UuidsInv, NamesInv
<1>3. RankStored' = RankStored
  BY <1>1 DEF RankStored
<1>4. ASSUME NEW n \in Names \ spoiled'
      PROVE  RanksIn(inbox[w], n) \cup RanksIn(taken[w], n) = {}
  <2>1. \A q \in InFlight(w) : q.rank # NoRank => q.name \in spoiled'
    BY LostOnRestart DEF BookInv, UuidsInv, NamesInv
  <2> QED
    BY <2>1 DEF RanksIn, InFlight
<1> QED
  BY <1>1, <1>2, <1>3, <1>4, AbandonRanks

LEMMA RemoveOthersRanks ==
  ASSUME BookInv, NEW w \in Writers, RemoveOthers(w)
  PROVE  RankAlone' /\ RanksRight'
<1>1. /\ UNCHANGED <<said, inbox, taken>>
      /\ book' = [u \in Uuids |-> IF u \in Others(w) THEN Free ELSE book[u]]
      /\ spoiled' = spoiled \cup {n \in Fresh(w) : \E u \in Others(w) : book[u].name = n /\
                  (book[u].rank # NoRank \/ (IsReal(u) /\ Given(taken[w], n) = NoUuid))}
  BY DEF RemoveOthers, Keeps
<1>2. ASSUME NEW n \in Names \ spoiled', NEW u \in Uuids,
             said[n] # NoRank, book[u] = [name |-> n, rank |-> said[n]]
      PROVE  book'[u] = book[u]
  <2>1. book[u].name = n /\ book[u].rank # NoRank
    BY <1>2
  <2>2. ASSUME u \in Others(w)
        PROVE  FALSE
    <3>1. PICK r \in FreshRows(w) : book[u].name = r[2]
      BY <2>2 DEF Others
    <3>2. n \in Fresh(w)
      BY <2>1, <3>1, FreshFacts DEF BookInv, UuidsInv, NamesInv
    <3> QED
      BY <1>1, <1>2, <2>1, <2>2, <3>2
  <2> QED
    BY <1>1, <2>2
<1> QED
  BY <1>1, <1>2, RanksSame

LEMMA InsertPlayersRanks ==
  ASSUME BookInv, NEW w \in Writers, InsertPlayers(w)
  PROVE  RankAlone' /\ RanksRight'
<1>t. BookTypes /\ OnlySubject
  BY DEF BookInv, UuidsInv, NamesInv
<1>0. UNCHANGED <<subject, said, inbox, holder>>
  BY <1>t, InsertFacts
<1>1. CASE InsertRefused(w)
  <2>1. RankStored' = RankStored
    BY <1>0, <1>1 DEF RankStored, InsertRefused
  <2>2. \A n \in Names \ spoiled' : RanksIn(taken[w], n) = {}
    BY <1>1, LostRanks DEF InsertRefused
  <2> QED
    BY <1>0, <1>1, <2>1, <2>2, AbandonRanks DEF InsertRefused
<1>2. CASE InsertDone(w)
  <2>1. taken' = taken /\ spoiled' = spoiled
    BY <1>2 DEF InsertDone
  <2>2. OnlySubject'
    BY <1>t, InsertPlayersOnly
  <2>3. ASSUME NEW n \in Names \ spoiled', NEW u \in Uuids,
               said[n] # NoRank, book[u] = [name |-> n, rank |-> said[n]]
        PROVE  book'[u] = book[u]
    <3>1. subject = "ranks" /\ subject' = "ranks" /\ book[u].name = n
      BY <1>t, <1>0, <2>3 DEF OnlySubject
    <3>2. u \in {MadeUp(n), holder[n]}
      BY <1>t, <3>1 DEF OnlySubject
    <3>3. ASSUME NEW r \in Inserted(w), r[1] = u
          PROVE  r[2] = n
      <4>1. r[2] \in Names /\ book'[u].name = r[2]
        BY <1>2, <1>t, <3>3, FreshFacts DEF InsertDone, Inserted
      <4>2. u \in {MadeUp(r[2]), holder[r[2]]}
        BY <1>0, <2>2, <3>1, <4>1 DEF OnlySubject
      <4>3. holder[n] \in Accounts \cup {NoUuid} /\ holder[r[2]] \in Accounts \cup {NoUuid}
        BY <1>t, <4>1 DEF BookTypes
      <4>4. u # NoUuid
        BY MadeUpFacts DEF Uuids
      <4>5. holder[n] = holder[r[2]] /\ holder[n] # NoUuid => n = r[2]
        BY <1>t, <4>1 DEF BookTypes
      <4> QED
        BY <3>2, <4>1, <4>2, <4>3, <4>4, <4>5, MadeUpFacts
    <3>4. /\ book[u] \in [name : Names \cup {NoPlayer}, rank : Shown \cup {NoRank}]
          /\ book'[u] \in [name : Names \cup {NoPlayer}, rank : Shown \cup {NoRank}]
      BY <1>t, InsertFacts DEF BookTypes
    <3>5. book'[u].name = book[u].name /\ book'[u].rank = book[u].rank
      BY <1>2, <3>1, <3>3 DEF InsertDone
    <3> QED
      BY <3>4, <3>5
  <2> QED
    BY <1>0, <2>1, <2>3, RanksSame
<1> QED
  BY <1>1, <1>2, <1>t, InsertFacts

LEMMA WriteRanksRanks ==
  ASSUME BookInv, NEW w \in Writers, WriteRanks(w)
  PROVE  RankAlone' /\ RanksRight'
<1>t. BookTypes
  BY DEF BookInv, UuidsInv, NamesInv
<1>1. UNCHANGED <<said, inbox>> /\ Abandon(w) /\ spoiled \subseteq spoiled'
  BY DEF WriteRanks, Keeps
<1>2. /\ \A u \in Uuids : book'[u] \in [name : Names \cup {NoPlayer}, rank : Shown \cup {NoRank}]
      /\ \A u \in Uuids : book'[u].name = book[u].name
      /\ \A u \in Uuids : \A n \in Names : book[u].name = n =>
           book'[u].rank = IF ChangedRank(w, n) # NoRank THEN ChangedRank(w, n)
                           ELSE book[u].rank
  BY <1>t, WriteRanksFacts
<1>3. taken[w] \in Seq(Sighting)
  BY <1>t DEF BookTypes
<1>4. ASSUME NEW n \in Names \ spoiled', said[n] # NoRank, RanksIn(taken[w], n) = {},
             n \in RankStored
      PROVE  n \in RankStored'
  <2>1. PICK u \in Uuids : book[u] = [name |-> n, rank |-> said[n]]
    BY <1>4 DEF RankStored
  <2>2. ChangedRank(w, n) = NoRank
    BY <1>t, <1>4, ChangedFacts
  <2>3. book'[u].name = n /\ book'[u].rank = said[n]
    BY <1>2, <2>1, <2>2
  <2>4. book'[u] = [name |-> n, rank |-> said[n]]
    BY <1>2, <2>3
  <2> QED
    BY <1>1, <2>4 DEF RankStored
<1>5. ASSUME NEW n \in Names \ spoiled', said[n] # NoRank, RanksIn(taken[w], n) # {},
             RanksIn(inbox[w], n) = {}
      PROVE  n \in RankStored'
  <2>1. said[n] \in RanksIn(taken[w], n)
    <3>1. LatestRank(taken[w], n) = said[n]
      BY <1>1, <1>5 DEF BookInv, RanksRight
    <3> QED
      BY <1>3, <1>5, <3>1, LastRankFacts DEF LatestRank
  <2>2. n \in Ranked(taken[w])
    BY <1>5 DEF Ranked, RanksIn, NamesIn
  <2>3. /\ ~(Cardinality(RanksIn(taken[w], n)) > 1)
        /\ \E u \in Uuids : book[u].name = n
        /\ RanksIn(taken[w], n) = {shown[w][n]} =>
             \A u \in Uuids : book[u].name = n => book[u].rank = shown[w][n]
    BY <1>5, <2>2 DEF WriteRanks
  <2>4. RanksIn(taken[w], n) = {said[n]}
    BY <1>3, <2>1, <2>3, OneRank
  <2>5. PICK u \in Uuids : book[u].name = n
    BY <2>3
  <2>6. book'[u].rank = said[n]
    <3>1. CASE ChangedRank(w, n) # NoRank
      BY <1>2, <1>t, <2>4, <2>5, <3>1, ChangedFacts
    <3>2. CASE ChangedRank(w, n) = NoRank
      <4>1. shown[w][n] = said[n]
        BY <1>t, <2>4, <3>2, ChangedFacts
      <4> QED
        BY <1>2, <2>3, <2>4, <2>5, <3>2, <4>1
    <3> QED
      BY <3>1, <3>2
  <2>7. book'[u] = [name |-> n, rank |-> said[n]]
    BY <1>2, <2>5, <2>6
  <2> QED
    BY <1>1, <2>7 DEF RankStored
<1>6. ASSUME NEW n \in Names \ spoiled', said[n] # NoRank,
             n \in RankStored \/ RanksIn(inbox[w], n) \cup RanksIn(taken[w], n) # {}
      PROVE  RanksIn(inbox'[w], n) # {} \/ n \in RankStored'
  BY <1>1, <1>4, <1>5, <1>6
<1> QED
  BY <1>1, <1>6, AbandonRanks

\* Steps that leave what the ranks depend on.
LEMMA OtherRanks ==
  ASSUME BookInv, UNCHANGED <<said, inbox, taken, book>>, spoiled \subseteq spoiled'
  PROVE  RankAlone' /\ RanksRight'
BY RanksSame

LEMMA ResetDatabaseRanks ==
  ASSUME BookInv, NEW w \in Writers, ResetDatabase(w)
  PROVE  RankAlone' /\ RanksRight'
<1>1. subject' # "ranks" /\ OnlySubject'
  BY OtherOnly DEF ResetDatabase, BookInv, UuidsInv, NamesInv
<1>2. /\ \A n \in Names : said'[n] = NoRank
      /\ \A v \in Writers : \A q \in ToSet(inbox'[v]) \cup ToSet(taken'[v]) : q.rank = NoRank
  BY <1>1 DEF OnlySubject, InFlight
<1>3. \A v \in Writers, n \in Names : RanksIn(inbox'[v], n) = {} /\ RanksIn(taken'[v], n) = {}
  BY <1>2 DEF RanksIn
<1>4. RankAlone'
  BY <1>2 DEF RankAlone, InFlight
<1>5. RanksRight'
  BY <1>2, <1>3 DEF RanksRight
<1> QED
  BY <1>4, <1>5

-----------------------------------------------------------------------------
(* The invariant of the players.                                           *)

LEMMA BookStart == BookInit => BookInv
<1> SUFFICES ASSUME BookInit
             PROVE  RankAlone /\ RanksRight
  BY UuidsStart DEF BookInv
<1>1. \A w \in Writers : InFlight(w) = {} /\ inbox[w] = <<>> /\ taken[w] = <<>>
  BY EmptyRows DEF BookInit, InFlight
<1>2. RankAlone
  BY <1>1 DEF RankAlone
<1>3. RanksRight
  BY <1>1, NoRanks DEF BookInit, RanksRight
<1> QED
  BY <1>2, <1>3

LEMMA BookStands == BookInv /\ UNCHANGED bookVars => BookInv'
<1> SUFFICES ASSUME BookInv, UNCHANGED bookVars
             PROVE  BookInv'
  OBVIOUS
<1> USE DEF bookVars, cacheVars, tableVars
<1>1. BookTypes'
  BY DEF BookInv, UuidsInv, NamesInv, BookTypes
<1>2. IdsAgree' /\ WornSoon'
  BY NamesStay DEF BookInv, UuidsInv
<1>3. \A v \in Writers : ToSet(inbox'[v]) \cup ToSet(taken'[v]) = InFlight(v)
  BY DEF InFlight
<1>4. OnlySubject'
  BY <1>3, OnlyStays DEF BookInv, UuidsInv
<1>5. UuidsRight'
  BY <1>3, UuidsStay DEF BookInv
<1>6. RankAlone' /\ RanksRight'
  BY OtherRanks
<1> QED
  BY <1>1, <1>2, <1>4, <1>5, <1>6 DEF BookInv, UuidsInv, NamesInv

LEMMA RenameRanks ==
  ASSUME BookInv, NEW u \in Accounts, NEW n \in Names, Rename(u, n)
  PROVE  RankAlone' /\ RanksRight'
<1>1. UNCHANGED <<said, inbox, taken, book>> /\ spoiled \subseteq spoiled'
  BY DEF Rename, tableVars
<1> QED
  BY <1>1, OtherRanks

LEMMA StatementRanks ==
  ASSUME BookInv, NEW w \in Writers, Resolve(w) \/ WriteChat(w) \/ Remember(w)
  PROVE  RankAlone' /\ RanksRight'
<1>1. UNCHANGED <<said, inbox, taken, book, spoiled>>
  BY DEF Resolve, WriteChat, Remember, Keeps
<1> QED
  BY <1>1, OtherRanks

LEMMA BookKeeps == BookInv /\ BookStep => BookInv'
<1> SUFFICES ASSUME BookInv, BookStep
             PROVE  BookTypes' /\ IdsAgree' /\ WornSoon' /\ OnlySubject' /\ UuidsRight'
                      /\ RankAlone' /\ RanksRight'
  BY DEF BookInv, UuidsInv, NamesInv
<1>1. BookTypes /\ OnlySubject /\ NamesInv /\ UuidsInv
  BY DEF BookInv, UuidsInv, NamesInv
<1>2. ASSUME NEW w \in Writers, NEW n \in Names, Sight(w, n)
      PROVE  BookTypes' /\ IdsAgree' /\ WornSoon' /\ OnlySubject' /\ UuidsRight'
               /\ RankAlone' /\ RanksRight'
  BY <1>1, <1>2, SightTypes, SightNames, SightOnly, SightUuids, SightRanks
<1>3. ASSUME NEW u \in Accounts, NEW n \in Names, Rename(u, n)
      PROVE  BookTypes' /\ IdsAgree' /\ WornSoon' /\ OnlySubject' /\ UuidsRight'
               /\ RankAlone' /\ RanksRight'
  BY <1>1, <1>3, RenameTypes, RenameNames, RenameOnly, RenameUuids, RenameRanks
<1>4. ASSUME NEW w \in Writers, Drain(w)
      PROVE  BookTypes' /\ IdsAgree' /\ WornSoon' /\ OnlySubject' /\ UuidsRight'
               /\ RankAlone' /\ RanksRight'
  BY <1>1, <1>4, DrainTypes, DrainNames, OtherOnly, ByWriterUuids, DrainRanks
<1>5. ASSUME NEW w \in Writers, Resolve(w)
      PROVE  BookTypes' /\ IdsAgree' /\ WornSoon' /\ OnlySubject' /\ UuidsRight'
               /\ RankAlone' /\ RanksRight'
  BY <1>1, <1>5, ResolveTypes, ResolveNames, OtherOnly, ByWriterUuids, StatementRanks
<1>6. ASSUME NEW w \in Writers, WriteChat(w)
      PROVE  BookTypes' /\ IdsAgree' /\ WornSoon' /\ OnlySubject' /\ UuidsRight'
               /\ RankAlone' /\ RanksRight'
  BY <1>1, <1>6, WriteChatTypes, WriteChatNames, OtherOnly, ByWriterUuids, StatementRanks
<1>7. ASSUME NEW w \in Writers, RemoveOthers(w)
      PROVE  BookTypes' /\ IdsAgree' /\ WornSoon' /\ OnlySubject' /\ UuidsRight'
               /\ RankAlone' /\ RanksRight'
  BY <1>1, <1>7, RemoveOthersTypes, RemoveOthersNames, OtherOnly, RemoveOthersUuids,
     RemoveOthersRanks
<1>8. ASSUME NEW w \in Writers, InsertPlayers(w)
      PROVE  BookTypes' /\ IdsAgree' /\ WornSoon' /\ OnlySubject' /\ UuidsRight'
               /\ RankAlone' /\ RanksRight'
  BY <1>1, <1>8, InsertPlayersTypes, InsertPlayersNames, InsertPlayersOnly,
     InsertPlayersUuids, InsertPlayersRanks
<1>9. ASSUME NEW w \in Writers, Remember(w)
      PROVE  BookTypes' /\ IdsAgree' /\ WornSoon' /\ OnlySubject' /\ UuidsRight'
               /\ RankAlone' /\ RanksRight'
  BY <1>1, <1>9, RememberTypes, RememberNames, RememberOnly, RememberUuids, StatementRanks
<1>10. ASSUME NEW w \in Writers, WriteRanks(w)
       PROVE  BookTypes' /\ IdsAgree' /\ WornSoon' /\ OnlySubject' /\ UuidsRight'
                /\ RankAlone' /\ RanksRight'
  BY <1>1, <1>10, WriteRanksTypes, WriteRanksNames, OtherOnly, WriteRanksUuids,
     WriteRanksRanks
<1>11. ASSUME NEW w \in Writers, StatementFails(w)
       PROVE  BookTypes' /\ IdsAgree' /\ WornSoon' /\ OnlySubject' /\ UuidsRight'
                /\ RankAlone' /\ RanksRight'
  BY <1>1, <1>11, StatementFailsTypes, StatementFailsNames, OtherOnly,
     StatementFailsUuids, StatementFailsRanks
<1>12. ASSUME NEW w \in Writers, RestartWriter(w)
       PROVE  BookTypes' /\ IdsAgree' /\ WornSoon' /\ OnlySubject' /\ UuidsRight'
                /\ RankAlone' /\ RanksRight'
  BY <1>1, <1>12, RestartWriterTypes, RestartWriterNames, OtherOnly,
     RestartWriterUuids, RestartWriterRanks
<1>13. ASSUME NEW w \in Writers, ResetDatabase(w)
       PROVE  BookTypes' /\ IdsAgree' /\ WornSoon' /\ OnlySubject' /\ UuidsRight'
                /\ RankAlone' /\ RanksRight'
  BY <1>1, <1>13, ResetDatabaseTypes, ResetDatabaseNames, OtherOnly,
     ResetDatabaseUuids, ResetDatabaseRanks
<1> QED
  BY <1>2, <1>3, <1>4, <1>5, <1>6, <1>7, <1>8, <1>9, <1>10, <1>11, <1>12, <1>13 DEF BookStep

\* When nothing is on its way, the rows are there.
LEMMA BookSuffices == BookInv => PlayersAccounted
<1> SUFFICES ASSUME BookInv
             PROVE  IdentitiesKept /\ RanksKept /\ NamesKept
  BY DEF PlayersAccounted
<1>1. BookTypes
  BY DEF BookInv, UuidsInv, NamesInv
<1>2. ASSUME BookQuiet
      PROVE  OnTheWay = {} /\ RankOnTheWay = {} /\ Storing = {}
  <2>1. \A w \in Writers : inbox[w] = <<>> /\ taken[w] = <<>> /\ doing[w] # "remember"
    BY <1>1, <1>2 DEF BookQuiet, BookTypes
  <2>2. \A w \in Writers : InFlight(w) = {}
    BY <2>1, EmptyRows DEF InFlight
  <2>3. OnTheWay = {} /\ Storing = {}
    BY <2>1, <2>2 DEF OnTheWay, Storing
  <2>4. RankOnTheWay = {}
    BY <2>1, NoRanks DEF RankOnTheWay
  <2> QED
    BY <2>3, <2>4
<1>3. ASSUME BookQuiet, NEW n \in Names \ spoiled, n \in met
      PROVE  book[holder[n]].name = n
  <2>1. n \in Stored /\ holder[n] # NoUuid
    BY <1>2, <1>3 DEF BookInv, UuidsInv, UuidsRight
  <2> QED
    BY <2>1 DEF Stored
<1>4. ASSUME BookQuiet, NEW n \in Names \ spoiled, said[n] # NoRank
      PROVE  \E u \in Uuids : book[u] = [name |-> n, rank |-> said[n]]
  <2>1. n \in RankStored
    BY <1>2, <1>4 DEF BookInv, RanksRight
  <2> QED
    BY <2>1 DEF RankStored
<1>5. \A l \in linked : l[1] \notin spoiled => dict[l[1]] = l[2]
  BY DEF BookInv, UuidsInv, NamesInv, IdsAgree
<1>6. ASSUME BookQuiet, NEW u \in Uuids, book[u].name \notin spoiled \cup {NoPlayer}
      PROVE  <<u, book[u].name>> \in worn
  <2>1. book[u].name \in Names \ spoiled
    BY <1>1, <1>6 DEF BookTypes
  <2> QED
    BY <1>2, <1>6, <2>1 DEF BookInv, UuidsInv, NamesInv, WornSoon
<1> QED
  BY <1>3, <1>4, <1>5, <1>6 DEF IdentitiesKept, RanksKept, NamesKept

-----------------------------------------------------------------------------
(* Lines of the chat.                                                      *)

\* Two sequences, one after the other.
LEMMA JoinedFacts ==
  ASSUME NEW S, NEW s \in Seq(S), NEW t \in Seq(S)
  PROVE  /\ s \o t \in Seq(S) /\ Len(s \o t) = Len(s) + Len(t)
         /\ Len(s) \in Nat /\ Len(t) \in Nat
         /\ \A i \in 1..Len(s) : (s \o t)[i] = s[i]
         /\ \A i \in 1..Len(t) : (s \o t)[Len(s) + i] = t[i]
<1>1. /\ s \o t \in Seq(S) /\ Len(s \o t) = Len(s) + Len(t)
      /\ \A i \in 1..(Len(s) + Len(t)) : (s \o t)[i] = IF i <= Len(s) THEN s[i] ELSE t[i - Len(s)]
  BY ConcatProperties
<1>2. Len(s) \in Nat /\ Len(t) \in Nat
  BY LenProperties
<1>3. ASSUME NEW i \in 1..Len(s) PROVE (s \o t)[i] = s[i]
  <2>1. i \in 1..(Len(s) + Len(t)) /\ i <= Len(s)
    BY <1>2
  <2> QED
    BY <1>1, <2>1
<1>4. ASSUME NEW i \in 1..Len(t) PROVE (s \o t)[Len(s) + i] = t[i]
  <2>1. Len(s) + i \in 1..(Len(s) + Len(t)) /\ ~(Len(s) + i <= Len(s)) /\ (Len(s) + i) - Len(s) = i
    BY <1>2
  <2> QED
    BY <1>1, <2>1
<1> QED
  BY <1>1, <1>2, <1>3, <1>4

\* The patterns in the order in which they are tried: what is in angle
\* brackets first, then the happenings, then the two bracket patterns and the
\* arrow.
LEMMA OrderFacts ==
  /\ Len(Order) \in Nat /\ Len(Order) >= 8
  /\ Order[1] = "angle" /\ Order[2] = "join" /\ Order[3] = "leave"
  /\ Order[4] = "advancement" /\ Order[5] = "death"
  /\ Order[6] = "cute" /\ Order[7] = "tagged" /\ Order[8] = "rempolon"
<1> DEFINE Patterns == {"angle", "join", "leave", "advancement", "death", "cute", "tagged",
                     "rempolon", "prefixed", "colon", "nametag"}
           early == AnglePattern \o EventPatterns
<1>1. AnglePattern \in Seq(Patterns) /\ Len(AnglePattern) = 1 /\ AnglePattern[1] = "angle"
  BY DEF AnglePattern
<1>2. /\ EventPatterns \in Seq(Patterns) /\ Len(EventPatterns) = 4
      /\ EventPatterns[1] = "join" /\ EventPatterns[2] = "leave"
      /\ EventPatterns[3] = "advancement" /\ EventPatterns[4] = "death"
  BY DEF EventPatterns
<1>3. /\ LatePatterns \in Seq(Patterns) /\ Len(LatePatterns) = 6
      /\ LatePatterns[1] = "cute" /\ LatePatterns[2] = "tagged" /\ LatePatterns[3] = "rempolon"
  BY DEF LatePatterns
<1> HIDE DEF Patterns
<1>10. AnglePattern \in Seq(Patterns) /\ EventPatterns \in Seq(Patterns) /\ LatePatterns \in Seq(Patterns)
  BY <1>1, <1>2, <1>3
<1>4. /\ early \in Seq(Patterns) /\ Len(early) = Len(AnglePattern) + Len(EventPatterns)
      /\ \A i \in 1..Len(AnglePattern) : early[i] = AnglePattern[i]
      /\ \A i \in 1..Len(EventPatterns) : early[Len(AnglePattern) + i] = EventPatterns[i]
  BY ONLY <1>10, JoinedFacts
<1> HIDE DEF early
<1>5. /\ Len(early \o LatePatterns) = Len(early) + Len(LatePatterns)
      /\ \A i \in 1..Len(early) : (early \o LatePatterns)[i] = early[i]
      /\ \A i \in 1..Len(LatePatterns) : (early \o LatePatterns)[Len(early) + i] = LatePatterns[i]
  <2>1. early \in Seq(Patterns) /\ LatePatterns \in Seq(Patterns)
    BY <1>4, <1>10
  <2> QED
    BY ONLY <2>1, JoinedFacts
<1>6. Order = early \o LatePatterns
  BY DEF Order, early
<1>7. Len(early) = 5
  BY <1>1, <1>2, <1>4
<1>8. /\ early[1] = AnglePattern[1] /\ early[2] = EventPatterns[1] /\ early[3] = EventPatterns[2]
      /\ early[4] = EventPatterns[3] /\ early[5] = EventPatterns[4]
  <2>1. early[1] = AnglePattern[1]
    BY <1>1, <1>4
  <2>2. /\ early[1 + 1] = EventPatterns[1] /\ early[1 + 2] = EventPatterns[2]
        /\ early[1 + 3] = EventPatterns[3] /\ early[1 + 4] = EventPatterns[4]
    BY <1>1, <1>2, <1>4
  <2> QED
    BY <2>1, <2>2
<1>9. /\ Order[1] = early[1] /\ Order[2] = early[2] /\ Order[3] = early[3]
      /\ Order[4] = early[4] /\ Order[5] = early[5]
  BY <1>5, <1>6, <1>7
<1>11. /\ Order[5 + 1] = LatePatterns[1] /\ Order[5 + 2] = LatePatterns[2]
       /\ Order[5 + 3] = LatePatterns[3]
  <2>1. \A i \in 1..6 : Order[5 + i] = LatePatterns[i]
    BY <1>3, <1>5, <1>6, <1>7
  <2>2. 1 \in 1..6 /\ 2 \in 1..6 /\ 3 \in 1..6
    OBVIOUS
  <2> QED
    BY ONLY <2>1, <2>2
<1>12. Len(Order) = 11
  BY <1>3, <1>5, <1>6, <1>7
<1> QED
  BY <1>1, <1>2, <1>3, <1>8, <1>9, <1>11, <1>12

\* A line that no pattern takes is the server's; another is what the first
\* that takes it says.
TakenBy(l, i) ==
  /\ i \in 1..Len(Order)
  /\ Tried(l, Order[i])
  /\ \A j \in 1..Len(Order) : Tried(l, Order[j]) => i <= j

LEMMA ByFirstPattern ==
  ASSUME NEW l
  PROVE  \/ /\ \A i \in 1..Len(Order) : ~Tried(l, Order[i])
            /\ ByPattern(l) = Of("s")
         \/ \E i \in 1..Len(Order) :
              /\ TakenBy(l, i)
              /\ Order[i] \in Spoken => ByPattern(l) = FromCapture(l, Order[i])
              /\ Order[i] = "join" => ByPattern(l) = Result("j", NoName, Clean(Subject(l), l.codes))
              /\ Order[i] = "leave" => ByPattern(l) = Result("l", NoName, Clean(Subject(l), l.codes))
              /\ Order[i] = "advancement" => ByPattern(l) = Result("a", NoName, Clean(Subject(l), l.codes))
              /\ Order[i] = "death" =>
                   ByPattern(l) = IF Clean(Subject(l), l.codes) = NoName THEN Of("u")
                                  ELSE Result("d", NoName, Clean(Subject(l), l.codes))
<1> DEFINE fitting == {i \in 1..Len(Order) : Tried(l, Order[i])}
           k == CHOOSE i \in fitting : \A j \in fitting : i <= j
           about == Clean(Subject(l), l.codes)
<1>1. CASE fitting = {}
  <2>1. ByPattern(l) = Of("s")
    BY <1>1 DEF ByPattern
  <2> QED
    BY <1>1, <2>1
<1>2. CASE fitting # {}
  <2>1. fitting \in SUBSET Nat
    BY OrderFacts
  <2>2. \E i \in fitting : \A j \in fitting : i <= j
    <3> HIDE DEF fitting
    <3> QED
      BY <1>2, <2>1, LeastWorks
  <2>3. k \in fitting /\ \A j \in fitting : k <= j
    <3> HIDE DEF fitting
    <3> QED
      BY <2>2
  <2>4. ByPattern(l) =
          CASE fitting = {} -> Of("s")
            [] fitting # {} /\ Order[k] \in Spoken -> FromCapture(l, Order[k])
            [] fitting # {} /\ Order[k] \in {"join", "leave"} ->
                 Result(IF Order[k] = "join" THEN "j" ELSE "l", NoName, about)
            [] fitting # {} /\ Order[k] = "advancement" -> Result("a", NoName, about)
            [] fitting # {} /\ Order[k] = "death" ->
                 IF about = NoName THEN Of("u") ELSE Result("d", NoName, about)
    BY DEF ByPattern
  <2>5. \A p \in Spoken : p \notin {"join", "leave", "advancement", "death"}
    BY DEF Spoken, Happenings
  <2>6. TakenBy(l, k) /\ k \in 1..Len(Order)
    BY <2>3 DEF TakenBy
  <2> HIDE DEF fitting, k
  <2>7. /\ Order[k] \in Spoken => ByPattern(l) = FromCapture(l, Order[k])
        /\ Order[k] = "join" => ByPattern(l) = Result("j", NoName, about)
        /\ Order[k] = "leave" => ByPattern(l) = Result("l", NoName, about)
        /\ Order[k] = "advancement" => ByPattern(l) = Result("a", NoName, about)
        /\ Order[k] = "death" =>
             ByPattern(l) = IF about = NoName THEN Of("u") ELSE Result("d", NoName, about)
    <3> HIDE DEF about
    <3>1. CASE Order[k] \in Spoken
      BY <1>2, <2>4, <2>5, <3>1
    <3>2. CASE Order[k] = "join"
      BY <1>2, <2>4, <2>5, <3>2
    <3>3. CASE Order[k] = "leave"
      BY <1>2, <2>4, <2>5, <3>3
    <3>4. CASE Order[k] = "advancement"
      BY <1>2, <2>4, <2>5, <3>4
    <3>5. CASE Order[k] = "death"
      BY <1>2, <2>4, <2>5, <3>5
    <3> QED
      BY <2>5, <3>1, <3>2, <3>3, <3>4, <3>5
  <2> QED
    BY <2>6, <2>7
<1> QED
  BY <1>1, <1>2

\* A pattern is one of those for speech or for a happening.
LEMMA PatternKinds ==
  ASSUME NEW i \in 1..Len(Order)
  PROVE  Order[i] \in Spoken \/ Order[i] \in {"join", "leave", "advancement", "death"}
BY DEF Spoken, Happenings

\* The last patterns, and the names of those for speech.
LEMMA OrderEnd ==
  Len(Order) = 11 /\ Order[9] = "prefixed" /\ Order[10] = "colon" /\ Order[11] = "nametag"
<1> DEFINE Patterns == {"angle", "join", "leave", "advancement", "death", "cute", "tagged",
                     "rempolon", "prefixed", "colon", "nametag"}
           early == AnglePattern \o EventPatterns
<1>1. AnglePattern \in Seq(Patterns) /\ Len(AnglePattern) = 1
  BY DEF AnglePattern
<1>2. EventPatterns \in Seq(Patterns) /\ Len(EventPatterns) = 4
  BY DEF EventPatterns
<1>3. /\ LatePatterns \in Seq(Patterns) /\ Len(LatePatterns) = 6
      /\ LatePatterns[4] = "prefixed" /\ LatePatterns[5] = "colon" /\ LatePatterns[6] = "nametag"
  BY DEF LatePatterns
<1> HIDE DEF Patterns
<1>4. early \in Seq(Patterns) /\ Len(early) = 1 + 4
  <2>1. AnglePattern \in Seq(Patterns) /\ EventPatterns \in Seq(Patterns)
    BY <1>1, <1>2
  <2>2. early \in Seq(Patterns) /\ Len(early) = Len(AnglePattern) + Len(EventPatterns)
    BY ONLY <2>1, JoinedFacts
  <2> QED
    BY <1>1, <1>2, <2>2
<1> HIDE DEF early
<1>5. /\ Len(early \o LatePatterns) = Len(early) + Len(LatePatterns)
      /\ \A i \in 1..Len(LatePatterns) : (early \o LatePatterns)[Len(early) + i] = LatePatterns[i]
  <2>1. early \in Seq(Patterns) /\ LatePatterns \in Seq(Patterns)
    BY <1>3, <1>4
  <2> QED
    BY ONLY <2>1, JoinedFacts
<1>6. Order = early \o LatePatterns
  BY DEF Order, early
<1>7. /\ Order[5 + 4] = LatePatterns[4] /\ Order[5 + 5] = LatePatterns[5]
      /\ Order[5 + 6] = LatePatterns[6]
  BY <1>3, <1>4, <1>5, <1>6
<1> QED
  BY <1>3, <1>4, <1>5, <1>6, <1>7

LEMMA SpokenNames ==
  Spoken \subseteq {"angle", "cute", "tagged", "rempolon", "prefixed", "colon", "nametag"}
<1> SUFFICES ASSUME NEW i \in 1..Len(Order), Order[i] \notin Happenings
             PROVE  Order[i] \in {"angle", "cute", "tagged", "rempolon", "prefixed", "colon", "nametag"}
  BY DEF Spoken
<1>1. i \in {1, 2, 3, 4, 5, 6, 7, 8, 9, 10, 11}
  BY OrderEnd
<1> QED
  BY <1>1, OrderFacts, OrderEnd DEF Happenings

\* What chat_from_capture makes of a line: speech with the name it has, or
\* nothing with a name.
LEMMA CaptureFacts ==
  ASSUME NEW l, NEW p, NEW name, name = Captured(l, p)
  PROVE  /\ FromCapture(l, p).about = NoName
         /\ FromCapture(l, p).kind \in {"u", "s", "c"}
         /\ FromCapture(l, p).sender \in {name, NoName}
         /\ l.junk # "content" => FromCapture(l, p).kind # "u"
         /\ l.junk = "no" /\ name # "plugin" /\ Clean(name, l.codes /\ p \in {"cute", "colon"}) # NoName =>
              FromCapture(l, p) = Result("c", Clean(name, l.codes /\ p \in {"cute", "colon"}), NoName)
         /\ name = "plugin" => FromCapture(l, p).sender = NoName
<1>1. /\ name = "plugin" => FromCapture(l, p) \in {Of("u"), Of("s")}
      /\ name = "plugin" /\ l.junk # "content" => FromCapture(l, p) = Of("s")
  BY DEF FromCapture
<1>2. name # "plugin" /\ l.junk = "content" => FromCapture(l, p) = Of("u")
  BY DEF FromCapture
<1>3. name # "plugin" /\ l.junk # "content" =>
        FromCapture(l, p) = IF Clean(name, l.codes /\ p \in {"cute", "colon"}) = NoName THEN Of("s")
                            ELSE Result("c", Clean(name, l.codes /\ p \in {"cute", "colon"}), NoName)
  BY DEF FromCapture
<1>4. Clean(name, l.codes /\ p \in {"cute", "colon"}) \in {name, NoName}
  BY DEF Clean
<1> HIDE DEF FromCapture
<1> QED
  BY <1>1, <1>2, <1>3, <1>4 DEF Of, Result

\* clean_named keeps a name as it is or refuses it.
LEMMA CleanFacts ==
  ASSUME NEW n, NEW b \in BOOLEAN
  PROVE  /\ Clean(n, b) \in {n, NoName}
         /\ n # "starred" /\ ~(n = "codes" /\ b) => Clean(n, b) = n
BY DEF Clean, NoName

Handled(l) == IF Dropped(l) THEN NoRow ELSE ChatRowOf(l)

LEMMA TypedFacts ==
  ASSUME NEW l \in Typed
  PROVE  /\ l.truth = "typed" /\ l.from \in {"player", "system", "disguised"}
         /\ l.whisper \in BOOLEAN /\ l.codes \in BOOLEAN /\ l.name \in NameKinds
         /\ l.countdown \in BOOLEAN
         /\ l.from = "player" => l.junk \in {"no", "content"}
         /\ l.from # "player" =>
              /\ l.format \in Spoken /\ l.quotes \in BOOLEAN /\ (l.quotes => l.format \in Quoting)
              /\ l.fits \in Readings(l.format, l.quotes)
<1>1. CASE l \in OwnLines
  BY <1>1 DEF OwnLines
<1>2. CASE l \in FormattedLines
  <2>1. PICK f \in Spoken \cup Quoting, q \in BOOLEAN :
          l \in InFormat(f, q) /\ (IF q THEN f \in Quoting ELSE f \in Spoken)
    <3>1. PICK s \in Formats : l \in s
      BY <1>2 DEF FormattedLines
    <3>2. \/ \E f \in Spoken : s = InFormat(f, FALSE)
          \/ \E f \in Quoting : s = InFormat(f, TRUE)
      BY <3>1 DEF Formats
    <3> QED
      BY <3>1, <3>2
  <2>2. Quoting \subseteq Spoken
    <3>1. Len(Order) >= 10 /\ Order[10] = "colon"
      BY OrderEnd
    <3> QED
      BY <3>1, OrderFacts DEF Quoting, Spoken, Happenings
  <2>3. /\ l.truth = "typed" /\ l.from \in {"system", "disguised"}
        /\ l.whisper \in BOOLEAN /\ l.codes \in BOOLEAN /\ l.name \in NameKinds
        /\ l.countdown \in BOOLEAN /\ l.format = f /\ l.quotes = q /\ l.fits \in Readings(f, q)
    BY <2>1 DEF InFormat
  <2> QED
    BY <2>1, <2>2, <2>3
<1> QED
  BY <1>1, <1>2 DEF Typed

LEMMA AnnouncedFacts ==
  ASSUME NEW l \in Announced
  PROVE  /\ l.truth \in Happenings /\ l.from = "system" /\ l.whisper = FALSE
         /\ l.codes \in BOOLEAN /\ l.name \in NameKinds \cup {NoName}
         /\ l.format = "none" /\ l.quotes = FALSE
         /\ l.truth \in l.fits /\ l.fits \subseteq {l.truth, "death"}
         /\ l.junk = "no" /\ l.countdown = FALSE
         /\ l.name = NoName => l.truth \in {"join", "leave"}
<1>1. PICK h \in Happenings, e \in SUBSET {"death"}, n \in NameKinds \cup {NoName}, c \in BOOLEAN :
        l = Announcement(h, e, n, c) /\ (n = NoName => h \in {"join", "leave"})
  <2>1. \A n \in NameKinds : n # NoName
    BY DEF NameKinds, NoName
  <2>2. {"join", "leave"} \subseteq Happenings /\ {} \in SUBSET {"death"}
    BY DEF Happenings
  <2>3. \/ \E h \in Happenings, e \in SUBSET {"death"}, n \in NameKinds, c \in BOOLEAN :
             l = Announcement(h, e, n, c)
        \/ \E h \in {"join", "leave"} : l = Announcement(h, {}, NoName, TRUE)
    <3>1. CASE l \in Named
      <4>1. \E h \in Happenings, e \in SUBSET {"death"}, n \in NameKinds, c \in BOOLEAN :
               l = Announcement(h, e, n, c)
        BY <3>1 DEF Named
      <4> QED
        BY <4>1
    <3>2. CASE l \in Nameless
      BY <3>2 DEF Nameless
    <3> QED
      BY <3>1, <3>2 DEF Announced
  <2>4. CASE \E h \in Happenings, e \in SUBSET {"death"}, n \in NameKinds, c \in BOOLEAN :
               l = Announcement(h, e, n, c)
    BY <2>1, <2>4
  <2>5. CASE \E h \in {"join", "leave"} : l = Announcement(h, {}, NoName, TRUE)
    BY <2>2, <2>5
  <2> QED
    BY <2>3, <2>4, <2>5
<1>2. /\ l.truth = h /\ l.from = "system" /\ l.whisper = FALSE /\ l.codes = c /\ l.name = n
      /\ l.format = "none" /\ l.quotes = FALSE /\ l.fits = {h} \cup e
      /\ l.junk = "no" /\ l.countdown = FALSE
  BY <1>1 DEF Announcement
<1> QED
  BY <1>1, <1>2

LEMMA NoticeFacts ==
  ASSUME NEW l \in Notices
  PROVE  /\ l.truth = "notice" /\ l.from = "system" /\ l.whisper = FALSE
         /\ l.name \in NameKinds /\ l.codes \in BOOLEAN /\ l.format = "none" /\ l.quotes = FALSE
         /\ l.fits \subseteq Spoken \cup {"death"}
         /\ l.junk \in {"no", "line"} /\ l.countdown \in BOOLEAN
<1>1. /\ l.truth = "notice" /\ l.from = "system" /\ l.whisper = FALSE
      /\ l.name \in NameKinds /\ l.codes \in BOOLEAN /\ l.format = "none" /\ l.quotes = FALSE
      /\ l.fits \in NoticeReadings
      /\ l.junk \in {"no", "line"} /\ l.countdown \in BOOLEAN
  BY DEF Notices
<1>2. PICK p \in {{}} \cup {{q} : q \in Spoken}, e \in SUBSET {"death"} : l.fits = p \cup e
  BY <1>1 DEF NoticeReadings
<1>3. p \subseteq Spoken
  BY <1>2
<1> QED
  BY <1>1, <1>2, <1>3

\* A line in one of the formats: what it fits.
LEMMA ReadingFacts ==
  ASSUME NEW f \in Spoken, NEW q \in BOOLEAN, NEW fits \in Readings(f, q)
  PROVE  /\ f \in fits \/ (f = "cute" /\ ~q)
         /\ fits \subseteq Spoken \cup {"death"}
<1> DEFINE own == {{f} \cup s \cup (IF q THEN {"rempolon"} ELSE {}) : s \in SUBSET Beside(f)}
           missed == IF f = "cute" /\ ~q THEN {{}} ELSE {}
<1>1. PICK a \in own \cup missed, e \in SUBSET {"death"} : fits = a \cup e
  BY DEF Readings
<1>3. \/ a = {} /\ f = "cute" /\ ~q
      \/ \E s \in SUBSET Beside(f) : a = {f} \cup s \cup (IF q THEN {"rempolon"} ELSE {})
  <2>1. CASE a \in own
    BY <2>1
  <2>2. CASE a \in missed
    BY <2>2
  <2> QED
    BY <2>1, <2>2
<1> HIDE DEF own, missed
<1>2. Beside(f) \subseteq Spoken /\ "rempolon" \in Spoken
  <2>1. {"tagged", "rempolon"} \subseteq Spoken
    BY OrderFacts DEF Spoken, Happenings
  <2>2. {"prefixed", "nametag"} \subseteq Spoken
    BY OrderEnd DEF Spoken, Happenings
  <2>3. f \in {"angle", "cute", "tagged", "rempolon", "prefixed", "colon", "nametag"}
    BY SpokenNames
  <2> QED
    BY <2>1, <2>2, <2>3 DEF Beside
<1> QED
  BY <1>1, <1>2, <1>3

\* The arrow pattern takes another's name only where it comes first.
LEMMA SnatchedOnly ==
  ASSUME NEW l \in Typed, l.from # "player", l.quotes,
         NEW k \in 1..Len(Order), TakenBy(l, k), Order[k] = "rempolon"
  PROVE  Snatched(l)
<1>1. /\ l.format \in Quoting \cap Spoken /\ l.format \in l.fits
      /\ l.codes \in BOOLEAN /\ l.name \in NameKinds
  BY TypedFacts, ReadingFacts
<1>2. k \in Nat /\ k >= 1 /\ k \notin {1, 2, 3, 4, 5, 6, 7}
  <2>1. k \in Nat /\ k >= 1
    BY OrderFacts
  <2>2. k \notin {1, 2, 3, 4, 5, 6, 7}
    <3>1. ASSUME NEW i \in {1, 2, 3, 4, 5, 6, 7} PROVE Order[i] # "rempolon"
      BY ONLY <3>1, OrderFacts
    <3> QED
      BY <3>1
  <2> QED
    BY <2>1, <2>2
<1>3. {1, 6, 7} \subseteq 1..Len(Order)
  BY OrderFacts
<1>4. ~Tried(l, "angle") /\ ~Tried(l, "tagged") /\ ~Tried(l, "cute")
  <2>1. ASSUME NEW i \in {1, 6, 7} PROVE ~Tried(l, Order[i])
    <3>1. SUFFICES ASSUME Tried(l, Order[i]) PROVE FALSE
      OBVIOUS
    <3>2. k <= i
      BY <1>3, <3>1 DEF TakenBy
    <3> QED
      BY <1>2, <3>2
  <2> QED
    BY <2>1, OrderFacts
<1>5. l.format \notin {"angle", "tagged"}
  BY <1>1, <1>4 DEF Tried
<1>6. l.format = "cute" => Clean(l.name, l.codes) = NoName
  BY <1>1, <1>4 DEF Tried
<1> QED
  BY <1>1, <1>5, <1>6 DEF Snatched, Quoting

\* Whoever is taken for the speaker of a line is, unless it is snatched.
LEMMA CapturedOwn ==
  ASSUME NEW l \in Typed, l.from # "player", NEW k \in 1..Len(Order), TakenBy(l, k), ~Snatched(l)
  PROVE  Captured(l, Order[k]) = l.name
BY TypedFacts, SnatchedOnly DEF Captured

\* What a player said is stored as theirs.
LEMMA SpeechHandled ==
  ASSUME NEW l \in Typed
  PROVE  \/ Handled(l).sender = l.name /\ Handled(l).kind \in {"c", "w"}
         \/ l.name \in {"starred", "plugin"}
         \/ l.from # "player" /\ (l.junk # "no" \/ l.whisper)
         \/ "death" \in l.fits /\ "angle" \notin l.fits
         \/ l.name = "codes" /\ l.codes /\ l.fits \cap {"cute", "colon"} # {}
         \/ Snatched(l)
         \/ l.format = "cute" /\ "cute" \notin l.fits
<1> SUFFICES ASSUME l.name \notin {"starred", "plugin"},
                    ~(l.from # "player" /\ (l.junk # "no" \/ l.whisper)),
                    ~("death" \in l.fits /\ "angle" \notin l.fits),
                    ~(l.name = "codes" /\ l.codes /\ l.fits \cap {"cute", "colon"} # {}),
                    ~Snatched(l),
                    ~(l.format = "cute" /\ "cute" \notin l.fits)
             PROVE  Handled(l).sender = l.name /\ Handled(l).kind \in {"c", "w"}
  OBVIOUS
<1>1. /\ l.from \in {"player", "system", "disguised"}
      /\ l.whisper \in BOOLEAN /\ l.codes \in BOOLEAN /\ l.name \in NameKinds
      /\ l.from = "player" => l.junk \in {"no", "content"}
      /\ l.from # "player" => l.format \in Spoken /\ l.quotes \in BOOLEAN
                               /\ l.fits \in Readings(l.format, l.quotes)
  BY TypedFacts
<1>2. l.name # NoName
  BY <1>1 DEF NameKinds, NoName
<1>3. CASE l.from = "player"
  <2>1. Sender(l) = l.name
    BY <1>3 DEF Sender, Clean
  <2>2. Classify(l) = Of(IF l.whisper THEN "w" ELSE "c")
    BY <1>1, <1>3 DEF Classify
  <2>3. ~Dropped(l)
    BY <1>1, <1>2, <1>3, <2>1, <2>2 DEF Dropped
  <2>4. ChatRowOf(l) = [kind |-> IF l.whisper THEN "w" ELSE "c", sender |-> l.name, about |-> NoName, real |-> TRUE]
    <3>1. /\ Classify(l).kind = (IF l.whisper THEN "w" ELSE "c") /\ Classify(l).about = NoName
          /\ Classify(l).kind \notin {"j", "l"}
      BY <1>1, <2>2 DEF Of, Result
    <3> QED
      BY <1>3, <2>1, <3>1 DEF ChatRowOf
  <2> QED
    BY <2>3, <2>4 DEF Handled
<1>4. CASE l.from # "player"
  <2>1. l.junk = "no" /\ ~l.whisper
    BY <1>1, <1>4
  <2>2. Classify(l) = ByPattern(l)
    BY <1>1, <1>4, <2>1 DEF Classify
  <2>3. l.format \in l.fits /\ l.fits \subseteq Spoken \cup {"death"}
    BY <1>1, <1>4, ReadingFacts
  <2>5. ASSUME NEW p \in l.fits
        PROVE  Clean(l.name, l.codes /\ p \in {"cute", "colon"}) = l.name
    <3>1. ~(l.name = "codes" /\ l.codes /\ p \in {"cute", "colon"})
      BY <2>5
    <3> QED
      BY <1>1, <3>1, CleanFacts
  <2>7. \A p \in l.fits : Tried(l, p)
    <3>1. "cute" \in l.fits => Clean(l.name, l.codes) = l.name
      BY <1>1, CleanFacts
    <3> QED
      BY <1>2, <3>1 DEF Tried
  <2>9. PICK i \in 1..Len(Order) : Order[i] = l.format
    BY <1>1, <1>4 DEF Spoken
  <2>10. PICK k \in 1..Len(Order) :
           TakenBy(l, k) /\ (Order[k] \in Spoken => ByPattern(l) = FromCapture(l, Order[k]))
    BY <2>3, <2>7, <2>9, ByFirstPattern
  <2>11. Order[k] \in l.fits
    BY <2>10 DEF TakenBy, Tried
  <2>12. Order[k] \in Spoken
    <3>1. CASE "death" \in l.fits
      <4>1. Tried(l, Order[1]) /\ 1 \in 1..Len(Order)
        BY <2>7, <3>1, OrderFacts
      <4>2. k <= 1 /\ k \in Nat /\ k >= 1
        BY <2>10, <4>1, OrderFacts DEF TakenBy
      <4>3. Order[k] = "angle"
        BY <4>2, OrderFacts
      <4> QED
        BY <4>3, PatternKinds
    <3>2. CASE "death" \notin l.fits
      BY <2>3, <2>11, <3>2
    <3> QED
      BY <3>1, <3>2
  <2>13. Classify(l) = Result("c", l.name, NoName)
    <3>1. Captured(l, Order[k]) = l.name
      BY <1>4, <2>10, CapturedOwn
    <3>2. FromCapture(l, Order[k]) = Result("c", l.name, NoName)
      BY <1>2, <2>1, <2>5, <2>11, <3>1, CaptureFacts
    <3> QED
      BY <2>2, <2>10, <2>12, <3>2
  <2>14. Sender(l) = l.name
    BY <1>4, <2>13 DEF Sender, Result
  <2>15. ~Dropped(l)
    BY <1>4, <2>1, <2>13, <2>14 DEF Dropped, Result
  <2>16. ChatRowOf(l) = [kind |-> "c", sender |-> l.name, about |-> NoName, real |-> FALSE]
    <3>1. /\ Classify(l).kind = "c" /\ Classify(l).about = NoName
          /\ Classify(l).kind \notin {"j", "l"} /\ (l.from = "player") = FALSE
      BY <1>4, <2>13 DEF Result
    <3> QED
      BY <2>14, <3>1 DEF ChatRowOf
  <2> QED
    BY <2>15, <2>16 DEF Handled
<1> QED
  BY <1>3, <1>4

\* Who a line is taken to be said by, whatever else is made of it.
LEMMA SpeakerKnown ==
  ASSUME NEW l \in Typed, ~Snatched(l)
  PROVE  Handled(l).sender \in {l.name, NoName}
<1>1. Sender(l) \in {l.name, NoName}
  <2>1. CASE l.from = "player"
    BY <2>1 DEF Sender, Clean
  <2>2. CASE l.from # "player"
    <3>1. ByPattern(l).sender \in {l.name, NoName}
      <4>1. CASE ByPattern(l) = Of("s")
        BY <4>1 DEF Of, Result
      <4>2. CASE ByPattern(l) # Of("s")
        <5>1. PICK k \in 1..Len(Order) :
                /\ TakenBy(l, k)
                /\ Order[k] \in Spoken => ByPattern(l) = FromCapture(l, Order[k])
                /\ Order[k] \notin Spoken => ByPattern(l).sender = NoName
          BY <4>2, ByFirstPattern, PatternKinds DEF Of, Result
        <5>2. Captured(l, Order[k]) = l.name
          BY <2>2, <5>1, CapturedOwn
        <5>3. FromCapture(l, Order[k]).sender \in {l.name, NoName}
          BY <5>2, CaptureFacts
        <5> QED
          BY <5>1, <5>3
      <4> QED
        BY <4>1, <4>2
    <3>2. Classify(l).sender \in {l.name, NoName}
      <4>1. l.whisper \in BOOLEAN
        BY TypedFacts
      <4> QED
        BY <2>2, <3>1, <4>1 DEF Classify, Of, Result
    <3> QED
      BY <2>2, <3>2 DEF Sender
  <2> QED
    BY <2>1, <2>2
<1> QED
  BY <1>1 DEF Handled, ChatRowOf, NoRow

\* Only a pattern for speech finds who spoke.
LEMMA NobodyElse ==
  ASSUME NEW l \in Announced \cup Notices
  PROVE  Handled(l).sender = NoName \/ l.fits \cap Spoken # {}
<1> SUFFICES ASSUME l.fits \cap Spoken = {}
             PROVE  Handled(l).sender = NoName
  OBVIOUS
<1>1. l.from = "system" /\ l.whisper = FALSE
  BY AnnouncedFacts, NoticeFacts
<1>2. \A i \in 1..Len(Order) : TakenBy(l, i) => Order[i] \notin Spoken
  BY DEF TakenBy, Tried
<1>3. ByPattern(l).sender = NoName
  BY <1>2, ByFirstPattern, PatternKinds DEF Of, Result
<1>4. Classify(l).sender = NoName
  BY <1>1, <1>3 DEF Classify, Of, Result
<1>5. Sender(l) = NoName
  BY <1>1, <1>4 DEF Sender
<1> QED
  BY <1>5 DEF Handled, ChatRowOf, NoRow

\* What happened to a player is taken for what it is.
LEMMA AnnouncedAs ==
  ASSUME NEW l \in Announced
  PROVE  /\ l.truth = "join" => Classify(l) = Result("j", NoName, Clean(l.name, l.codes))
         /\ l.truth = "leave" => Classify(l) = Result("l", NoName, Clean(l.name, l.codes))
         /\ l.truth = "advancement" => Classify(l) = Result("a", NoName, Clean(l.name, l.codes))
         /\ l.truth = "death" =>
              Classify(l) = IF Clean(l.name, l.codes) = NoName THEN Of("u")
                            ELSE Result("d", NoName, Clean(l.name, l.codes))
<1>1. /\ l.truth \in Happenings /\ l.from = "system" /\ l.whisper = FALSE
      /\ l.truth \in l.fits /\ l.fits \subseteq {l.truth, "death"} /\ l.junk = "no" /\ l.format = "none"
  BY AnnouncedFacts
<1>2. l.truth \in {"join", "leave", "advancement", "death"}
  BY <1>1 DEF Happenings
<1>3. PICK i \in 2..5 : Order[i] = l.truth /\ (l.truth # "death" => i < 5)
  BY <1>2, OrderFacts
<1>4. i \in 1..Len(Order) /\ Tried(l, Order[i])
  BY <1>1, <1>2, <1>3, OrderFacts DEF Tried
<1>5. ASSUME NEW k \in 1..Len(Order), TakenBy(l, k) PROVE Order[k] = l.truth
  <2>1. Order[k] \in {l.truth, "death"} /\ k <= i /\ k \in Nat /\ k >= 1
    BY <1>1, <1>4, <1>5, OrderFacts DEF TakenBy, Tried
  <2>2. CASE l.truth = "death"
    BY <2>1, <2>2
  <2>3. CASE l.truth # "death"
    <3>1. k \in {1, 2, 3, 4}
      BY <1>3, <2>1, <2>3
    <3>2. Order[k] # "death"
      BY <3>1, OrderFacts
    <3> QED
      BY <2>1, <3>2
  <2> QED
    BY <2>2, <2>3
<1>6. Classify(l) = ByPattern(l)
  BY <1>1 DEF Classify
<1>7. Subject(l) = l.name
  BY <1>1 DEF Subject
<1> QED
  BY <1>2, <1>4, <1>5, <1>6, <1>7, ByFirstPattern

\* It is recorded, a join or a leave where chat owns them.
LEMMA HappeningHandled ==
  ASSUME NEW l \in Announced
  PROVE  \/ Handled(l).about = l.name /\ l.truth \in {"advancement", "death"}
         \/ /\ (IF Dropped(l) THEN Of("none") ELSE EventOf(l)).about = l.name
            /\ l.truth \in {"join", "leave"}
         \/ l.truth \in {"join", "leave"} /\ (~announces \/ l.name = "self")
         \/ Clean(l.name, l.codes) = NoName
<1> SUFFICES ASSUME Clean(l.name, l.codes) # NoName,
                    ~(l.truth \in {"join", "leave"} /\ (~announces \/ l.name = "self"))
             PROVE  \/ Handled(l).about = l.name /\ l.truth \in {"advancement", "death"}
                    \/ /\ (IF Dropped(l) THEN Of("none") ELSE EventOf(l)).about = l.name
                       /\ l.truth \in {"join", "leave"}
  OBVIOUS
<1>1. /\ l.truth \in {"join", "leave", "advancement", "death"} /\ l.from = "system"
      /\ l.junk = "no" /\ l.codes \in BOOLEAN
  BY AnnouncedFacts DEF Happenings
<1>2. Clean(l.name, l.codes) = l.name
  BY <1>1, CleanFacts
<1>3. PICK k \in {"j", "l", "a", "d"} :
        /\ Classify(l) = Result(k, NoName, l.name)
        /\ k \in {"j", "l"} <=> l.truth \in {"join", "leave"}
  BY <1>1, <1>2, AnnouncedAs
<1>4. /\ Classify(l).kind = k /\ Classify(l).sender = NoName /\ Classify(l).about = l.name
  BY <1>3 DEF Result
<1>5. Sender(l) = NoName
  BY <1>1, <1>4 DEF Sender
<1>6. ~Dropped(l)
  BY <1>1, <1>4, <1>5 DEF Dropped, NoName
<1>7. CASE l.truth \in {"join", "leave"}
  <2>1. announces /\ l.name # "self" /\ l.name # NoName
    BY <1>2, <1>7
  <2>2. EventOf(l) = Classify(l)
    BY <1>3, <1>4, <1>7, <2>1 DEF EventOf
  <2> QED
    BY <1>4, <1>6, <1>7, <2>2
<1>8. CASE l.truth \notin {"join", "leave"}
  <2>1. ChatRowOf(l).about = l.name
    BY <1>3, <1>4, <1>8 DEF ChatRowOf
  <2> QED
    BY <1>1, <1>6, <1>8, <2>1 DEF Handled
<1> QED
  BY <1>7, <1>8

\* A notice that is no junk is not dropped, unless it reads like the death of
\* somebody whose name is refused.
LEMMA NoticeHandled ==
  ASSUME NEW l \in Notices, l.junk = "no"
  PROVE  ~Dropped(l) \/ ("death" \in l.fits /\ Clean(l.name, l.codes) = NoName)
<1> SUFFICES ASSUME ~("death" \in l.fits /\ Clean(l.name, l.codes) = NoName) PROVE ~Dropped(l)
  OBVIOUS
<1>1. /\ l.from = "system" /\ l.whisper = FALSE /\ l.codes \in BOOLEAN /\ l.format = "none"
      /\ l.name \in NameKinds /\ l.fits \subseteq Spoken \cup {"death"} /\ l.quotes = FALSE
  BY NoticeFacts
<1>2. Classify(l) = ByPattern(l)
  BY <1>1 DEF Classify
<1>3. ASSUME NEW p PROVE FromCapture(l, p).kind # "u" /\ FromCapture(l, p).sender # "plugin"
  <2>1. Captured(l, p) = l.name
    BY <1>1 DEF Captured
  <2>2. FromCapture(l, p).sender \in {l.name, NoName} /\ (l.name = "plugin" => FromCapture(l, p).sender = NoName)
    BY <2>1, CaptureFacts
  <2>3. FromCapture(l, p).kind # "u"
    BY <2>1, CaptureFacts
  <2> QED
    BY <2>2, <2>3 DEF NoName
<1>4. ByPattern(l).kind # "u" /\ ByPattern(l).sender # "plugin"
  <2>1. CASE ByPattern(l) = Of("s")
    BY <2>1 DEF Of, Result, NoName
  <2>2. CASE ByPattern(l) # Of("s")
    <3>1. PICK k \in 1..Len(Order) :
            /\ TakenBy(l, k)
            /\ Order[k] \in Spoken => ByPattern(l) = FromCapture(l, Order[k])
            /\ Order[k] = "death" =>
                 ByPattern(l) = IF Clean(Subject(l), l.codes) = NoName THEN Of("u")
                                ELSE Result("d", NoName, Clean(Subject(l), l.codes))
      BY <2>2, ByFirstPattern
    <3>2. Order[k] \in l.fits
      BY <3>1 DEF TakenBy, Tried
    <3>3. CASE Order[k] \in Spoken
      BY <1>3, <3>1, <3>3
    <3>4. CASE Order[k] = "death"
      <4>1. Clean(Subject(l), l.codes) # NoName
        BY <1>1, <3>2, <3>4 DEF Subject
      <4> QED
        BY <3>1, <3>4, <4>1 DEF Result, NoName
    <3> QED
      BY <1>1, <3>2, <3>3, <3>4
  <2> QED
    BY <2>1, <2>2
<1>6. Sender(l) # "plugin" /\ Classify(l).kind # "u"
  BY <1>1, <1>2, <1>4 DEF Sender
<1> QED
  BY <1>1, <1>6 DEF Dropped

\* The rows of a line are those that handle_chat makes of it.
LinesInv ==
  \/ line = NoLine /\ row = NoRow /\ event = Of("none") /\ cleared = FALSE
  \/ \E l \in Lines :
       /\ line = l
       /\ row = Handled(l)
       /\ event = IF Dropped(l) THEN Of("none") ELSE EventOf(l)
       /\ cleared = (~Dropped(l) /\ RunsOut(l))

LEMMA LinesStart == LinesInit => LinesInv
BY DEF LinesInit, LinesInv

LEMMA LinesKeep ==
  ASSUME LinesInv, LinesStep
  PROVE  LinesInv'
<1>1. CASE HandleChat
  <2>1. PICK l \in Lines \ {NoLine} :
          /\ line' = l
          /\ row' = IF Dropped(l) THEN NoRow ELSE ChatRowOf(l)
          /\ event' = IF Dropped(l) THEN Of("none") ELSE EventOf(l)
          /\ cleared' = (~Dropped(l) /\ RunsOut(l))
    BY <1>1 DEF HandleChat
  <2>2. announces' = announces
    BY <1>1 DEF HandleChat
  <2>3. EventOf(l)' = EventOf(l)
    BY <2>2 DEF EventOf
  <2> QED
    BY <2>1, <2>3 DEF LinesInv, Handled
<1>2. CASE LineHandled
  BY <1>2 DEF LineHandled, LinesInv
<1> QED
  BY <1>1, <1>2 DEF LinesStep

LEMMA LinesStand ==
  ASSUME LinesInv, UNCHANGED lineVars
  PROVE  LinesInv'
<1>1. line' = line /\ row' = row /\ event' = event /\ cleared' = cleared /\ announces' = announces
  BY DEF lineVars
<1>2. \A l \in Lines : EventOf(l)' = EventOf(l)
  BY <1>1 DEF EventOf
<1> QED
  BY <1>1, <1>2 DEF LinesInv

LEMMA LinesSuffice ==
  ASSUME LinesInv
  PROVE  LinesAccounted
<1>1. CASE line = NoLine /\ row = NoRow /\ event = Of("none") /\ cleared = FALSE
  BY <1>1 DEF LinesAccounted, SpeechStored, NobodySpeaksForAnother, NobodyMisquoted, HappeningsStored,
              OnlyCountdownsClear, NoLine, NoRow, Happenings
<1>2. CASE /\ line \in Lines
           /\ row = Handled(line)
           /\ event = IF Dropped(line) THEN Of("none") ELSE EventOf(line)
           /\ cleared = (~Dropped(line) /\ RunsOut(line))
  <2>1. CASE line \in Typed
    <3>1. line.truth = "typed"
      BY <2>1, TypedFacts
    <3>2. SpeechStored
      BY <1>2, <2>1, SpeechHandled DEF SpeechStored
    <3>3. NobodyMisquoted /\ HappeningsStored
      BY <3>1 DEF NobodyMisquoted, HappeningsStored, Happenings
    <3>4. OnlyCountdownsClear
      BY <1>2, <3>1 DEF OnlyCountdownsClear, RunsOut
    <3>5. NobodySpeaksForAnother
      BY <1>2, <2>1, SpeakerKnown DEF NobodySpeaksForAnother
    <3> QED
      BY <3>2, <3>3, <3>4, <3>5 DEF LinesAccounted
  <2>2. CASE line \in Announced
    <3>1. line.truth \in Happenings /\ line.countdown = FALSE
      BY <2>2, AnnouncedFacts
    <3>2. SpeechStored /\ NobodySpeaksForAnother
      BY <3>1 DEF SpeechStored, NobodySpeaksForAnother, Happenings
    <3>3. NobodyMisquoted
      BY <1>2, <2>2, NobodyElse DEF NobodyMisquoted
    <3>4. HappeningsStored
      BY <1>2, <2>2, HappeningHandled DEF HappeningsStored
    <3>5. OnlyCountdownsClear
      BY <1>2, <3>1 DEF OnlyCountdownsClear, RunsOut, Happenings
    <3> QED
      BY <3>2, <3>3, <3>4, <3>5 DEF LinesAccounted
  <2>3. CASE line \in Notices
    <3>1. line.truth = "notice" /\ line.from = "system"
      BY <2>3, NoticeFacts
    <3>2. SpeechStored /\ NobodySpeaksForAnother /\ HappeningsStored
      BY <3>1 DEF SpeechStored, NobodySpeaksForAnother, HappeningsStored, Happenings
    <3>3. NobodyMisquoted
      BY <1>2, <2>3, NobodyElse DEF NobodyMisquoted
    <3>4. OnlyCountdownsClear
      BY <1>2, <2>3, <3>1, NoticeHandled DEF OnlyCountdownsClear, RunsOut
    <3> QED
      BY <3>2, <3>3, <3>4 DEF LinesAccounted
  <2> QED
    BY <1>2, <2>1, <2>2, <2>3 DEF Lines
<1> QED
  BY <1>1, <1>2 DEF LinesInv

-----------------------------------------------------------------------------
(* The composition: a step is one of a part's, and leaves the others.      *)

LEMMA PartsStep ==
  ASSUME [Next]_vars
  PROVE  /\ PresenceStep \/ UNCHANGED logVars
         /\ RollupsStep \/ UNCHANGED dayVars
         /\ ArchiveStep \/ UNCHANGED archiveVars
         /\ BookStep \/ UNCHANGED bookVars
         /\ LinesStep \/ UNCHANGED lineVars
BY DEF Next, Only, vars

\* What a day leaves for good is right: its totals are those of its rows, or
\* will be (db.rs refresh_rollups), and once it is packed every row is in the
\* archive, once (schema.sql archive_closed_days); each with its exceptions.
THEOREM DaysKept == Spec => []DaysAccounted
<1>1. Init => RollupsInv /\ ArchiveInv
  BY RollupsStart, ArchiveStarts DEF Init
<1>2. RollupsInv /\ [Next]_vars => RollupsInv'
  BY PartsStep, RollupsKeep, RollupsStand
<1>3. ArchiveInv /\ [Next]_vars => ArchiveInv'
  BY PartsStep, ArchiveKeeps, ArchiveStands
<1>4. RollupsInv /\ ArchiveInv => DaysAccounted
  BY DEF DaysAccounted, RollupsInv, ArchiveInv
<1> QED
  BY <1>1, <1>2, <1>3, <1>4, PTL DEF Spec

\* Once everything is written, player_presence is the tab list (db.rs
\* write_events, write_restarts, write_rejoins), and the joins that reconciling
\* adds to player_events_raw are never the second in a row; each with the
\* exceptions that LogWriter names.
THEOREM LogKept == Spec => []LogAccounted
<1>1. Init => PresenceInv
  BY PresenceStarts DEF Init
<1>2. PresenceInv /\ [Next]_vars => PresenceInv'
  BY PartsStep, PresenceKeeps, PresenceStands
<1>3. PresenceInv => LogAccounted
  BY PresenceSuffices
<1> QED
  BY <1>1, <1>2, <1>3, PTL DEF Spec

\* Once everything is written, a player whose uuid a logger was given has
\* their row under it (db.rs touch_players), with the rank that was shown last
\* (write_ranks), and player_names has the name; every chat row is linked with
\* the dictionary's id of its name (resolve_names); each with the exceptions
\* that PlayerBook names.
THEOREM PlayersKept == Spec => []PlayersAccounted
<1>1. Init => BookInv
  BY BookStart DEF Init
<1>2. BookInv /\ [Next]_vars => BookInv'
  BY PartsStep, BookKeeps, BookStands
<1>3. BookInv => PlayersAccounted
  BY BookSuffices
<1> QED
  BY <1>1, <1>2, <1>3, PTL DEF Spec

\* What a player said in the game is stored as theirs, nothing else is stored
\* as said by anybody, what happened to a player is recorded as it happened,
\* and only the server's countdown marks everyone offline (classify.rs
\* classify, main.rs handle_chat); each with the exceptions that ChatLines
\* names.
THEOREM LinesKept == Spec => []LinesAccounted
<1>1. Init => LinesInv
  BY LinesStart DEF Init
<1>2. LinesInv /\ [Next]_vars => LinesInv'
  BY PartsStep, LinesKeep, LinesStand
<1>3. LinesInv => LinesAccounted
  BY LinesSuffice
<1> QED
  BY <1>1, <1>2, <1>3, PTL DEF Spec
=============================================================================
