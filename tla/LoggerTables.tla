---------------------------- MODULE LoggerTables -----------------------------
(***************************************************************************)
(* What a logger makes of the game, from its handlers to its tables,       *)
(* composed: what handle_chat writes of a line, and what the writer task   *)
(* keeps of it: the presence of the players, who they are, the totals of   *)
(* each day and its archive.  Each has tables of its own, and the modules  *)
(* abstract the rows to what their tables need, so that a behaviour        *)
(* follows one of them and leaves the others as they start.                *)
(***************************************************************************)
EXTENDS LogWriter, ChatLines, PlayerBook, DayRollups, DayArchive

VARIABLE part

vars == <<part, logVars, lineVars, bookVars, dayVars, archiveVars>>

Init ==
  /\ part \in {"presence", "lines", "players", "days", "archive"}
  /\ PresenceInit /\ LinesInit /\ BookInit /\ RollupsInit /\ ArchiveInit
  \* one initial state of the parts that are not followed
  /\ part # "presence" => tabJoins = CHOOSE m \in Modes : TRUE
  /\ part # "lines" => announces
  /\ part # "players" => subject = CHOOSE s \in Subjects : TRUE

\* A step of part p, which leaves the others alone.
Only(p, step) ==
  /\ part = p /\ part' = part
  /\ step
  /\ IF p = "presence" THEN TRUE ELSE UNCHANGED logVars
  /\ IF p = "lines" THEN TRUE ELSE UNCHANGED lineVars
  /\ IF p = "players" THEN TRUE ELSE UNCHANGED bookVars
  /\ IF p = "days" THEN TRUE ELSE UNCHANGED dayVars
  /\ IF p = "archive" THEN TRUE ELSE UNCHANGED archiveVars

Next ==
  \/ Only("presence", PresenceStep)
  \/ Only("lines", LinesStep)
  \/ Only("players", BookStep)
  \/ Only("days", RollupsStep)
  \/ Only("archive", ArchiveStep)

Spec == Init /\ [][Next]_vars

\* The writer's ticker flushes every second and the reconcile task comes
\* round every RECONCILE_SECS; nothing obliges players to come or go, and
\* only behaviours are looked at in which they stop doing so.
FairSpec ==
  /\ Spec
  /\ WF_vars(Only("presence", Write))
  /\ WF_vars(Only("presence", ReadTab))
  /\ WF_vars(Only("presence", QueueOnline))
  /\ WF_vars(Only("presence", GoQuiet))

-----------------------------------------------------------------------------
(* Properties.                                                             *)

\* Presence and the log show what the tab list did, each with the exceptions
\* that LogWriter names.
LogAccounted == PresenceAccounted /\ JoinsAccounted

\* What a day leaves for good: its totals and, once it is packed, its rows,
\* each with the exceptions that DayRollups and DayArchive name.
DaysAccounted == RollupsAccounted /\ RowsArchivedOnce
=============================================================================
