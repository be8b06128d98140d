----------------------------- MODULE QueueProbe -----------------------------
(***************************************************************************)
(* What a logger reads from the server's own texts (azalea-bot/src/        *)
(* main.rs): the place in the queue of one that only probes the queue      *)
(* ("queue": apply_queue_probe), and the number of players online of any   *)
(* ("reported": handle_queue_packet).  Each text is handled by a task of   *)
(* its own, which awaits a statement.                                      *)
(***************************************************************************)
EXTENDS Game

CONSTANTS LeaveAt,     \* QUEUE_LEAVE_AT
          MaxPlace,    \* the place a connection starts at
          Counts,      \* numbers of players the server may report
          Stale,       \* a count is written again after so many ticks
          MaxHandlers, MaxChanges, MaxFailures   \* bounds

ASSUME QueueAssumption ==
  /\ LeaveAt \in Nat /\ MaxPlace \in Nat /\ LeaveAt < MaxPlace /\ Counts \subseteq Nat \ {0}
  /\ Stale \in Nat \ {0} /\ MaxHandlers \in Nat /\ MaxChanges \in Nat /\ MaxFailures \in Nat

VARIABLES
  place,      \* the place in the queue; 0 is the server itself
  answering,  \* tasks that await upsert_queue_status: [of, place, leave]
  queueLeaving,
  closedBy,   \* history: the connection a task closed last, the task's own,
              \* and the place it was at: [conn, of, place]
  count,      \* what the server reports
  seen,       \* services.reported_online
  fresh,      \* ticks until LAST_WRITE is stale
  writes,     \* tasks of set_reported_online that have not been executed
  reported,   \* logger_heartbeats.reported_online
  changes, failures

placeVars == <<place, answering, queueLeaving, closedBy>>
countVars == <<count, seen, fresh, writes, reported, changes, failures>>
queueVars == <<placeVars, countVars>>

NotClosed == [conn |-> 0, of |-> 0, place |-> 0]

QueueInit ==
  /\ place = MaxPlace /\ answering = {} /\ queueLeaving = FALSE /\ closedBy = NotClosed
  /\ count \in IF mode = "reported" THEN Counts ELSE {0}
  /\ seen = 0 /\ fresh = 0 /\ writes = <<>> /\ reported = 0
  /\ changes = 0 /\ failures = 0

\* Mutant: the flag of the connection before is left set.
QueueLoginOnly ==
  /\ place' = MaxPlace
  /\ UNCHANGED <<answering, queueLeaving, closedBy, countVars>>

QueueLogin ==
  /\ queueLeaving' = FALSE
  /\ place' = MaxPlace
  /\ UNCHANGED <<answering, closedBy, countVars>>

-----------------------------------------------------------------------------
(* The queue.                                                              *)

PlaceUnchanged == UNCHANGED <<mode, phase, conn, spawns, countVars>>

\* The server lets the next one in.
Advance ==
  /\ mode = "queue" /\ phase = "game" /\ place > 0
  /\ place' = place - 1
  /\ UNCHANGED <<answering, queueLeaving, closedBy, closing>> /\ PlaceUnchanged

Close(h) ==
  /\ closing' = (closing \/ phase # "out")
  /\ closedBy' = IF phase = "out" THEN closedBy
                 ELSE [conn |-> conn, of |-> h.of, place |-> place]

\* A text that tells the place.  "Connected to the server" sets the flag
\* before the statement.
ReadPlace ==
  /\ mode = "queue" /\ phase = "game" /\ Cardinality(answering) < MaxHandlers
  /\ place = 0 => ~queueLeaving
  /\ answering' = answering \cup {[of |-> conn, place |-> place, leave |-> place = 0]}
  /\ queueLeaving' = (queueLeaving \/ place = 0)
  /\ UNCHANGED <<place, closedBy, closing>> /\ PlaceUnchanged

\* Mutant: any place makes the probe leave.
LeavesEarly(h) == TRUE

Leaves(h) == h.leave \/ (h.place <= LeaveAt /\ ~queueLeaving)

\* The statement is done or has failed; the place it was called with counts.
AnswerPlace(h) ==
  /\ answering' = answering \ {h}
  /\ queueLeaving' = (queueLeaving \/ h.place <= LeaveAt)
  /\ IF Leaves(h) THEN Close(h) ELSE UNCHANGED <<closing, closedBy>>
  /\ UNCHANGED place /\ PlaceUnchanged

-----------------------------------------------------------------------------
(* The number of players.                                                  *)

CountUnchanged == UNCHANGED <<gameVars, placeVars>>

ChangeCount ==
  /\ mode = "reported" /\ phase = "game" /\ changes < MaxChanges
  /\ count' \in Counts \ {count}
  /\ changes' = changes + 1
  /\ UNCHANGED <<seen, fresh, writes, reported, failures>> /\ CountUnchanged

\* Mutant: a count is written only when it changes.
WritesWhenNew == seen # count

WritesCount == seen # count \/ fresh = 0

\* The tab list's header, which the server sends again and again.
ReadCount ==
  /\ mode = "reported" /\ phase = "game"
  /\ WritesCount /\ Len(writes) < MaxHandlers
  /\ seen' = count
  /\ fresh' = Stale
  /\ writes' = Append(writes, count)
  /\ UNCHANGED <<count, reported, changes, failures>> /\ CountUnchanged

Age ==
  /\ mode = "reported" /\ fresh > 0
  /\ fresh' = fresh - 1
  /\ UNCHANGED <<count, seen, writes, reported, changes, failures>> /\ CountUnchanged

WithoutWrite(i) == SubSeq(writes, 1, i - 1) \o SubSeq(writes, i + 1, Len(writes))

\* The tasks run in any order.
WriteCount(i) ==
  /\ i \in 1 .. Len(writes)
  /\ reported' = writes[i]
  /\ writes' = WithoutWrite(i)
  /\ UNCHANGED <<count, seen, fresh, changes, failures>> /\ CountUnchanged

WriteFails(i) ==
  /\ i \in 1 .. Len(writes) /\ failures < MaxFailures
  /\ failures' = failures + 1
  /\ writes' = WithoutWrite(i)
  /\ UNCHANGED <<count, seen, fresh, reported, changes>> /\ CountUnchanged

QueueStep ==
  \/ Advance \/ ReadPlace
  \/ \E h \in answering : AnswerPlace(h)
  \/ ChangeCount \/ ReadCount \/ Age
  \/ \E i \in 1 .. MaxHandlers : WriteCount(i) \/ WriteFails(i)

-----------------------------------------------------------------------------
(* Properties.                                                             *)

\* The probe ends a connection only when the connection has come to LeaveAt or
\* to the server, unless the task that ends it was started on an earlier one:
\* it judges by the place it was called with, after its statement
\* (main.rs:1022-1040).
ClosedInTime ==
  closedBy.conn # 0 => closedBy.place <= LeaveAt \/ closedBy.of # closedBy.conn

\* A probe that has come to LeaveAt leaves and does not take somebody's place.
LeavesQueue ==
  (mode = "queue" /\ phase = "game" /\ place <= LeaveAt) ~> phase = "out"

\* While the server reports one number, the heartbeat's row comes to say it
\* and goes on saying it, though writes are unordered and may fail: a count
\* that has not changed is written again (main.rs:936-966).
CountSettles ==
  (<>[](mode = "reported" /\ phase = "game")) => <>[](reported = count)
=============================================================================
