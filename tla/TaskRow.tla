------------------------------ MODULE TaskRow ------------------------------
(***************************************************************************)
(* One row of the SQLite table "tasks" and the statements that rewrite it: *)
(* scheduler/queue.ts, the crash recovery of scheduler/index.ts and        *)
(* planTask of scheduler/reconcile.ts.  Each operator maps the row before  *)
(* a statement to the row after it.                                        *)
(*                                                                         *)
(* next_due_at is kept relative to the clock: None stands for NULL, a      *)
(* number for the time left until the task is due, 0 for "due or overdue". *)
(* last_error keeps what the code tests in it: the kind of message it      *)
(* starts with, how many "[crash recovery" stamps follow, and whether      *)
(* recovery gave the task up.                                              *)
(***************************************************************************)
EXTENDS Naturals

CONSTANTS
  None,      \* NULL: no due time, no task held, no worker registered
  Cadence,   \* delay until the next routine look at an item (computeNextDueAt)
  Delays     \* the other delays: retry after an error, 24h parking, 365 days

ASSUME DelaysPositive == /\ Cadence \in Nat \ {0}
                         /\ Delays \subseteq Nat \ {0}
                         /\ None \notin Nat

Statuses   == {"absent", "pending", "running", "done"}
Priorities == {"high", "normal"}
Snapshots  == {"none", "current", "old"}
Texts      == {"none", "short", "long", "ratelimit"}

DueTimes == {None} \cup Nat

\* The number of stamps at which recovery stops putting a task back.
AbandonAfter == 3

ErrorRecords == [text : Texts, stamps : 0..AbandonAfter, abandoned : BOOLEAN]

Rows == [status : Statuses, priority : Priorities, due : DueTimes,
         snapshot : Snapshots, error : ErrorRecords]

\* A fresh error message overwrites the column, stamps included.
Message(text) == [text |-> text, stamps |-> 0, abandoned |-> FALSE]

NoError == Message("none")

\* upsertTask inserts with the column defaults; "absent" is a row not inserted yet.
AbsentRow == [status |-> "absent", priority |-> "normal", due |-> None,
              snapshot |-> "none", error |-> NoError]

DueNow(row)   == row.due \in {None, 0}
Runnable(row) == row.status = "pending" /\ DueNow(row)

----------------------------------------------------------------------------
(* scheduler/queue.ts *)

\* enqueue: whatever the status was, the task is pending with this priority and due time.
EnqueuedRow(row, prio, due) ==
  [row EXCEPT !.status = "pending", !.priority = prio, !.due = due]

\* (mutant) Dequeue clears last_error, and the recovery stamps with it.
DequeuedRowForgetful(row) == [row EXCEPT !.status = "running", !.error = NoError]

DequeuedRow(row) == [row EXCEPT !.status = "running"]

MarkedDone(row, due) ==
  [row EXCEPT !.status = "done", !.due = due, !.error = NoError]

MarkedError(row, text, delay) ==
  [row EXCEPT !.status = "pending", !.due = delay, !.error = Message(text)]

\* Analysis said "ready": markDone, then enqueueImmediate, with no await in between.
MarkedReady(row) == EnqueuedRow(MarkedDone(row, None), "high", None)

----------------------------------------------------------------------------
(* recoverStuckTasks: the two UPDATEs on tasks left 'running' *)

\* substr(..., 1, 1024) cuts a stamp appended to a message that already fills the column.
Stamped(error) ==
  IF error.text = "long" THEN error ELSE [error EXCEPT !.stamps = @ + 1]

GivenUp(error) == error.stamps >= AbandonAfter

AbandonedRow(row, day) ==
  [row EXCEPT !.status = "done", !.due = day, !.error.abandoned = TRUE]

ResumedRow(row) ==
  [EnqueuedRow(row, "high", None) EXCEPT !.error = Stamped(row.error)]

\* (mutant) The task is given up by leaving it as it is.
RecoveredRowLeft(row, day) ==
  IF row.status # "running" \/ GivenUp(row.error) THEN row ELSE ResumedRow(row)

RecoveredRow(row, day) ==
  IF row.status # "running" THEN row
  ELSE IF GivenUp(row.error) THEN AbandonedRow(row, day) ELSE ResumedRow(row)

----------------------------------------------------------------------------
(* planTask: what the reconcile loop does with the row of a listed item *)

\* Running, or pending for later: left alone.
PlanLeaves(row) == row.status = "running" \/ (row.status = "pending" /\ ~DueNow(row))

\* (mutant) A changed item is enqueued at once instead of at its next due time.
PlannedRowEager(row) ==
  CASE PlanLeaves(row)                             -> row
    [] ~PlanLeaves(row) /\ row.snapshot = "none"   -> EnqueuedRow(row, "high", None)
    [] ~PlanLeaves(row) /\ row.snapshot = "old"    -> EnqueuedRow(row, "normal", Cadence)
    [] OTHER                                       -> row

PlannedRow(row) ==
  CASE PlanLeaves(row)                               -> row
    [] ~PlanLeaves(row) /\ row.snapshot = "none"     -> EnqueuedRow(row, "high", None)
    [] ~PlanLeaves(row) /\ row.snapshot = "old" /\ DueNow(row)
                                                     -> EnqueuedRow(row, "normal", Cadence)
    [] ~PlanLeaves(row) /\ row.snapshot = "current" /\ DueNow(row)
                                                     -> [row EXCEPT !.due = Cadence]
    [] OTHER                                         -> row

----------------------------------------------------------------------------
(* other statements of the admin pages and the API *)

\* POST /api/tasks/:id/cancel does not look at the status.
CancelledRow(row) == [row EXCEPT !.status = "done", !.error = Message("short")]

RateLimited(row) == row.status # "absent" /\ row.error.text = "ratelimit"

\* POST /admin/api/clear-rate-limit wakes every row whose error mentions a rate limit.
ClearedRow(row) ==
  IF RateLimited(row) THEN [EnqueuedRow(row, "high", None) EXCEPT !.error = NoError] ELSE row

\* The item changes on the forge: the stored snapshot is no longer its own.
EditedRow(row) == [row EXCEPT !.snapshot = IF @ = "current" THEN "old" ELSE @]

\* The wall clock advances by one unit.
Elapsed(row) == IF DueNow(row) THEN row ELSE [row EXCEPT !.due = @ - 1]
=============================================================================
