------------------------------ MODULE PrBranch ------------------------------
(***************************************************************************)
(* The SQLite table "pr_branches" and the statements on it: storage/       *)
(* pr-branches.ts, and the updates that the webhooks, the reconcile loop   *)
(* and the admin page make in place.                                       *)
(*                                                                         *)
(* A table is a sequence of rows, its indices the ids.  updated_at is only *)
(* ever compared with the time of a comment, so a row keeps, in "seen",    *)
(* how many comments existed when it was last written: comment c is newer  *)
(* than the row when c > seen.  "now" is that number at the time of the    *)
(* statement.                                                              *)
(***************************************************************************)
EXTENDS Naturals, Sequences

NoPr == 0     \* pr_number IS NULL

BranchStatuses == {"created", "open", "dirty", "no_changes", "guardrail_blocked",
                   "needs_human", "error", "cancelled", "closed"}

\* Statuses in which the issue's lanes leave the task to a human.
TERMINAL_BRANCH_STATUSES == {"guardrail_blocked", "no_changes", "needs_human"}

BranchRow(task, branch, pr, status, now) ==
  [task |-> task, branch |-> branch, pr |-> pr, status |-> status,
   iterations |-> 0, conflicts |-> 0, seen |-> now]

\* "ORDER BY id DESC LIMIT 1": the largest of the ids; 0 when there is none.
Newest(ids) == IF ids = {} THEN 0 ELSE CHOOSE i \in ids : \A j \in ids : j <= i

getPrBranchByTask(table, task) ==
  Newest({i \in DOMAIN table : table[i].task = task})

getPrBranchByPrNumber(table, pr) ==
  Newest({i \in DOMAIN table : table[i].pr = pr})

\* The row that stops the patch lanes from running again: created or open.
ActiveRow(table, task) ==
  Newest({i \in DOMAIN table : table[i].task = task /\ table[i].status \in {"created", "open"}})

\* recordPrBranch: one row per task and branch; what the call leaves out becomes NULL,
\* and the two counters are not touched.
recordPrBranch(table, task, branch, pr, status, now) ==
  IF \E i \in DOMAIN table : table[i].task = task /\ table[i].branch = branch
    THEN [i \in DOMAIN table |->
           IF table[i].task = task /\ table[i].branch = branch
             THEN [table[i] EXCEPT !.pr = pr, !.status = status, !.seen = now]
             ELSE table[i]]
    ELSE Append(table, BranchRow(task, branch, pr, status, now))

bumpIteration(table, i, now) ==
  [table EXCEPT ![i].iterations = @ + 1, ![i].seen = now]

bumpConflictResolutions(table, i, now) ==
  [table EXCEPT ![i].conflicts = @ + 1, ![i].seen = now]

\* updateBranchHeadSha: of what is modelled, only updated_at changes.
updateBranchHeadSha(table, i, now) == [table EXCEPT ![i].seen = now]

SetStatus(table, i, status, now) ==
  [table EXCEPT ![i].status = status, ![i].seen = now]

\* All rows of a task in one of the statuses become "cancelled".
CancelRows(table, task, statuses, now) ==
  [i \in DOMAIN table |->
    IF table[i].task = task /\ table[i].status \in statuses
      THEN [table[i] EXCEPT !.status = "cancelled", !.seen = now]
      ELSE table[i]]

\* (mutant) A comment lifts a park of any kind.
LiftAnyPark(table, task, now) ==
  CancelRows(table, task, {"error", "dirty"} \cup TERMINAL_BRANCH_STATUSES, now)

liftTransientPark(table, task, now) == CancelRows(table, task, {"error", "dirty"}, now)

\* planTask without the trigger label, and the Retry button of the admin page.
CancelBlocked(table, task, now) == CancelRows(table, task, {"guardrail_blocked"}, now)
=============================================================================
