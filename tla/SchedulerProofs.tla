-------------------------- MODULE SchedulerProofs --------------------------
(***************************************************************************)
(* The types of Scheduler, and its safety theorems.  RunningHeld, the      *)
(* request invariant and the cadence hold for every value of the           *)
(* constants; the bound on crash recoveries needs error messages short     *)
(* enough for the stamps.                                                  *)
(***************************************************************************)
EXTENDS Scheduler, TLAPS

----------------------------------------------------------------------------
(* The statements on one row keep it a row. *)

\* An enqueued row is a pending row whatever it was before.
LEMMA EnqueuedType ==
  ASSUME NEW row \in Rows, NEW p \in Priorities, NEW d \in DueTimes
  PROVE  /\ EnqueuedRow(row, p, d) \in Rows
         /\ EnqueuedRow(row, p, d).status = "pending"
         /\ EnqueuedRow(row, p, d).error = row.error
BY DEF EnqueuedRow, Rows, Statuses

\* A new message is a well-formed error without stamps.
LEMMA MessageType ==
  /\ NoError \in ErrorRecords /\ NoError.stamps = 0 /\ NoError.text = "none"
  /\ \A text \in Texts : /\ Message(text) \in ErrorRecords
                         /\ Message(text).stamps = 0 /\ Message(text).text = text
BY DEF Message, NoError, ErrorRecords, Texts, AbandonAfter

\* Dequeue and the ends of a lane.
LEMMA LaneRowTypes ==
  ASSUME NEW row \in Rows
  PROVE  /\ DequeuedRow(row) \in Rows /\ DequeuedRow(row).status = "running"
         /\ DequeuedRow(row).error = row.error
         /\ \A d \in DueTimes : /\ MarkedDone(row, d) \in Rows
                                /\ MarkedDone(row, d).status = "done"
                                /\ MarkedDone(row, d).error = NoError
         /\ \A text \in Texts, d \in DueTimes :
              /\ MarkedError(row, text, d) \in Rows
              /\ MarkedError(row, text, d).status = "pending"
              /\ MarkedError(row, text, d).error = Message(text)
         /\ MarkedReady(row) \in Rows
         /\ MarkedReady(row).status = "pending" /\ MarkedReady(row).error = NoError
<1>1. DequeuedRow(row) \in Rows /\ DequeuedRow(row).status = "running"
      /\ DequeuedRow(row).error = row.error
  BY DEF DequeuedRow, Rows, Statuses
<1>2. \A d \in DueTimes : /\ MarkedDone(row, d) \in Rows
                          /\ MarkedDone(row, d).status = "done"
                          /\ MarkedDone(row, d).error = NoError
  BY MessageType DEF MarkedDone, Rows, Statuses
<1>3. \A text \in Texts, d \in DueTimes :
         /\ MarkedError(row, text, d) \in Rows
         /\ MarkedError(row, text, d).status = "pending"
         /\ MarkedError(row, text, d).error = Message(text)
  BY MessageType DEF MarkedError, Rows, Statuses
<1>4. MarkedReady(row) \in Rows /\ MarkedReady(row).status = "pending"
      /\ MarkedReady(row).error = NoError
  <2>1. None \in DueTimes /\ "high" \in Priorities
    BY DEF DueTimes, Priorities
  <2> QED BY <2>1, <1>2, EnqueuedType DEF MarkedReady
<1> QED BY <1>1, <1>2, <1>3, <1>4

\* Recovery: a running row is done or pending afterwards, any other is untouched.
LEMMA RecoveredType ==
  ASSUME NEW row \in Rows, NEW day \in Nat
  PROVE  /\ RecoveredRow(row, day) \in Rows
         /\ RecoveredRow(row, day).status # "running"
         /\ row.status # "running" => RecoveredRow(row, day) = row
<1>1. CASE row.status # "running"
  BY <1>1 DEF RecoveredRow
<1>2. CASE row.status = "running" /\ GivenUp(row.error)
  BY <1>2 DEF RecoveredRow, AbandonedRow, Rows, Statuses, ErrorRecords, DueTimes
<1>3. CASE row.status = "running" /\ ~GivenUp(row.error)
  <2>1. Stamped(row.error) \in ErrorRecords
    BY <1>3 DEF Stamped, GivenUp, Rows, ErrorRecords, AbandonAfter
  <2>2. /\ EnqueuedRow(row, "high", None) \in Rows
        /\ EnqueuedRow(row, "high", None).status = "pending"
    BY EnqueuedType DEF Priorities, DueTimes
  <2>3. ResumedRow(row) \in Rows /\ ResumedRow(row).status = "pending"
    BY <2>1, <2>2 DEF ResumedRow, Rows
  <2> QED BY <1>3, <2>3 DEF RecoveredRow
<1> QED BY <1>1, <1>2, <1>3

\* planTask keeps rows, never starts or ends a task, and only adds to the queue.
LEMMA PlannedType ==
  ASSUME NEW row \in Rows
  PROVE  /\ PlannedRow(row) \in Rows
         /\ PlannedRow(row).status # row.status => PlannedRow(row).status = "pending"
         /\ row.status = "running" => PlannedRow(row) = row
         /\ PlannedRow(row).error = row.error
<1>1. CASE PlanLeaves(row)
  BY <1>1 DEF PlannedRow
<1>2. CASE ~PlanLeaves(row)
  <2>1. row.status # "running"
    BY <1>2 DEF PlanLeaves
  <2>2. /\ None \in DueTimes /\ Cadence \in DueTimes
        /\ "high" \in Priorities /\ "normal" \in Priorities
    BY DelaysPositive DEF DueTimes, Priorities
  <2>3. [row EXCEPT !.due = Cadence] \in Rows
    BY <2>2 DEF Rows
  <2> QED BY <1>2, <2>1, <2>2, <2>3, EnqueuedType DEF PlannedRow, Rows
<1> QED BY <1>1, <1>2

\* The admin statements and the clock.
LEMMA OtherRowTypes ==
  ASSUME NEW row \in Rows
  PROVE  /\ CancelledRow(row) \in Rows /\ CancelledRow(row).status = "done"
         /\ CancelledRow(row).error = Message("short")
         /\ ClearedRow(row) \in Rows
         /\ ClearedRow(row).status \in {row.status, "pending"}
         /\ ~RateLimited(row) => ClearedRow(row) = row
         /\ RateLimited(row) => ClearedRow(row).error = NoError
         /\ Elapsed(row) \in Rows /\ Elapsed(row).status = row.status
         /\ Elapsed(row).error = row.error
         /\ EditedRow(row) \in Rows /\ EditedRow(row).status = row.status
         /\ EditedRow(row).error = row.error
<1>1. /\ CancelledRow(row) \in Rows /\ CancelledRow(row).status = "done"
      /\ CancelledRow(row).error = Message("short")
  BY MessageType DEF CancelledRow, Rows, Statuses, Texts
<1>2. /\ EnqueuedRow(row, "high", None) \in Rows
      /\ EnqueuedRow(row, "high", None).status = "pending"
  BY EnqueuedType DEF Priorities, DueTimes
<1>3. /\ ClearedRow(row) \in Rows /\ ClearedRow(row).status \in {row.status, "pending"}
      /\ ~RateLimited(row) => ClearedRow(row) = row
      /\ RateLimited(row) => ClearedRow(row).error = NoError
  BY <1>2, MessageType DEF ClearedRow, Rows
<1>4. Elapsed(row) \in Rows /\ Elapsed(row).status = row.status
      /\ Elapsed(row).error = row.error
  <2>1. CASE DueNow(row)
    BY <2>1 DEF Elapsed
  <2>2. CASE ~DueNow(row)
    <3>1. row.due \in Nat \ {0}
      BY <2>2 DEF DueNow, Rows, DueTimes
    <3>2. row.due - 1 \in DueTimes
      BY <3>1 DEF DueTimes
    <3> QED BY <2>2, <3>2 DEF Elapsed, Rows
  <2> QED BY <2>1, <2>2
<1>5. EditedRow(row) \in Rows /\ EditedRow(row).status = row.status
      /\ EditedRow(row).error = row.error
  BY DEF EditedRow, Rows, Snapshots
<1> QED BY <1>1, <1>3, <1>4, <1>5

----------------------------------------------------------------------------
(* Type correctness. *)

\* Writing one row keeps the table a table.
LEMMA SetRowType ==
  ASSUME task \in [Tasks -> Rows], NEW t \in Tasks, NEW row \in Rows, SetRow(t, row)
  PROVE  /\ task' \in [Tasks -> Rows]
         /\ task'[t] = row /\ \A u \in Tasks : u # t => task'[u] = task[u]
BY DEF SetRow

\* The end of a lane, for any row it leaves.
LEMMA LaneOverType ==
  ASSUME TypeOK, NEW w \in Workers, NEW row, LaneOver(w, row),
         pc[w] = "lane" => holds[w] \in Tasks /\ row \in Rows /\ left[w] > 0
  PROVE  TypeOK'
<1>1. pc[w] = "lane" /\ holds[w] \in Tasks /\ row \in Rows /\ left[w] > 0
  BY DEF LaneOver
<1>2. task' \in [Tasks -> Rows]
  BY <1>1, SetRowType DEF LaneOver, TypeOK
<1>3. left' \in [Workers -> 0..BatchSize]
  BY <1>1, SchedulerConstants DEF LaneOver, Spend, TypeOK
<1> QED BY <1>1, <1>2, <1>3
        DEF LaneOver, TypeOK, envVars, procVars, scanVars

\* A worker holds a task exactly while it is in a lane, and that iteration of its
\* drain loop is not spent yet.
HoldsInLane ==
  \A w \in Workers : /\ pc[w] = "lane" <=> holds[w] # None
                     /\ pc[w] = "lane" => left[w] > 0

\* Types alone are not inductive: the end of a lane writes the row of the task held.
TypeInv == TypeOK /\ HoldsInLane

LEMMA TypeInvInit == Init => TypeInv
<1> SUFFICES ASSUME Init PROVE TypeInv
  OBVIOUS
<1>1. AbsentRow \in Rows
  BY MessageType DEF AbsentRow, Rows, Statuses, Priorities, DueTimes, Snapshots
<1>2. TypeOK
  <2>1. task \in [Tasks -> Rows] /\ config \in [Repos -> AllConfigStates]
    BY <1>1 DEF Init, AllConfigStates
  <2>2. cliConfig \in [CliWorkers -> [Repos -> AllConfigStates]]
    BY <2>1 DEF Init
  <2>3. left \in [Workers -> 0..BatchSize]
    BY SchedulerConstants DEF Init
  <2> QED BY <2>1, <2>2, <2>3 DEF Init, TypeOK
<1>3. HoldsInLane
  BY DEF Init, HoldsInLane
<1> QED BY <1>2, <1>3 DEF TypeInv

\* Requests, cancellations and the cleared rate limit.
LEMMA TypeInvRequest ==
  TypeInv /\ (RequestStep \/ ClearRateLimit) => TypeInv'
<1> SUFFICES ASSUME TypeInv PROVE RequestStep \/ ClearRateLimit => TypeInv'
  OBVIOUS
<1> USE DEF TypeInv, envVars, procVars, workerVars, scanVars, histVars
<1>0. \A t \in Tasks : Ask(t) => asked' \in [Tasks -> {"no", "idle", "busy"}]
  <2>1. \A t \in Tasks : (IF Held(t) THEN "busy" ELSE "idle") \in {"no", "idle", "busy"}
    OBVIOUS
  <2> QED BY <2>1 DEF Ask, TypeOK
<1>1. ASSUME NEW t \in Tasks, NEW p \in Priorities, Request(t, p) PROVE TypeInv'
  <2>1. task[t] \in Rows /\ None \in DueTimes
    BY DEF TypeOK, DueTimes
  <2>2. task' \in [Tasks -> Rows]
    BY <1>1, <2>1, EnqueuedType, SetRowType DEF Request, TypeOK
  <2> QED BY <1>0, <1>1, <2>2 DEF Request, TypeOK, HoldsInLane
<1>2. ASSUME NEW t \in Tasks, Cancel(t) PROVE TypeInv'
  <2>1. task' \in [Tasks -> Rows]
    BY <1>2, OtherRowTypes, SetRowType DEF Cancel, TypeOK
  <2> QED BY <1>2, <2>1 DEF Cancel, TypeOK, HoldsInLane
<1>3. ASSUME ClearRateLimit PROVE TypeInv'
  <2>1. task' \in [Tasks -> Rows]
    BY <1>3, OtherRowTypes DEF ClearRateLimit, TypeOK
  <2>2. resumes' \in [Tasks -> Nat]
    BY <1>3 DEF ClearRateLimit, TypeOK
  <2> QED BY <1>3, <2>1, <2>2 DEF ClearRateLimit, TypeOK, HoldsInLane
<1> QED BY <1>1, <1>2, <1>3 DEF RequestStep

\* Drain workers.
LEMMA TypeInvDrain ==
  TypeInv /\ (DrainStep \/ \E r \in Repos : TickDrain(r)) => TypeInv'
<1> SUFFICES ASSUME TypeInv PROVE DrainStep \/ (\E r \in Repos : TickDrain(r)) => TypeInv'
  OBVIOUS
<1> USE SchedulerConstants
    DEF TypeInv, envVars, procVars, workerVars, scanVars, histVars, Spend
<1>1. ASSUME NEW r \in Repos, TickDrain(r) PROVE TypeInv'
  <2>1. PICK w \in DaemonWorkers : /\ EnsureWorker(r, w)
                                   /\ pc[w] = "idle"
                                   /\ pc' = [pc EXCEPT ![w] = "pull"]
                                   /\ left' = [left EXCEPT ![w] = BatchSize]
    BY <1>1 DEF TickDrain
  <2>2. w \in Workers
    BY DEF Workers
  <2>3. /\ registered' \in [Repos -> DaemonWorkers \cup {None}]
        /\ serves' \in [DaemonWorkers -> Repos \cup {None}]
    <3>1. CASE UNCHANGED <<registered, serves>>
      BY <3>1 DEF TypeOK
    <3>2. CASE /\ registered' = [registered EXCEPT ![r] = w]
               /\ serves' = [serves EXCEPT ![w] = r]
      BY <3>2 DEF TypeOK
    <3> QED BY <2>1, <3>1, <3>2 DEF EnsureWorker
  <2>4. TypeOK'
    BY <1>1, <2>1, <2>2, <2>3 DEF TickDrain, TypeOK
  <2>5. HoldsInLane'
    BY <1>1, <2>1, <2>2 DEF TickDrain, TypeOK, HoldsInLane
  <2> QED BY <2>4, <2>5
<1>2. ASSUME NEW w \in Workers, PullNothing(w) PROVE TypeInv'
  BY <1>2 DEF PullNothing, TypeOK, HoldsInLane
<1>3. ASSUME NEW w \in Workers, PullPaused(w) PROVE TypeInv'
  BY <1>3 DEF PullPaused, TypeOK, HoldsInLane
<1>4. ASSUME NEW w \in Workers, NEW t \in Tasks, PullParked(w, t) PROVE TypeInv'
  <2>1. PICK day \in Delays : SetRow(t, MarkedError(DequeuedRow(task[t]), "short", day))
    BY <1>4 DEF PullParked
  <2>2. day \in DueTimes /\ "short" \in Texts
    BY DelaysPositive DEF DueTimes, Texts
  <2>3. task' \in [Tasks -> Rows]
    BY <2>1, <2>2, LaneRowTypes, SetRowType DEF TypeOK
  <2>4. TypeOK'
    <3>1. left' \in [Workers -> 0..BatchSize] /\ resumes' \in [Tasks -> Nat]
      BY <1>4 DEF PullParked, TypeOK
    <3>2. UNCHANGED <<config, paused, mode, ended, registered, serves, pc, holds, fetched,
                      cliConfig, reconciling, toPlan, toPoll, asked, orphaned>>
      BY <1>4 DEF PullParked
    <3> QED BY <2>3, <3>1, <3>2 DEF TypeOK
  <2>5. HoldsInLane'
    BY <1>4 DEF PullParked, TypeOK, HoldsInLane
  <2> QED BY <2>4, <2>5
<1>5. ASSUME NEW w \in Workers, NEW t \in Tasks, PullStart(w, t) PROVE TypeInv'
  <2>1. task' \in [Tasks -> Rows]
    BY <1>5, LaneRowTypes, SetRowType DEF PullStart, TypeOK
  <2>2. TypeOK'
    BY <1>5, <2>1 DEF PullStart, TypeOK
  <2>3. t # None /\ left'[w] > 0
    BY <1>5 DEF PullStart
  <2>4. HoldsInLane'
    BY <1>5, <2>3 DEF PullStart, TypeOK, HoldsInLane
  <2> QED BY <2>2, <2>4
<1> QED BY <1>1, <1>2, <1>3, <1>4, <1>5 DEF DrainStep

\* Lanes.
LEMMA TypeInvLane == TypeInv /\ LaneStep => TypeInv'
<1> SUFFICES ASSUME TypeInv, NEW w \in Workers,
                    LaneRecords(w) \/ LaneDone(w) \/ LaneReady(w) \/ LaneFailed(w)
             PROVE  TypeInv'
  BY DEF LaneStep
<1> USE DEF TypeInv
<1>1. pc[w] = "lane" /\ holds[w] \in Tasks /\ left[w] > 0
  BY DEF LaneRecords, LaneDone, LaneReady, LaneFailed, LaneOver, HoldsInLane, TypeOK
<1>2. task[holds[w]] \in Rows
  BY <1>1 DEF TypeOK
<1>3. ASSUME NEW row \in Rows, LaneOver(w, row) PROVE TypeInv'
  <2>1. TypeOK'
    BY <1>1, <1>3, LaneOverType
  <2>2. HoldsInLane'
    BY <1>1, <1>3 DEF LaneOver, TypeOK, HoldsInLane, Spend
  <2> QED BY <2>1, <2>2
<1>4. CASE LaneRecords(w)
  <2>1. PICK s \in Snapshots : SetRow(holds[w], [task[holds[w]] EXCEPT !.snapshot = s])
    BY <1>4 DEF LaneRecords, Snapshots
  <2>2. [task[holds[w]] EXCEPT !.snapshot = s] \in Rows
    BY <1>2 DEF Rows
  <2>3. task' \in [Tasks -> Rows]
    BY <1>1, <2>1, <2>2, SetRowType DEF TypeOK
  <2> QED BY <1>4, <2>3 DEF LaneRecords, TypeOK, HoldsInLane, envVars, procVars,
                            workerVars, scanVars, histVars
<1>5. CASE LaneDone(w)
  <2>1. PICK d \in Delays \cup {Cadence} : LaneOver(w, MarkedDone(task[holds[w]], d))
    BY <1>5 DEF LaneDone
  <2> QED BY <1>2, <1>3, <2>1, LaneRowTypes, DelaysPositive DEF DueTimes
<1>6. CASE LaneReady(w)
  BY <1>2, <1>3, <1>6, LaneRowTypes DEF LaneReady
<1>7. CASE LaneFailed(w)
  <2>1. PICK text \in ErrorTexts, d \in Delays :
          LaneOver(w, MarkedError(task[holds[w]], text, d))
    BY <1>7 DEF LaneFailed
  <2>2. text \in Texts /\ d \in DueTimes
    BY SchedulerConstants, DelaysPositive DEF DueTimes
  <2> QED BY <1>2, <1>3, <2>1, <2>2, LaneRowTypes
<1> QED BY <1>4, <1>5, <1>6, <1>7

\* The reconcile loop and the command line.
LEMMA TypeInvScan ==
  TypeInv /\ (ScanStep \/ TickReconcile \/ EndReconcile \/ CliStep) => TypeInv'
<1> SUFFICES ASSUME TypeInv
             PROVE  ScanStep \/ TickReconcile \/ EndReconcile \/ CliStep => TypeInv'
  OBVIOUS
<1> USE SchedulerConstants
    DEF TypeInv, envVars, procVars, workerVars, scanVars, histVars
<1>0. Daemon \in Scanners /\ CliWorkers \subseteq Scanners /\ CliWorkers \subseteq Workers
  BY DEF Scanners, Workers
<1>1. ASSUME NEW s \in Scanners, NEW t \in Tasks, PlanTask(s, t) PROVE TypeInv'
  <2>1. task' \in [Tasks -> Rows]
    BY <1>1, PlannedType, SetRowType DEF PlanTask, TypeOK
  <2>2. toPlan' \in [Scanners -> SUBSET Tasks] /\ toPoll' = toPoll
    BY <1>1 DEF PlanTask, Planned, TypeOK
  <2> QED BY <1>1, <2>1, <2>2 DEF PlanTask, TypeOK, HoldsInLane
<1>2. ASSUME NEW s \in Scanners, NEW t \in Tasks, NotListed(s, t) PROVE TypeInv'
  <2>1. toPlan' \in [Scanners -> SUBSET Tasks] /\ toPoll' = toPoll
    BY <1>2 DEF NotListed, Planned, TypeOK
  <2> QED BY <1>2, <2>1 DEF NotListed, TypeOK, HoldsInLane
<1>3. ASSUME NEW s \in Scanners, NEW t \in Tasks, NEW p \in Priorities, PollPr(s, t, p)
      PROVE  TypeInv'
  <2>1. task' \in [Tasks -> Rows]
    <3>1. None \in DueTimes /\ task[t] \in Rows
      BY DEF DueTimes, TypeOK
    <3> QED BY <1>3, <3>1, EnqueuedType, SetRowType DEF PollPr, TypeOK
  <2>2. toPoll' \in [Scanners -> SUBSET Tasks] /\ toPlan' = toPlan
    BY <1>3 DEF PollPr, Polled, TypeOK
  <2>3. asked' \in [Tasks -> {"no", "idle", "busy"}]
    <3>1. (IF Held(t) THEN "busy" ELSE "idle") \in {"no", "idle", "busy"}
      OBVIOUS
    <3> QED BY <1>3, <3>1 DEF PollPr, Ask, TypeOK
  <2> QED BY <1>3, <2>1, <2>2, <2>3 DEF PollPr, TypeOK, HoldsInLane
<1>4. ASSUME NEW s \in Scanners, NEW t \in Tasks, NothingToPoll(s, t) PROVE TypeInv'
  <2>1. toPoll' \in [Scanners -> SUBSET Tasks] /\ toPlan' = toPlan
    BY <1>4 DEF NothingToPoll, Polled, TypeOK
  <2> QED BY <1>4, <2>1 DEF NothingToPoll, TypeOK, HoldsInLane
<1>5. ASSUME NEW s \in Scanners, NEW r \in Repos, RepoFails(s, r) PROVE TypeInv'
  <2>1. toPlan' \in [Scanners -> SUBSET Tasks] /\ toPoll' \in [Scanners -> SUBSET Tasks]
    BY <1>5 DEF RepoFails, TypeOK
  <2> QED BY <1>5, <2>1 DEF RepoFails, TypeOK, HoldsInLane
<1>6. \A s \in Scanners : StartScan(s) => /\ toPlan' \in [Scanners -> SUBSET Tasks]
                                          /\ toPoll' \in [Scanners -> SUBSET Tasks]
  BY DEF StartScan, TypeOK
<1>7. ASSUME TickReconcile PROVE TypeInv'
  BY <1>0, <1>6, <1>7 DEF TickReconcile, TypeOK, HoldsInLane
<1>8. ASSUME EndReconcile PROVE TypeInv'
  BY <1>8 DEF EndReconcile, TypeOK, HoldsInLane
<1>9. ASSUME NEW w \in CliWorkers, CliStart(w) PROVE TypeInv'
  <2>1. cliConfig' \in [CliWorkers -> [Repos -> AllConfigStates]]
    BY <1>9 DEF CliStart, TypeOK
  <2>2. pc' \in [Workers -> {"idle", "scan", "pull", "lane"}] /\ left' \in [Workers -> 0..BatchSize]
    BY <1>0, <1>9 DEF CliStart, TypeOK
  <2>3. TypeOK'
    BY <1>0, <1>6, <1>9, <2>1, <2>2 DEF CliStart, TypeOK
  <2>4. HoldsInLane'
    BY <1>0, <1>9 DEF CliStart, TypeOK, HoldsInLane
  <2> QED BY <2>3, <2>4
<1>10. ASSUME NEW w \in CliWorkers, CliDrain(w) PROVE TypeInv'
  BY <1>0, <1>10 DEF CliDrain, TypeOK, HoldsInLane
<1>11. ASSUME NEW w \in CliWorkers, CliDies(w) PROVE TypeInv'
  <2>1. /\ toPlan' \in [Scanners -> SUBSET Tasks] /\ toPoll' \in [Scanners -> SUBSET Tasks]
        /\ left' \in [Workers -> 0..BatchSize]
    BY <1>0, <1>11 DEF CliDies, TypeOK
  <2>2. orphaned' \in BOOLEAN
    BY <1>11 DEF CliDies
  <2>3. TypeOK'
    BY <1>0, <1>11, <2>1, <2>2 DEF CliDies, TypeOK
  <2>4. HoldsInLane'
    BY <1>0, <1>11 DEF CliDies, TypeOK, HoldsInLane
  <2> QED BY <2>3, <2>4
<1> QED BY <1>1, <1>2, <1>3, <1>4, <1>5, <1>7, <1>8, <1>9, <1>10, <1>11
        DEF ScanStep, CliStep

\* The daemon process ends: its workers are idle and hold nothing.
LEMMA GoneTypes ==
  ASSUME TypeInv, NEW how \in {"idle", "forced", "killed"}, Gone(how),
         task' \in [Tasks -> Rows], asked' = asked, resumes' \in [Tasks -> Nat],
         orphaned' = orphaned
  PROVE  TypeInv'
<1> USE SchedulerConstants DEF TypeInv, envVars
<1>1. /\ pc' \in [Workers -> {"idle", "scan", "pull", "lane"}]
      /\ holds' \in [Workers -> Tasks \cup {None}]
      /\ left' \in [Workers -> 0..BatchSize]
  BY DEF Gone, TypeOK
<1>2. fetched' \in [Workers -> BOOLEAN]
  <2>1. \A w \in Workers : (w \in CliWorkers /\ fetched[w]) \in BOOLEAN
    OBVIOUS
  <2> QED BY <2>1 DEF Gone
<1>3. /\ toPlan' \in [Scanners -> SUBSET Tasks] /\ toPoll' \in [Scanners -> SUBSET Tasks]
      /\ registered' \in [Repos -> DaemonWorkers \cup {None}]
      /\ serves' \in [DaemonWorkers -> Repos \cup {None}]
  BY DEF Gone, TypeOK
<1>4. TypeOK'
  BY <1>1, <1>2, <1>3 DEF Gone, TypeOK
<1>5. HoldsInLane'
  BY DEF Gone, TypeOK, HoldsInLane
<1> QED BY <1>4, <1>5

\* Operator, clock, items, and the life of the daemon.
LEMMA TypeInvProcess == TypeInv /\ (EnvStep \/ ProcessStep) => TypeInv'
<1> SUFFICES ASSUME TypeInv PROVE EnvStep \/ ProcessStep => TypeInv'
  OBVIOUS
<1> USE SchedulerConstants
    DEF TypeInv, envVars, procVars, workerVars, scanVars, histVars
<1>1. ASSUME TogglePause PROVE TypeInv'
  BY <1>1 DEF TogglePause, TypeOK, HoldsInLane
<1>2. ASSUME RefreshWorkers PROVE TypeInv'
  <2>1. registered' \in [Repos -> DaemonWorkers \cup {None}]
    BY <1>2 DEF RefreshWorkers, TypeOK
  <2> QED BY <1>2, <2>1 DEF RefreshWorkers, TypeOK, HoldsInLane
<1>3. ASSUME Clock PROVE TypeInv'
  <2>1. task' \in [Tasks -> Rows]
    BY <1>3, OtherRowTypes DEF Clock, TypeOK
  <2> QED BY <1>3, <2>1 DEF Clock, TypeOK, HoldsInLane
<1>4. ASSUME NEW r \in Repos, NEW c \in ConfigStates, Reload(r, c) PROVE TypeInv'
  BY <1>4 DEF Reload, TypeOK, HoldsInLane
<1>5. ASSUME NEW t \in Tasks, ItemEdited(t) PROVE TypeInv'
  <2>1. task' \in [Tasks -> Rows]
    BY <1>5, OtherRowTypes, SetRowType DEF ItemEdited, TypeOK
  <2>2. fetched' \in [Workers -> BOOLEAN]
    <3>1. \A w \in Workers : (fetched[w] /\ holds[w] # t) \in BOOLEAN
      OBVIOUS
    <3> QED BY <1>5, <3>1 DEF ItemEdited
  <2> QED BY <1>5, <2>1, <2>2 DEF ItemEdited, TypeOK, HoldsInLane
<1>6. ASSUME Sigterm PROVE TypeInv'
  BY <1>6 DEF Sigterm, TypeOK, HoldsInLane
<1>7. ASSUME ExitIdle \/ ExitForced \/ Killed PROVE TypeInv'
  BY <1>7, GoneTypes DEF ExitIdle, ExitForced, Killed, TypeOK
<1>8. ASSUME NEW w \in DaemonWorkers, KilledBeforeEnqueue(w) PROVE TypeInv'
  <2>1. holds[w] \in Tasks
    BY <1>8 DEF KilledBeforeEnqueue, HoldsInLane, TypeOK, Workers
  <2>2. MarkedDone(task[holds[w]], 0) \in Rows
    <3>1. task[holds[w]] \in Rows
      BY <2>1 DEF TypeOK
    <3>2. 0 \in DueTimes
      BY DEF DueTimes
    <3> QED BY <3>1, <3>2, LaneRowTypes
  <2>3. task' \in [Tasks -> Rows]
    BY <1>8, <2>1, <2>2, SetRowType DEF KilledBeforeEnqueue, TypeOK
  <2>4. resumes' \in [Tasks -> Nat]
    BY <1>8, <2>1 DEF KilledBeforeEnqueue, TypeOK
  <2> QED BY <1>8, <2>3, <2>4, GoneTypes DEF KilledBeforeEnqueue
<1>9. ASSUME Boot PROVE TypeInv'
  <2>1. PICK day \in Delays : task' = [t \in Tasks |-> RecoveredRow(task[t], day)]
    BY <1>9 DEF Boot
  <2>2. task' \in [Tasks -> Rows]
    BY <2>1, RecoveredType, DelaysPositive DEF TypeOK
  <2>3. resumes' \in [Tasks -> Nat]
    BY <1>9 DEF Boot, TypeOK
  <2> QED BY <1>9, <2>2, <2>3 DEF Boot, TypeOK, HoldsInLane
<1> QED BY <1>1, <1>2, <1>3, <1>4, <1>5, <1>6, <1>7, <1>8, <1>9 DEF EnvStep, ProcessStep

LEMMA TypeInvStep == TypeInv /\ [Next]_vars => TypeInv'
<1>1. TypeInv /\ UNCHANGED vars => TypeInv'
  BY DEF TypeInv, TypeOK, HoldsInLane, vars, envVars, procVars, workerVars, scanVars, histVars
<1> QED BY <1>1, TypeInvRequest, TypeInvDrain, TypeInvLane, TypeInvScan, TypeInvProcess
        DEF Next

LEMMA TypeInvAlways == Spec => []TypeInv
<1> QED BY TypeInvInit, TypeInvStep, PTL DEF Spec

\* Rows, worker records and scan lists keep their types for ever: in particular a
\* crash stamp count never leaves 0..AbandonAfter and no batch is overspent.
THEOREM TypeCorrect == Spec => []TypeOK
<1>1. TypeInv => TypeOK
  BY DEF TypeInv
<1> QED BY <1>1, TypeInvAlways, PTL

----------------------------------------------------------------------------
(* What a step may do to one row. *)

\* Messages that may end up in last_error.
StoredTexts == ErrorTexts \cup {"none", "short"}

\* The row keeps its error, and its status unless it is queued.
Kept(t) ==
  /\ task'[t].status \in {task[t].status, "pending"}
  /\ task'[t].error = task[t].error
  /\ resumes'[t] = resumes[t]

\* A worker lets go of the task.
LetGo(t) == \E w \in Workers : holds[w] = t /\ holds'[w] = None

\* The error is overwritten; the task leaves the queue only if it was cancelled or
\* its lane is over.
Rewritten(t) ==
  /\ task'[t].status = "pending" \/ (task'[t].status = "done" /\ (Cancel(t) \/ LetGo(t)))
  /\ \E text \in StoredTexts : task'[t].error = Message(text)
  /\ resumes'[t] = 0

\* A statement that keeps the error of the row it writes.
LEMMA KeptBy ==
  ASSUME TypeInv, NEW u \in Tasks, NEW row \in Rows, SetRow(u, row),
         row.status \in {task[u].status, "pending"}, row.error = task[u].error,
         UNCHANGED resumes, NEW t \in Tasks
  PROVE  Kept(t)
<1>1. task'[u] = row /\ (t # u => task'[t] = task[t])
  BY SetRowType DEF TypeInv, TypeOK
<1> QED BY <1>1 DEF Kept

\* A statement that overwrites the error.
LEMMA RewrittenBy ==
  ASSUME TypeInv, NEW u \in Tasks, NEW row \in Rows, SetRow(u, row),
         row.status = "pending" \/ (row.status = "done" /\ (Cancel(u) \/ LetGo(u))),
         NEW text \in StoredTexts, row.error = Message(text),
         resumes' = [resumes EXCEPT ![u] = 0], NEW t \in Tasks
  PROVE  Kept(t) \/ Rewritten(t)
<1>1. task'[u] = row /\ (t # u => task'[t] = task[t])
  BY SetRowType DEF TypeInv, TypeOK
<1>2. CASE t = u
  BY <1>1, <1>2 DEF Rewritten, TypeInv, TypeOK
<1>3. CASE t # u
  BY <1>1, <1>3 DEF Kept, TypeInv, TypeOK
<1> QED BY <1>2, <1>3

\* Requests, cancellations, the cleared rate limit.
LEMMA RequestRows ==
  ASSUME TypeInv, RequestStep \/ ClearRateLimit, NEW t \in Tasks
  PROVE  Kept(t) \/ Rewritten(t)
<1>0. "none" \in StoredTexts /\ "short" \in StoredTexts /\ None \in DueTimes
  BY DEF StoredTexts, DueTimes
<1>1. ASSUME NEW u \in Tasks, NEW p \in Priorities, Request(u, p) PROVE Kept(t)
  <2>1. task[u] \in Rows
    BY DEF TypeInv, TypeOK
  <2> QED BY <1>0, <1>1, <2>1, EnqueuedType, KeptBy DEF Request
<1>2. ASSUME NEW u \in Tasks, Cancel(u) PROVE Kept(t) \/ Rewritten(t)
  <2>1. task[u] \in Rows
    BY DEF TypeInv, TypeOK
  <2>2. /\ CancelledRow(task[u]) \in Rows /\ CancelledRow(task[u]).status = "done"
        /\ CancelledRow(task[u]).error = Message("short")
    BY <2>1, OtherRowTypes
  <2>3. SetRow(u, CancelledRow(task[u])) /\ resumes' = [resumes EXCEPT ![u] = 0]
    BY <1>2 DEF Cancel
  <2> QED BY <1>0, <1>2, <2>2, <2>3, RewrittenBy
<1>3. ASSUME ClearRateLimit PROVE Kept(t) \/ Rewritten(t)
  <2>1. task[t] \in Rows
    BY DEF TypeInv, TypeOK
  <2>2. CASE RateLimited(task[t])
    <3>1. ClearedRow(task[t]).status = "pending" /\ ClearedRow(task[t]).error = Message("none")
      <4>1. /\ EnqueuedRow(task[t], "high", None) \in Rows
            /\ EnqueuedRow(task[t], "high", None).status = "pending"
        BY <1>0, <2>1, EnqueuedType DEF Priorities
      <4> QED BY <2>2, <4>1 DEF ClearedRow, Rows, NoError
    <3>2. task'[t] = ClearedRow(task[t]) /\ resumes'[t] = 0
      BY <1>3, <2>2 DEF ClearRateLimit
    <3> QED BY <1>0, <3>1, <3>2 DEF Rewritten
  <2>3. CASE ~RateLimited(task[t])
    <3>1. task'[t] = task[t] /\ resumes'[t] = resumes[t]
      BY <1>3, <2>1, <2>3, OtherRowTypes DEF ClearRateLimit
    <3> QED BY <3>1 DEF Kept
  <2> QED BY <2>2, <2>3
<1> QED BY <1>1, <1>2, <1>3 DEF RequestStep

\* The drain loop, until a lane starts.
LEMMA DrainRows ==
  ASSUME TypeInv, DrainStep \/ \E r \in Repos : TickDrain(r), NEW t \in Tasks
  PROVE  Kept(t) \/ Rewritten(t) \/ \E w \in Workers : PullStart(w, t)
<1>1. CASE UNCHANGED <<task, resumes>>
  BY <1>1 DEF Kept
<1>2. ASSUME NEW w \in Workers, NEW u \in Tasks, PullParked(w, u)
      PROVE  Kept(t) \/ Rewritten(t)
  <2>1. PICK day \in Delays : SetRow(u, MarkedError(DequeuedRow(task[u]), "short", day))
    BY <1>2 DEF PullParked
  <2>2. /\ day \in DueTimes /\ "short" \in Texts /\ "short" \in StoredTexts
        /\ task[u] \in Rows
    BY DelaysPositive DEF DueTimes, Texts, StoredTexts, TypeInv, TypeOK
  <2>3. resumes' = [resumes EXCEPT ![u] = 0]
    BY <1>2 DEF PullParked
  <2> DEFINE taken == DequeuedRow(task[u])
             row   == MarkedError(taken, "short", day)
  <2>4. row \in Rows /\ row.status = "pending" /\ row.error = Message("short")
    <3>1. taken \in Rows
      BY <2>2, LaneRowTypes
    <3> HIDE DEF taken
    <3>2. \A text \in Texts, d \in DueTimes :
            /\ MarkedError(taken, text, d) \in Rows
            /\ MarkedError(taken, text, d).status = "pending"
            /\ MarkedError(taken, text, d).error = Message(text)
      BY <3>1, LaneRowTypes
    <3> QED BY <2>2, <3>2 DEF row
  <2> HIDE DEF row
  <2> QED BY <2>1, <2>2, <2>3, <2>4, RewrittenBy DEF row
<1>3. ASSUME NEW w \in Workers, NEW u \in Tasks, PullStart(w, u), u # t
      PROVE  Kept(t)
  BY <1>3, LaneRowTypes, SetRowType DEF PullStart, Kept, TypeInv, TypeOK
<1>4. \/ UNCHANGED <<task, resumes>>
      \/ \E w \in Workers, u \in Tasks : PullParked(w, u) \/ PullStart(w, u)
  BY DEF DrainStep, PullNothing, PullPaused, TickDrain, histVars
<1> QED BY <1>1, <1>2, <1>3, <1>4

\* Lanes.
LEMMA LaneRows ==
  ASSUME TypeInv, LaneStep, NEW t \in Tasks
  PROVE  Kept(t) \/ Rewritten(t)
<1>1. PICK w \in Workers : LaneRecords(w) \/ LaneDone(w) \/ LaneReady(w) \/ LaneFailed(w)
  BY DEF LaneStep
<1>2. holds[w] \in Tasks
  BY <1>1 DEF LaneRecords, LaneDone, LaneReady, LaneFailed, LaneOver, TypeInv, HoldsInLane, TypeOK
<1>3. task[holds[w]] \in Rows /\ "none" \in StoredTexts
  BY <1>2 DEF TypeInv, TypeOK, StoredTexts
<1>4. CASE LaneRecords(w)
  <2>1. PICK s \in Snapshots : SetRow(holds[w], [task[holds[w]] EXCEPT !.snapshot = s])
    BY <1>4 DEF LaneRecords, Snapshots
  <2>2. /\ [task[holds[w]] EXCEPT !.snapshot = s] \in Rows
        /\ [task[holds[w]] EXCEPT !.snapshot = s].status = task[holds[w]].status
        /\ [task[holds[w]] EXCEPT !.snapshot = s].error = task[holds[w]].error
    BY <1>3 DEF Rows
  <2>3. UNCHANGED resumes
    BY <1>4 DEF LaneRecords, histVars
  <2> QED BY <1>2, <2>1, <2>2, <2>3, KeptBy
<1>5. ASSUME NEW row \in Rows, LaneOver(w, row), row.status \in {"pending", "done"},
             NEW text \in StoredTexts, row.error = Message(text)
      PROVE  Kept(t) \/ Rewritten(t)
  <2>1. /\ SetRow(holds[w], row) /\ resumes' = [resumes EXCEPT ![holds[w]] = 0]
        /\ LetGo(holds[w])
    BY <1>5 DEF LaneOver, LetGo, TypeInv, TypeOK
  <2> QED BY <1>2, <1>3, <1>5, <2>1, RewrittenBy
<1>6. CASE LaneDone(w)
  <2>1. PICK d \in DueTimes : LaneOver(w, MarkedDone(task[holds[w]], d))
    BY <1>6, DelaysPositive DEF LaneDone, DueTimes
  <2> DEFINE row == MarkedDone(task[holds[w]], d)
  <2>2. row \in Rows /\ row.status = "done" /\ row.error = Message("none")
    BY <1>3, LaneRowTypes DEF NoError
  <2>3. LaneOver(w, row)
    BY <2>1
  <2> HIDE DEF row
  <2> QED BY <1>3, <1>5, <2>2, <2>3
<1>7. CASE LaneReady(w)
  BY <1>3, <1>5, <1>7, LaneRowTypes DEF LaneReady, NoError
<1>8. CASE LaneFailed(w)
  <2>1. PICK text \in StoredTexts, d \in DueTimes :
          text \in Texts /\ LaneOver(w, MarkedError(task[holds[w]], text, d))
    BY <1>8, DelaysPositive, SchedulerConstants DEF LaneFailed, DueTimes, StoredTexts
  <2> DEFINE row == MarkedError(task[holds[w]], text, d)
  <2>2. row \in Rows /\ row.status = "pending" /\ row.error = Message(text)
    BY <1>3, <2>1, LaneRowTypes, ZenonT(30)
  <2>3. LaneOver(w, row)
    BY <2>1
  <2> HIDE DEF row
  <2> QED BY <1>5, <2>2, <2>3
<1> QED BY <1>1, <1>4, <1>6, <1>7, <1>8

\* The reconcile loop and the command line.
LEMMA ScanRows ==
  ASSUME TypeInv, TickReconcile \/ ScanStep \/ EndReconcile \/ CliStep, NEW t \in Tasks
  PROVE  Kept(t)
<1>1. CASE UNCHANGED <<task, resumes>>
  BY <1>1 DEF Kept
<1>2. ASSUME NEW s \in Scanners, NEW u \in Tasks, PlanTask(s, u) PROVE Kept(t)
  <2>1. task[u] \in Rows /\ UNCHANGED resumes
    BY <1>2 DEF PlanTask, histVars, TypeInv, TypeOK
  <2> QED BY <1>2, <2>1, PlannedType, KeptBy DEF PlanTask
<1>3. ASSUME NEW s \in Scanners, NEW u \in Tasks, NEW p \in Priorities, PollPr(s, u, p)
      PROVE  Kept(t)
  <2>1. task[u] \in Rows /\ None \in DueTimes
    BY DEF TypeInv, TypeOK, DueTimes
  <2> QED BY <1>3, <2>1, EnqueuedType, KeptBy DEF PollPr
<1>4. \/ UNCHANGED <<task, resumes>>
      \/ \E s \in Scanners, u \in Tasks : \/ PlanTask(s, u)
                                          \/ \E p \in Priorities : PollPr(s, u, p)
  BY DEF TickReconcile, EndReconcile, ScanStep, NotListed, NothingToPoll, RepoFails,
         CliStep, CliStart, CliDrain, CliDies, histVars
<1> QED BY <1>1, <1>2, <1>3, <1>4

\* Operator, clock, items, and the life of the daemon.
LEMMA ProcessRows ==
  ASSUME TypeInv, EnvStep \/ ProcessStep, NEW t \in Tasks
  PROVE  Kept(t) \/ Rewritten(t) \/ (Boot /\ task[t].status = "running")
<1>0. task[t] \in Rows
  BY DEF TypeInv, TypeOK
<1>1. CASE UNCHANGED <<task, resumes>>
  BY <1>1 DEF Kept
<1>2. ASSUME NEW u \in Tasks, ItemEdited(u) PROVE Kept(t)
  <2>1. task[u] \in Rows /\ UNCHANGED resumes
    BY <1>2 DEF ItemEdited, histVars, TypeInv, TypeOK
  <2> QED BY <1>2, <2>1, OtherRowTypes, KeptBy DEF ItemEdited
<1>3. ASSUME Clock PROVE Kept(t)
  BY <1>0, <1>3, OtherRowTypes DEF Clock, Kept, histVars
<1>4. ASSUME NEW w \in DaemonWorkers, KilledBeforeEnqueue(w) PROVE Kept(t) \/ Rewritten(t)
  <2>1. w \in Workers /\ holds[w] \in Tasks
    BY <1>4 DEF KilledBeforeEnqueue, TypeInv, HoldsInLane, TypeOK, Workers
  <2>2. task[holds[w]] \in Rows /\ 0 \in DueTimes /\ "none" \in StoredTexts
    BY <2>1 DEF TypeInv, TypeOK, DueTimes, StoredTexts
  <2>3. LetGo(holds[w])
    BY <1>4, <2>1, SchedulerConstants DEF KilledBeforeEnqueue, Gone, LetGo
  <2>4. resumes' = [resumes EXCEPT ![holds[w]] = 0]
    BY <1>4 DEF KilledBeforeEnqueue
  <2> DEFINE row == MarkedDone(task[holds[w]], 0)
  <2>5. row \in Rows /\ row.status = "done" /\ row.error = Message("none")
    BY <2>2, LaneRowTypes DEF NoError
  <2>6. SetRow(holds[w], row)
    BY <1>4 DEF KilledBeforeEnqueue
  <2> HIDE DEF row
  <2> QED BY <2>1, <2>2, <2>3, <2>4, <2>5, <2>6, RewrittenBy
<1>5. ASSUME Boot, task[t].status # "running" PROVE Kept(t)
  BY <1>0, <1>5, RecoveredType, DelaysPositive DEF Boot, Kept
<1>6. \/ UNCHANGED <<task, resumes>> \/ Clock \/ Boot
      \/ \E u \in Tasks : ItemEdited(u)
      \/ \E w \in DaemonWorkers : KilledBeforeEnqueue(w)
  BY DEF EnvStep, TogglePause, RefreshWorkers, Reload, ProcessStep, Sigterm, ExitIdle,
         ExitForced, Killed, histVars
<1> QED BY <1>1, <1>2, <1>3, <1>4, <1>5, <1>6

LEMMA RowStep ==
  ASSUME TypeInv, [Next]_vars, NEW t \in Tasks
  PROVE  \/ Kept(t) \/ Rewritten(t)
         \/ \E w \in Workers : PullStart(w, t)
         \/ Boot /\ task[t].status = "running"
<1>1. CASE UNCHANGED vars
  BY <1>1 DEF vars, histVars, Kept
<1> QED BY <1>1, RequestRows, DrainRows, LaneRows, ScanRows, ProcessRows DEF Next

\* A row that is not running before a step and is after it was just dequeued, by the
\* worker that holds it from then on.
LEMMA StartsHeld ==
  ASSUME TypeInv, [Next]_vars, NEW t \in Tasks,
         task[t].status # "running", task'[t].status = "running"
  PROVE  \E w \in Workers : PullStart(w, t)
BY RowStep DEF Kept, Rewritten

\* A lane that is over leaves its task pending or done.
LEMMA LaneOverRows ==
  ASSUME TypeInv, LaneStep
  PROVE  \/ UNCHANGED holds
         \/ \E v \in Workers, row \in Rows :
              LaneOver(v, row) /\ row.status \in {"pending", "done"}
<1>1. PICK v \in Workers : LaneRecords(v) \/ LaneDone(v) \/ LaneReady(v) \/ LaneFailed(v)
  BY DEF LaneStep
<1>2. pc[v] = "lane" /\ holds[v] \in Tasks
  BY <1>1 DEF LaneRecords, LaneDone, LaneReady, LaneFailed, LaneOver, TypeInv, HoldsInLane, TypeOK
<1>3. task[holds[v]] \in Rows
  BY <1>2 DEF TypeInv, TypeOK
<1>4. CASE LaneRecords(v)
  BY <1>4 DEF LaneRecords, workerVars
<1>5. CASE LaneDone(v)
  <2>1. PICK d \in DueTimes : LaneOver(v, MarkedDone(task[holds[v]], d))
    BY <1>5, DelaysPositive DEF LaneDone, DueTimes
  <2> QED BY <1>3, <2>1, LaneRowTypes
<1>6. CASE LaneReady(v)
  BY <1>3, <1>6, LaneRowTypes DEF LaneReady
<1>7. CASE LaneFailed(v)
  <2>1. PICK text \in Texts, d \in DueTimes : LaneOver(v, MarkedError(task[holds[v]], text, d))
    BY <1>7, DelaysPositive, SchedulerConstants DEF LaneFailed, DueTimes
  <2> QED BY <1>3, <2>1, LaneRowTypes
<1> QED BY <1>1, <1>4, <1>5, <1>6, <1>7

\* The actions that change who holds what.
LEMMA HoldsSteps ==
  ASSUME TypeInv, [Next]_vars
  PROVE  \/ UNCHANGED holds
         \/ \E v \in Workers, row \in Rows :
              LaneOver(v, row) /\ row.status \in {"pending", "done"}
         \/ \E v \in Workers, u \in Tasks : PullStart(v, u)
         \/ \E v \in CliWorkers : CliDies(v)
         \/ (\E how : Gone(how)) /\ (UNCHANGED task \/ \E v \in DaemonWorkers : KilledBeforeEnqueue(v))
<1>1. CASE LaneStep
  BY <1>1, LaneOverRows
<1>2. CASE ProcessStep
  BY <1>2 DEF ProcessStep, Sigterm, ExitIdle, ExitForced, Killed, KilledBeforeEnqueue,
              Boot, workerVars
<1>3. CASE ~LaneStep /\ ~ProcessStep
  BY <1>3 DEF Next, vars, workerVars, RequestStep, Request, Cancel, ClearRateLimit, TickDrain,
         DrainStep, PullNothing, PullPaused, PullParked, TickReconcile, EndReconcile,
         ScanStep, PlanTask, NotListed, PollPr, NothingToPoll, RepoFails,
         CliStep, CliStart, CliDrain, EnvStep, TogglePause, RefreshWorkers, Clock, Reload,
         ItemEdited
<1> QED BY <1>1, <1>2, <1>3

\* A worker lets go of a running task only by ending its lane, which changes the
\* status, or with its process.
LEMMA LetsGo ==
  ASSUME TypeInv, [Next]_vars, NEW w \in Workers, NEW t \in Tasks, holds[w] = t
  PROVE  holds'[w] = t \/ task'[t].status # "running" \/ mode' = "down" \/ orphaned'
<1>0. pc[w] = "lane" /\ task[t] \in Rows /\ t # None
  BY SchedulerConstants DEF TypeInv, HoldsInLane, TypeOK
<1>1. CASE UNCHANGED holds
  BY <1>1
<1>2. ASSUME NEW v \in Workers, NEW row \in Rows, row.status \in {"pending", "done"},
             LaneOver(v, row)
      PROVE  holds'[w] = t \/ task'[t].status # "running"
  <2>1. CASE v = w
    BY <1>2, <2>1, SetRowType DEF LaneOver, TypeInv, TypeOK
  <2>2. CASE v # w
    BY <1>2, <2>2 DEF LaneOver, TypeInv, TypeOK
  <2> QED BY <2>1, <2>2
<1>3. CASE \E v \in Workers, u \in Tasks : PullStart(v, u)
  BY <1>0, <1>3 DEF PullStart, TypeInv, TypeOK
<1>4. CASE \E v \in CliWorkers : CliDies(v)
  BY <1>0, <1>4 DEF CliDies, TypeInv, TypeOK
<1>5. CASE \E how : Gone(how)
  BY <1>5 DEF Gone
<1> QED BY <1>1, <1>2, <1>3, <1>4, <1>5, HoldsSteps

\* Only boot brings the daemon back up and forgets dead command-line runs, and it
\* leaves nothing running.
LEMMA BootRecovers ==
  ASSUME TypeInv, [Next]_vars, mode = "down" \/ orphaned
  PROVE  \/ /\ mode = "down" => mode' = "down"
            /\ orphaned => orphaned'
         \/ \A t \in Tasks : task'[t].status # "running"
<1>1. CASE Boot
  BY <1>1, RecoveredType, DelaysPositive DEF Boot, TypeInv, TypeOK
<1>2. CASE ~Boot
  BY <1>2, ZenonT(30) DEF Next, vars, procVars, histVars, RequestStep, Request, Cancel, ClearRateLimit,
         TickDrain, DrainStep, PullNothing, PullPaused, PullParked, PullStart,
         LaneStep, LaneRecords, LaneDone, LaneReady, LaneFailed, LaneOver,
         TickReconcile, EndReconcile, ScanStep, PlanTask, NotListed, PollPr,
         NothingToPoll, RepoFails, CliStep, CliStart, CliDrain, CliDies,
         EnvStep, TogglePause, RefreshWorkers, Clock, Reload, ItemEdited,
         ProcessStep, Sigterm, ExitIdle, ExitForced, Killed, KilledBeforeEnqueue, Gone
<1> QED BY <1>1, <1>2

----------------------------------------------------------------------------
(* RunningHeld. *)

LEMMA RunningHeldStep == TypeInv /\ RunningHeld /\ [Next]_vars => RunningHeld'
<1> SUFFICES ASSUME TypeInv, RunningHeld, [Next]_vars,
                    NEW t \in Tasks, task'[t].status = "running"
             PROVE  (Held(t) \/ mode = "down" \/ orphaned)'
  BY DEF RunningHeld
<1>1. CASE task[t].status # "running"
  <2>1. PICK w \in Workers : PullStart(w, t)
    BY <1>1, StartsHeld
  <2>2. holds'[w] = t
    BY <2>1 DEF PullStart, TypeInv, TypeOK
  <2> QED BY <2>2 DEF Held
<1>2. CASE task[t].status = "running" /\ Held(t)
  <2>1. PICK w \in Workers : holds[w] = t
    BY <1>2 DEF Held
  <2> QED BY <2>1, LetsGo DEF Held
<1>3. CASE task[t].status = "running" /\ ~Held(t)
  <2>1. mode = "down" \/ orphaned
    BY <1>3 DEF RunningHeld
  <2>2. ~ \A u \in Tasks : task'[u].status # "running"
    OBVIOUS
  <2>3. mode' = "down" \/ orphaned'
    BY <2>1, <2>2, BootRecovers, Zenon
  <2> QED BY <2>3
<1> QED BY <1>1, <1>2, <1>3

\* A task the table calls running is being processed by some worker, unless the daemon
\* is down (boot recovers it) or a command-line run died holding it.
THEOREM RunningIsHeld == Spec => []RunningHeld
<1>1. Init => RunningHeld
  BY DEF Init, RunningHeld, AbsentRow
<1> QED BY <1>1, TypeInvAlways, RunningHeldStep, PTL DEF Spec

----------------------------------------------------------------------------
(* IdleRequestKept. *)

\* A task somebody asked for while it was idle is pending, and nobody holds it: that no
\* lane is at work on it is what keeps a markDone away from it.
WaitsAlone == \A t \in Tasks : asked[t] = "idle" => task[t].status = "pending" /\ ~Held(t)

\* A task is picked up by PullStart only.
LEMMA TakesHold ==
  ASSUME TypeInv, [Next]_vars, NEW t \in Tasks, ~Held(t), Held(t)'
  PROVE  \E w \in Workers : PullStart(w, t)
<1>0. t # None
  BY SchedulerConstants
<1>1. PICK w \in Workers : holds'[w] = t /\ holds[w] # t
  BY DEF Held
<1>2. CASE UNCHANGED holds
  BY <1>1, <1>2
<1>3. CASE \E v \in Workers : \E row : LaneOver(v, row)
  BY <1>0, <1>1, <1>3 DEF LaneOver, TypeInv, TypeOK
<1>4. ASSUME NEW v \in Workers, NEW u \in Tasks, PullStart(v, u) PROVE u = t
  BY <1>1, <1>4 DEF PullStart, TypeInv, TypeOK
<1>5. CASE \E v \in CliWorkers : CliDies(v)
  BY <1>0, <1>1, <1>5 DEF CliDies, TypeInv, TypeOK
<1>6. CASE \E how : Gone(how)
  BY <1>0, <1>1, <1>6 DEF Gone, TypeInv, TypeOK
<1> QED BY <1>2, <1>3, <1>4, <1>5, <1>6, HoldsSteps

\* A request is recorded as "idle" only for a task that is enqueued and not held.
LEMMA AskedIdle ==
  ASSUME TypeInv, [Next]_vars, NEW t \in Tasks, asked[t] # "idle", asked'[t] = "idle"
  PROVE  task'[t].status = "pending" /\ ~Held(t) /\ UNCHANGED holds
<1>1. ASSUME NEW u \in Tasks, NEW p \in Priorities, SetRow(u, EnqueuedRow(task[u], p, None)),
             Ask(u), UNCHANGED holds
      PROVE  task'[t].status = "pending" /\ ~Held(t) /\ UNCHANGED holds
  <2>1. t = u /\ ~Held(t)
    BY <1>1 DEF Ask, TypeInv, TypeOK
  <2>2. task[u] \in Rows /\ None \in DueTimes
    BY DEF TypeInv, TypeOK, DueTimes
  <2> QED BY <1>1, <2>1, <2>2, EnqueuedType, SetRowType DEF TypeInv, TypeOK
<1>2. CASE \E u \in Tasks, p \in Priorities : Request(u, p)
  BY <1>1, <1>2 DEF Request, workerVars
<1>3. CASE \E s \in Scanners, u \in Tasks, p \in Priorities : PollPr(s, u, p)
  BY <1>1, <1>3 DEF PollPr, workerVars
<1>4. CASE asked' = asked \/ \E u \in Tasks : asked' = [asked EXCEPT ![u] = "no"]
  BY <1>4 DEF TypeInv, TypeOK
<1>5. \/ asked' = asked \/ \E u \in Tasks : asked' = [asked EXCEPT ![u] = "no"]
      \/ \E u \in Tasks, p \in Priorities : Request(u, p)
      \/ \E s \in Scanners, u \in Tasks, p \in Priorities : PollPr(s, u, p)
  BY DEF Next, vars, histVars, RequestStep, Cancel, ClearRateLimit, TickDrain,
         DrainStep, PullNothing, PullPaused, PullParked, PullStart,
         LaneStep, LaneRecords, LaneDone, LaneReady, LaneFailed, LaneOver,
         TickReconcile, EndReconcile, ScanStep, PlanTask, NotListed,
         NothingToPoll, RepoFails, CliStep, CliStart, CliDrain, CliDies,
         EnvStep, TogglePause, RefreshWorkers, Clock, Reload, ItemEdited,
         ProcessStep, Sigterm, ExitIdle, ExitForced, Killed, KilledBeforeEnqueue, Boot
<1> QED BY <1>2, <1>3, <1>4, <1>5

LEMMA WaitsAloneStep == TypeInv /\ WaitsAlone /\ [Next]_vars => WaitsAlone'
<1> SUFFICES ASSUME TypeInv, WaitsAlone, [Next]_vars, NEW t \in Tasks, asked'[t] = "idle"
             PROVE  task'[t].status = "pending" /\ ~Held(t)'
  BY DEF WaitsAlone
<1>1. CASE asked[t] # "idle"
  BY <1>1, AskedIdle DEF Held
<1>2. CASE asked[t] = "idle"
  <2>1. task[t].status = "pending" /\ ~Held(t)
    BY <1>2 DEF WaitsAlone
  <2>2. ~ \E w \in Workers : PullStart(w, t)
    BY DEF PullStart, TypeInv, TypeOK
  <2>3. ~Held(t)'
    BY <2>1, <2>2, TakesHold
  <2>4. ~Cancel(t) /\ ~LetGo(t)
    BY <2>1 DEF Cancel, LetGo, Held, TypeInv, TypeOK
  <2>5. task'[t].status = "pending"
    BY <2>1, <2>2, <2>4, RowStep DEF Kept, Rewritten
  <2> QED BY <2>3, <2>5
<1> QED BY <1>1, <1>2

\* A request that finds its task idle is not lost, whatever else happens: reloads,
\* crashes, command-line drains, reconciles and pauses included.
THEOREM IdleRequestIsKept == Spec => []IdleRequestKept
<1>1. Init => WaitsAlone
  BY DEF Init, WaitsAlone
<1>2. WaitsAlone => IdleRequestKept
  BY DEF WaitsAlone, IdleRequestKept
<1> QED BY <1>1, <1>2, TypeInvAlways, WaitsAloneStep, PTL DEF Spec

----------------------------------------------------------------------------
(* ResumesBounded. *)

\* The stamps in last_error count the recoveries, as long as no message fills the column.
StampsCount ==
  \A t \in Tasks : task[t].error.text # "long" /\ resumes[t] <= task[t].error.stamps

LEMMA StampsCountStep ==
  "long" \notin ErrorTexts /\ TypeInv /\ StampsCount /\ [Next]_vars => StampsCount'
<1> SUFFICES ASSUME "long" \notin ErrorTexts, TypeInv, StampsCount, [Next]_vars,
                    NEW t \in Tasks
             PROVE  task'[t].error.text # "long" /\ resumes'[t] <= task'[t].error.stamps
  BY DEF StampsCount
<1>0. /\ task[t] \in Rows /\ task[t].error.stamps \in 0..AbandonAfter /\ resumes[t] \in Nat
      /\ task[t].error.text # "long" /\ resumes[t] <= task[t].error.stamps
  BY DEF StampsCount, TypeInv, TypeOK, Rows, ErrorRecords
<1>1. CASE Kept(t)
  BY <1>0, <1>1 DEF Kept
<1>2. CASE Rewritten(t)
  <2>1. PICK text \in StoredTexts : task'[t].error = Message(text) /\ resumes'[t] = 0
    BY <1>2 DEF Rewritten
  <2>2. text # "long"
    BY DEF StoredTexts
  <2> QED BY <2>1, <2>2 DEF Message
<1>3. ASSUME NEW w \in Workers, PullStart(w, t)
      PROVE  task'[t].error.text # "long" /\ resumes'[t] <= task'[t].error.stamps
  <2>1. task'[t].error = task[t].error /\ UNCHANGED resumes
    BY <1>0, <1>3, LaneRowTypes, SetRowType DEF PullStart, TypeInv, TypeOK
  <2> QED BY <1>0, <2>1
<1>4. CASE Boot /\ task[t].status = "running"
  <2>1. PICK day \in Delays : task'[t] = RecoveredRow(task[t], day)
    BY <1>4 DEF Boot
  <2>2. CASE GivenUp(task[t].error)
    <3>1. task'[t] = AbandonedRow(task[t], day) /\ resumes'[t] = 0
      BY <1>4, <2>1, <2>2 DEF Boot, RecoveredRow
    <3> QED BY <1>0, <3>1 DEF AbandonedRow, Rows, ErrorRecords, AbandonAfter
  <2>3. CASE ~GivenUp(task[t].error)
    <3>1. task'[t] = ResumedRow(task[t]) /\ resumes'[t] = resumes[t] + 1
      BY <1>4, <2>1, <2>3 DEF Boot, RecoveredRow
    <3>2. ResumedRow(task[t]).error = Stamped(task[t].error)
      BY <1>0, EnqueuedType DEF ResumedRow, Rows, Priorities, DueTimes
    <3>3. Stamped(task[t].error) = [task[t].error EXCEPT !.stamps = @ + 1]
      BY <1>0 DEF Stamped
    <3>4. /\ Stamped(task[t].error).text = task[t].error.text
          /\ Stamped(task[t].error).stamps = task[t].error.stamps + 1
      BY <1>0, <3>3 DEF Rows, ErrorRecords
    <3> QED BY <1>0, <3>1, <3>2, <3>4 DEF AbandonAfter
  <2> QED BY <2>2, <2>3
<1> QED BY <1>1, <1>2, <1>3, <1>4, RowStep

\* If no lane leaves a message that fills last_error, recovery puts a task back at most
\* three times in a row: the loop the comment of recoverStuckTasks speaks of is cut.
THEOREM ResumesAreBounded ==
  ASSUME "long" \notin ErrorTexts
  PROVE  Spec => []ResumesBounded
<1>1. Init => StampsCount
  BY DEF Init, StampsCount, AbsentRow, NoError, Message
<1>2. TypeInv /\ StampsCount => ResumesBounded
  <2> SUFFICES ASSUME TypeInv, StampsCount, NEW t \in Tasks
               PROVE  resumes[t] <= AbandonAfter
    BY DEF ResumesBounded
  <2>1. task[t] \in Rows /\ resumes[t] \in Nat /\ resumes[t] <= task[t].error.stamps
    BY DEF TypeInv, TypeOK, StampsCount
  <2>2. task[t].error.stamps \in 0..AbandonAfter
    BY <2>1 DEF Rows, ErrorRecords
  <2> QED BY <2>1, <2>2 DEF AbandonAfter
<1>3. TypeInv /\ StampsCount /\ [Next]_vars => StampsCount'
  BY StampsCountStep
<1> QED BY <1>1, <1>2, <1>3, TypeInvAlways, PTL DEF Spec

----------------------------------------------------------------------------
(* CadenceRespected. *)

\* planTask leaves a row alone that has a decision and is done until later.
LEMMA PlannedLater ==
  ASSUME NEW row \in Rows, row.status = "done", ~DueNow(row), row.snapshot # "none"
  PROVE  PlannedRow(row) = row
BY DEF PlannedRow, PlanLeaves, Rows, Snapshots

\* So does whoever writes the row of some task, unless it is asked for or held.
LEMMA EarlyOnly ==
  ASSUME TypeInv, [Next]_vars, NEW t \in Tasks,
         task[t].status = "done", ~DueNow(task[t]), task[t].snapshot # "none", ~Held(t),
         task'[t].status = "pending"
  PROVE  asked'[t] # "no" \/ RateLimited(task[t])
<1>0. /\ task[t] \in Rows /\ None \in DueTimes /\ ~Runnable(task[t])
      /\ task \in [Tasks -> Rows] /\ asked \in [Tasks -> {"no", "idle", "busy"}]
      /\ "done" # "pending"
  BY DEF TypeInv, TypeOK, DueTimes, Runnable
<1>1. ASSUME NEW u \in Tasks, NEW p \in Priorities, Ask(u),
             SetRow(u, EnqueuedRow(task[u], p, None))
      PROVE  asked'[t] # "no"
  <2>1. t = u
    <3>1. task[u] \in Rows /\ EnqueuedRow(task[u], p, None) \in Rows
      BY <1>0, EnqueuedType
    <3> QED BY <1>0, <1>1, <3>1, SetRowType
  <2> QED BY <1>0, <1>1, <2>1 DEF Ask
<1>2. ASSUME NEW u \in Tasks, NEW row \in Rows, SetRow(u, row), u = t => row.status # "pending"
      PROVE  FALSE
  BY <1>0, <1>2, SetRowType
<1>3. CASE RequestStep
  <2>1. ASSUME NEW u \in Tasks, Cancel(u) PROVE FALSE
    <3>1. /\ CancelledRow(task[u]) \in Rows /\ CancelledRow(task[u]).status = "done"
          /\ SetRow(u, CancelledRow(task[u]))
      BY <1>0, <2>1, OtherRowTypes DEF Cancel
    <3> QED BY <1>2, <3>1
  <2> QED BY <1>1, <1>3, <2>1 DEF RequestStep, Request
<1>4. CASE ClearRateLimit
  <2>1. task'[t] = ClearedRow(task[t])
    BY <1>4 DEF ClearRateLimit
  <2> QED BY <1>0, <2>1, OtherRowTypes
<1>5. CASE DrainStep
  <2>1. UNCHANGED task \/ \E w \in Workers, u \in Tasks : PullParked(w, u) \/ PullStart(w, u)
    BY <1>5 DEF DrainStep, PullNothing, PullPaused
  <2>2. PICK u \in Tasks : Runnable(task[u]) /\ \E row : SetRow(u, row)
    BY <1>0, <2>1 DEF PullParked, PullStart, Front, Due
  <2>3. t # u
    BY <1>0, <2>2
  <2> QED BY <1>0, <2>2, <2>3 DEF SetRow
<1>6. CASE LaneStep \/ ProcessStep
  <2>1. ASSUME NEW w \in Workers, NEW row, SetRow(holds[w], row) PROVE FALSE
    <3>1. t # holds[w]
      BY DEF Held
    <3> QED BY <1>0, <2>1, <3>1 DEF SetRow
  <2>2. CASE LaneStep
    BY <2>1, <2>2 DEF LaneStep, LaneRecords, LaneDone, LaneReady, LaneFailed, LaneOver
  <2>3. CASE ProcessStep
    <3>1. CASE Boot
      <4>1. PICK day \in Nat : task'[t] = RecoveredRow(task[t], day)
        BY <3>1, DelaysPositive DEF Boot
      <4> QED BY <1>0, <4>1, RecoveredType
    <3>2. ASSUME NEW w \in DaemonWorkers, KilledBeforeEnqueue(w) PROVE FALSE
      BY <2>1, <3>2 DEF KilledBeforeEnqueue, Workers
    <3> QED BY <1>0, <2>3, <3>1, <3>2 DEF ProcessStep, Sigterm, ExitIdle, ExitForced, Killed
  <2> QED BY <1>6, <2>2, <2>3
<1>7. CASE ScanStep
  <2>1. ASSUME NEW s \in Scanners, NEW u \in Tasks, PlanTask(s, u) PROVE FALSE
    <3>1. SetRow(u, PlannedRow(task[u])) /\ PlannedRow(task[u]) \in Rows
      BY <1>0, <2>1, PlannedType DEF PlanTask
    <3>2. u = t => PlannedRow(task[u]).status # "pending"
      BY <1>0, PlannedLater
    <3> QED BY <1>2, <3>1, <3>2
  <2> QED BY <1>0, <1>1, <1>7, <2>1 DEF ScanStep, NotListed, PollPr, NothingToPoll, RepoFails
<1>8. CASE EnvStep
  <2>1. ASSUME NEW u \in Tasks, ItemEdited(u) PROVE FALSE
    <3>1. /\ EditedRow(task[u]) \in Rows /\ EditedRow(task[u]).status = task[u].status
          /\ SetRow(u, EditedRow(task[u]))
      BY <1>0, <2>1, OtherRowTypes DEF ItemEdited
    <3> QED BY <1>0, <1>2, <3>1
  <2>2. CASE Clock
    <3>1. task'[t] = Elapsed(task[t])
      BY <2>2 DEF Clock
    <3> QED BY <1>0, <3>1, OtherRowTypes
  <2> QED BY <1>0, <1>8, <2>1, <2>2 DEF EnvStep, TogglePause, RefreshWorkers, Reload
<1>9. CASE UNCHANGED task
  BY <1>0, <1>9
<1>10. CASE CliStep \/ TickReconcile \/ EndReconcile \/ \E r \in Repos : TickDrain(r)
  <2>1. UNCHANGED task
    BY <1>10 DEF CliStep, CliStart, CliDrain, CliDies, TickReconcile, EndReconcile, TickDrain
  <2> QED BY <1>9, <2>1
<1> QED BY <1>3, <1>4, <1>5, <1>6, <1>7, <1>8, <1>9, <1>10 DEF Next, vars

\* The cadence of an item with a decision (computeNextDueAt) holds: whatever the loops, edits of the item,
\* crashes and command-line runs do, it is queued before its time only by a request, by the poll of
\* one of our pull requests, or when a rate limit is cleared.
THEOREM CadenceIsRespected == Spec => CadenceRespected
<1>1. TypeInv /\ [Next]_vars =>
        [\A t \in Tasks :
           /\ task[t].status = "done" /\ ~DueNow(task[t]) /\ task[t].snapshot # "none"
           /\ ~Held(t)
           /\ task'[t].status = "pending"
           => asked'[t] # "no" \/ RateLimited(task[t])]_vars
  BY EarlyOnly
<1> QED BY <1>1, TypeInvAlways, PTL DEF Spec, CadenceRespected

-----------------------------------------------------------------------------
(***************************************************************************)
(* What serialises the lanes: while the watch list does not change and no  *)
(* command-line drain runs, a repo has one drain and a task one worker, an *)
(* idle exit is clean, and the scheduler implements TaskLease.  Both       *)
(* conditions are needed: a reload that takes a repo from the list and one *)
(* that brings it back make two workers of it.                             *)
(***************************************************************************)

\* The watch list is never edited, and nobody runs scheduler:tick by hand.
SteadyConstants == CliWorkers = {} /\ ConfigStates \subseteq {"watched"}

\* The worker map knows every busy worker, which works for the repo it is filed under;
\* a worker holds tasks of its own repo only; a process that is down has no busy worker.
Steady ==
  /\ \A r \in Repos : config[r] = "watched"
  /\ ~orphaned
  /\ \A r \in Repos : registered[r] # None => serves[registered[r]] = r
  /\ \A w \in DaemonWorkers : Busy(w) => serves[w] \in Repos /\ registered[serves[w]] = w
  /\ \A w \in DaemonWorkers : holds[w] # None => RepoOf[holds[w]] = serves[w]
  /\ mode = "down" => \A w \in DaemonWorkers : ~Busy(w)

LEMMA SteadyInit == Init => Steady
BY DEF Init, Steady, Busy, Workers

\* Steps that leave the workers and the worker map alone.
LEMMA SteadyIdleSteps ==
  ASSUME SteadyConstants, Steady,
         UNCHANGED <<config, orphaned, registered, serves, pc, holds>>,
         mode' = mode \/ mode' # "down"
  PROVE  Steady'
BY DEF Steady, Busy

\* The process ends.
LEMMA SteadyGone ==
  ASSUME SteadyConstants, TypeInv, Steady, NEW how, Gone(how), UNCHANGED orphaned
  PROVE  Steady'
BY DEF SteadyConstants, Gone, Steady, Busy, TypeInv, TypeOK, envVars, Workers

\* A drain starts.
LEMMA SteadyTickDrain ==
  ASSUME SteadyConstants, TypeInv, Steady, NEW r \in Repos, TickDrain(r)
  PROVE  Steady'
<1>1. PICK w \in DaemonWorkers : /\ EnsureWorker(r, w)
                                 /\ pc[w] = "idle"
                                 /\ pc' = [pc EXCEPT ![w] = "pull"]
  BY DEF TickDrain
<1>2. /\ UNCHANGED <<config, holds, orphaned, mode>> /\ mode = "up"
      /\ w \in Workers /\ w # None /\ DaemonWorkers \subseteq Workers
  BY SchedulerConstants DEF TickDrain, envVars, histVars, Workers
<1>3. registered'[r] = w /\ serves'[w] = r /\ r # None
  <2>1. CASE registered[r] = w /\ UNCHANGED <<registered, serves>>
    BY <1>2, <2>1, SchedulerConstants DEF Steady
  <2>2. CASE registered' = [registered EXCEPT ![r] = w] /\ serves' = [serves EXCEPT ![w] = r]
    BY <2>2, SchedulerConstants DEF TypeInv, TypeOK
  <2> QED BY <1>1, <2>1, <2>2 DEF EnsureWorker
<1>4. ASSUME NEW q \in Repos, q # r
      PROVE  registered'[q] = registered[q] /\ registered[q] # w
  BY <1>1, <1>2, <1>4 DEF EnsureWorker, Steady, TypeInv, TypeOK
<1>5. ASSUME NEW v \in DaemonWorkers, v # w
      PROVE  serves'[v] = serves[v] /\ pc'[v] = pc[v]
  BY <1>1, <1>2, <1>5 DEF EnsureWorker, TypeInv, TypeOK
<1>6. \A q \in Repos : registered'[q] # None => serves'[registered'[q]] = q
  <2> SUFFICES ASSUME NEW q \in Repos, registered'[q] # None
               PROVE  serves'[registered'[q]] = q
    OBVIOUS
  <2>1. CASE q = r
    BY <1>3, <2>1
  <2>2. CASE q # r
    <3>1. registered'[q] = registered[q] /\ registered[q] \in DaemonWorkers /\ registered[q] # w
      BY <1>4, <2>2 DEF TypeInv, TypeOK
    <3> QED BY <1>5, <3>1 DEF Steady
  <2> QED BY <2>1, <2>2
<1>7. \A v \in DaemonWorkers : Busy(v)' => serves'[v] \in Repos /\ registered'[serves'[v]] = v
  <2> SUFFICES ASSUME NEW v \in DaemonWorkers, pc'[v] # "idle"
               PROVE  serves'[v] \in Repos /\ registered'[serves'[v]] = v
    BY DEF Busy
  <2>1. CASE v = w
    BY <1>3, <2>1
  <2>2. CASE v # w
    <3>1. serves'[v] = serves[v] /\ serves[v] \in Repos /\ registered[serves[v]] = v
      BY <1>5, <2>2 DEF Steady, Busy
    <3>2. serves[v] # r
      BY <1>1, <1>3, <2>2, <3>1, SchedulerConstants DEF EnsureWorker, Workers
    <3> QED BY <1>4, <3>1, <3>2
  <2> QED BY <2>1, <2>2
<1>8. \A v \in DaemonWorkers : holds'[v] # None => RepoOf[holds'[v]] = serves'[v]
  <2>1. holds[w] = None
    BY <1>1, <1>2 DEF TypeInv, HoldsInLane
  <2> QED BY <1>2, <1>5, <2>1 DEF Steady
<1> QED BY <1>2, <1>6, <1>7, <1>8 DEF Steady

\* A drain goes on, and ends.
LEMMA SteadyDrain ==
  ASSUME SteadyConstants, TypeInv, Steady, DrainStep \/ LaneStep
  PROVE  Steady'
<1>1. Workers = DaemonWorkers
  BY DEF SteadyConstants, Workers
<1>2. UNCHANGED <<config, orphaned, registered, serves, mode>>
  BY DEF DrainStep, LaneStep, PullNothing, PullPaused, PullParked, PullStart, LaneRecords,
         LaneDone, LaneReady, LaneFailed, LaneOver, envVars, procVars, workerVars, histVars
<1>3. \A w \in DaemonWorkers : Busy(w)' => Busy(w)
  <2>1. PICK v \in DaemonWorkers :
          \/ PullNothing(v) \/ PullPaused(v)
          \/ \E t \in Tasks : PullParked(v, t) \/ PullStart(v, t)
          \/ LaneRecords(v) \/ LaneDone(v) \/ LaneReady(v) \/ LaneFailed(v)
    BY <1>1 DEF DrainStep, LaneStep
  <2>2. pc[v] # "idle" /\ \A w \in DaemonWorkers : w # v => pc'[w] = pc[w]
    BY <1>1, <2>1 DEF PullNothing, PullPaused, PullParked, PullStart, LaneRecords,
       LaneDone, LaneReady, LaneFailed, LaneOver, workerVars, TypeInv, TypeOK
  <2> QED BY <2>2 DEF Busy
<1>4. ASSUME NEW w \in DaemonWorkers, holds'[w] # None PROVE RepoOf[holds'[w]] = serves[w]
  <2>1. CASE holds'[w] = holds[w]
    BY <1>4, <2>1 DEF Steady
  <2>2. CASE \E v \in Workers, u \in Tasks : PullStart(v, u)
    BY <1>1, <1>4, <2>2 DEF PullStart, Front, Due, Scope, SteadyConstants, Steady, TypeInv, TypeOK
  <2>3. CASE \E v \in Workers : \E row : LaneOver(v, row)
    BY <1>1, <1>4, <2>3 DEF LaneOver, Steady, TypeInv, TypeOK
  <2>4. CASE UNCHANGED holds
    BY <1>4, <2>4 DEF Steady
  <2>5. \/ UNCHANGED holds \/ \E v \in Workers : \E row : LaneOver(v, row)
        \/ \E v \in Workers, u \in Tasks : PullStart(v, u)
    BY DEF DrainStep, LaneStep, PullNothing, PullPaused, PullParked, LaneRecords, LaneDone,
           LaneReady, LaneFailed, workerVars
  <2> QED BY <2>2, <2>3, <2>4, <2>5
<1> QED BY <1>2, <1>3, <1>4 DEF Steady

LEMMA SteadyStep ==
  SteadyConstants /\ TypeInv /\ Steady /\ [Next]_vars => Steady'
<1> SUFFICES ASSUME SteadyConstants, TypeInv, Steady, [Next]_vars PROVE Steady'
  OBVIOUS
<1>1. CASE UNCHANGED vars
  BY <1>1, SteadyIdleSteps DEF vars, envVars, procVars, workerVars, histVars
<1>2. CASE RequestStep \/ ClearRateLimit
  BY <1>2, SteadyIdleSteps DEF RequestStep, Request, Cancel, ClearRateLimit,
     envVars, procVars, workerVars
<1>3. CASE \E r \in Repos : TickDrain(r)
  BY <1>3, SteadyTickDrain
<1>4. CASE DrainStep \/ LaneStep
  BY <1>4, SteadyDrain
<1>5. CASE TickReconcile \/ ScanStep \/ EndReconcile
  BY <1>5, SteadyIdleSteps DEF TickReconcile, EndReconcile, ScanStep, PlanTask, NotListed,
     PollPr, NothingToPoll, RepoFails, envVars, procVars, workerVars, histVars
<1>6. CASE CliStep
  BY <1>6 DEF CliStep, SteadyConstants
<1>7. CASE EnvStep
  <2>1. CASE RefreshWorkers
    <3>1. registered' = registered
      BY <2>1 DEF RefreshWorkers, Steady, TypeInv, TypeOK
    <3> QED BY <2>1, <3>1, SteadyIdleSteps DEF RefreshWorkers, envVars, workerVars, histVars
  <2>2. CASE \E r \in Repos, c \in ConfigStates : Reload(r, c)
    BY <2>2 DEF Reload, Steady, SteadyConstants
  <2>3. CASE TogglePause \/ Clock \/ \E t \in Tasks : ItemEdited(t)
    BY <2>3, SteadyIdleSteps DEF TogglePause, Clock, ItemEdited, envVars, procVars,
       workerVars, histVars
  <2> QED BY <1>7, <2>1, <2>2, <2>3 DEF EnvStep
<1>8. CASE ProcessStep
  <2>1. CASE Sigterm \/ Boot
    BY <2>1, SteadyIdleSteps DEF Sigterm, Boot, envVars, workerVars, histVars, Steady, Busy
  <2>2. CASE ExitIdle \/ ExitForced \/ Killed \/ \E w \in DaemonWorkers : KilledBeforeEnqueue(w)
    BY <2>2, SteadyGone DEF ExitIdle, ExitForced, Killed, KilledBeforeEnqueue, histVars
  <2> QED BY <1>8, <2>1, <2>2 DEF ProcessStep
<1> QED BY <1>1, <1>2, <1>3, <1>4, <1>5, <1>6, <1>7, <1>8 DEF Next

LEMMA SteadyAlways ==
  ASSUME SteadyConstants
  PROVE  Spec => [](TypeInv /\ RunningHeld /\ Steady)
<1>1. TypeInv /\ Steady /\ [Next]_vars => Steady'
  BY SteadyStep
<1> QED BY <1>1, SteadyInit, TypeInvAlways, RunningIsHeld, PTL DEF Spec

----------------------------------------------------------------------------
(* Exclusion. *)

\* The worker that holds a task is the one filed under the repo of the task.
LEMMA HolderIsFiled ==
  ASSUME SteadyConstants, TypeInv, Steady, NEW w \in Workers, holds[w] # None
  PROVE  /\ w \in DaemonWorkers /\ holds[w] \in Tasks
         /\ RepoOf[holds[w]] \in Repos /\ registered[RepoOf[holds[w]]] = w
<1>1. w \in DaemonWorkers /\ pc[w] = "lane"
  BY DEF SteadyConstants, Workers, TypeInv, HoldsInLane
<1> QED BY <1>1, SchedulerConstants DEF Steady, Busy, TypeInv, TypeOK

LEMMA SteadyExclusive ==
  ASSUME SteadyConstants, TypeInv, Steady
  PROVE  OneHolder /\ OneDrainPerRepo
<1>1. OneHolder
  BY HolderIsFiled DEF OneHolder
<1>2. OneDrainPerRepo
  BY DEF OneDrainPerRepo, Steady
<1> QED BY <1>1, <1>2

\* Two workers never process the same task, so the row of a task at work has one writer.
THEOREM HoldersAreUnique ==
  ASSUME SteadyConstants
  PROVE  Spec => []OneHolder
<1>1. TypeInv /\ RunningHeld /\ Steady => OneHolder
  BY SteadyExclusive
<1> QED BY <1>1, SteadyAlways, PTL

\* A repo never has two drains at a time, so no two lanes use its clone together.
THEOREM DrainsAreUnique ==
  ASSUME SteadyConstants
  PROVE  Spec => []OneDrainPerRepo
<1>1. TypeInv /\ RunningHeld /\ Steady => OneDrainPerRepo
  BY SteadyExclusive
<1> QED BY <1>1, SteadyAlways, PTL

\* While the process is down after an idle exit nothing can start, and the idle exit
\* itself saw every busy worker in the worker map.
THEOREM IdleExitsAreClean ==
  ASSUME SteadyConstants
  PROVE  Spec => []IdleExitIsClean
<1>1. Init => IdleExitIsClean
  BY DEF Init, IdleExitIsClean
<1>2. TypeInv /\ RunningHeld /\ Steady /\ IdleExitIsClean /\ [Next]_vars => IdleExitIsClean'
  <2> SUFFICES ASSUME TypeInv, RunningHeld, Steady, IdleExitIsClean, [Next]_vars,
                      mode' = "down", ended' = "idle", NEW t \in Tasks
               PROVE  task'[t].status # "running"
    BY DEF IdleExitIsClean
  <2>1. CASE ExitIdle
    <3>1. \A w \in Workers : holds[w] = None
      <4> SUFFICES ASSUME NEW w \in Workers, holds[w] # None PROVE FALSE
        OBVIOUS
      <4>1. registered[RepoOf[holds[w]]] = w /\ RepoOf[holds[w]] \in Repos /\ w # None
        BY HolderIsFiled, SchedulerConstants
      <4>2. Busy(w)
        BY DEF Busy, TypeInv, HoldsInLane
      <4> QED BY <2>1, <4>1, <4>2 DEF ExitIdle, AnyWorkerBusy
    <3>2. ~Held(t)
      BY <3>1, SchedulerConstants DEF Held
    <3>3. task' = task /\ mode = "stopping"
      BY <2>1 DEF ExitIdle
    <3> QED BY <3>2, <3>3 DEF RunningHeld, Steady
  <2>2. CASE ~ExitIdle
    <3>1. mode = "down" /\ ended = "idle"
      BY <2>2 DEF Next, vars, procVars, RequestStep, Request, Cancel, ClearRateLimit,
         TickDrain, DrainStep, PullNothing, PullPaused, PullParked, PullStart,
         LaneStep, LaneRecords, LaneDone, LaneReady, LaneFailed, LaneOver,
         TickReconcile, EndReconcile, ScanStep, PlanTask, NotListed, PollPr,
         NothingToPoll, RepoFails, CliStep, CliStart, CliDrain, CliDies,
         EnvStep, TogglePause, RefreshWorkers, Clock, Reload, ItemEdited,
         ProcessStep, Sigterm, ExitForced, Killed, KilledBeforeEnqueue, Gone, Boot
    <3>2. task[t].status # "running"
      BY <3>1 DEF IdleExitIsClean
    <3>3. ~ \E w \in Workers : PullStart(w, t)
      BY <3>1 DEF PullStart, Steady, Busy, SteadyConstants, Workers
    <3> QED BY <3>2, <3>3, StartsHeld
  <2> QED BY <2>1, <2>2
<1> QED BY <1>1, <1>2, SteadyAlways, PTL DEF Spec

----------------------------------------------------------------------------
(* The scheduler implements TaskLease. *)

\* With one holder per task, Holder(t) is that holder.
LEMMA HolderIs ==
  ASSUME OneHolder
  PROVE  \A t \in Tasks : /\ ~Held(t) => Holder(t) = None
                          /\ \A w \in Workers : holds[w] = t => Holder(t) = w
<1> SUFFICES ASSUME NEW t \in Tasks, NEW w \in Workers, holds[w] = t PROVE Holder(t) = w
  BY DEF Holder
<1>1. Held(t) /\ \A v \in Workers : holds[v] = t => v = w
  BY SchedulerConstants DEF Held, OneHolder
<1> QED BY <1>1 DEF Holder

\* Steps that leave the holders alone: submissions, a withdrawal, or the recovery.
LEMMA RefinesIdle ==
  ASSUME SteadyConstants, TypeInv, Steady, OneHolder, [Next]_vars, UNCHANGED holds
  PROVE  Lease!Next
<1> DEFINE mark == [t \in Tasks |-> Mark(task[t])]
           lease == [t \in Tasks |-> Holder(t)]
<1>0. lease' = lease
  BY DEF Holder, Held
<1>1. CASE Boot
  <2>1. \A w \in Workers : holds[w] = None
    BY <1>1 DEF Boot, Steady, Busy, SteadyConstants, Workers, TypeInv, HoldsInLane
  <2>2. \A t \in Tasks : lease[t] = None
    BY <2>1, SchedulerConstants DEF Holder, Held
  <2>3. PICK day \in Delays : task' = [t \in Tasks |-> RecoveredRow(task[t], day)]
    BY <1>1 DEF Boot
  <2> DEFINE S == {t \in Tasks : task'[t].status = "pending"}
  <2>4. ASSUME NEW t \in Tasks
        PROVE  mark'[t] = IF mark[t] # "working" THEN mark[t]
                          ELSE IF t \in S THEN "queued" ELSE "out"
    <3>1. task[t] \in Rows /\ task'[t] \in Rows /\ task'[t].status # "running"
          /\ (task[t].status # "running" => task'[t] = task[t])
      BY <2>3, RecoveredType, DelaysPositive DEF TypeInv, TypeOK
    <3> QED BY <3>1 DEF Mark, Rows, Statuses
  <2>5. Lease!Recover
    BY <1>0, <2>2, <2>4, ZenonT(30) DEF Lease!Recover
  <2> QED BY <2>5 DEF Lease!Next
<1>2. CASE \E t \in Tasks : Cancel(t)
  <2>1. PICK t \in Tasks : Cancel(t)
    BY <1>2
  <2>2. task'[t].status = "done" /\ \A u \in Tasks : u # t => task'[u] = task[u]
    BY <2>1, OtherRowTypes, SetRowType DEF Cancel, TypeInv, TypeOK
  <2>3. mark' = [mark EXCEPT ![t] = "out"]
    BY <2>2 DEF Mark
  <2> QED BY <1>0, <2>3 DEF Lease!Withdraw, Lease!Next
<1>3. CASE ~Boot /\ ~ \E t \in Tasks : Cancel(t)
  <2> DEFINE S == {t \in Tasks : task'[t].status = "pending"}
  <2>1. ASSUME NEW t \in Tasks PROVE mark'[t] = IF t \in S THEN "queued" ELSE mark[t]
    <3>1. ~ LetGo(t)
      BY SchedulerConstants DEF LetGo
    <3>2. ~ \E w \in Workers : PullStart(w, t)
      BY SchedulerConstants DEF PullStart, TypeInv, TypeOK, HoldsInLane
    <3>3. task'[t].status \in {task[t].status, "pending"}
      BY <1>3, <3>1, <3>2, RowStep DEF Kept, Rewritten
    <3> QED BY <3>3 DEF Mark
  <2>2. Lease!Submit
    BY <1>0, <2>1 DEF Lease!Submit
  <2> QED BY <2>2 DEF Lease!Next
<1> QED BY <1>1, <1>2, <1>3

\* A lane starts.
LEMMA RefinesStart ==
  ASSUME SteadyConstants, TypeInv, Steady, OneHolder, OneHolder',
         NEW w \in Workers, NEW t \in Tasks, PullStart(w, t)
  PROVE  Lease!Start(t, w)
<1>1. /\ task[t].status = "pending" /\ t \in Tasks /\ RepoOf[t] = serves[w]
      /\ w \in DaemonWorkers /\ pc[w] = "pull"
  BY DEF PullStart, Front, Due, Scope, Runnable, SteadyConstants, Workers
<1>2. holds[w] = None /\ registered[serves[w]] = w
  BY <1>1 DEF TypeInv, HoldsInLane, Steady, Busy
<1>3. ~Held(t)
  BY <1>1, <1>2, HolderIsFiled, SchedulerConstants DEF Held
<1>4. /\ task'[t].status = "running" /\ \A u \in Tasks : u # t => task'[u] = task[u]
      /\ holds' = [holds EXCEPT ![w] = t]
  BY LaneRowTypes, SetRowType DEF PullStart, TypeInv, TypeOK
<1>5. \A u \in Tasks : Holder(u) # w
  BY <1>2, HolderIs, SchedulerConstants DEF Held
<1>6. \A u \in Tasks : Holder(u)' = IF u = t THEN w ELSE Holder(u)
  <2> SUFFICES ASSUME NEW u \in Tasks PROVE Holder(u)' = IF u = t THEN w ELSE Holder(u)
    OBVIOUS
  <2>1. CASE u = t
    <3>1. holds'[w] = t /\ \A v \in Workers : holds'[v] = t => v = w
      BY <1>3, <1>4 DEF Held, TypeInv, TypeOK
    <3> QED BY <2>1, <3>1 DEF Holder, Held
  <2>2. CASE u # t
    <3>1. \A v \in Workers : holds'[v] = u <=> holds[v] = u
      BY <1>2, <1>4, <2>2, SchedulerConstants DEF TypeInv, TypeOK
    <3> QED BY <2>2, <3>1 DEF Holder, Held
  <2> QED BY <2>1, <2>2
<1>7. [u \in Tasks |-> Mark(task[u])]' = [[u \in Tasks |-> Mark(task[u])] EXCEPT ![t] = "working"]
  BY <1>4 DEF Mark
<1>8. [u \in Tasks |-> Holder(u)]' = [[u \in Tasks |-> Holder(u)] EXCEPT ![t] = w]
  BY <1>6
<1>9. Mark(task[t]) = "queued" /\ Holder(t) = None
  BY <1>1, <1>3 DEF Mark, Holder
<1> QED BY <1>5, <1>7, <1>8, <1>9 DEF Lease!Start

\* A lane ends.
LEMMA RefinesFinish ==
  ASSUME TypeInv, OneHolder, NEW w \in Workers, NEW row \in Rows,
         LaneOver(w, row), row.status \in {"pending", "done"}
  PROVE  Lease!Finish(holds[w]) /\ holds[w] \in Tasks
<1>1. holds[w] \in Tasks /\ holds[w] # None
  BY DEF LaneOver, TypeInv, HoldsInLane, TypeOK
<1> DEFINE t == holds[w]
<1>2. /\ task'[t] = row /\ \A u \in Tasks : u # t => task'[u] = task[u]
      /\ holds' = [holds EXCEPT ![w] = None]
  BY <1>1, SetRowType DEF LaneOver, TypeInv, TypeOK
<1>3. Holder(t) = w /\ w # None
  BY <1>1, HolderIs, SchedulerConstants
<1>4. \A u \in Tasks : Holder(u)' = IF u = t THEN None ELSE Holder(u)
  <2> SUFFICES ASSUME NEW u \in Tasks PROVE Holder(u)' = IF u = t THEN None ELSE Holder(u)
    OBVIOUS
  <2>1. CASE u = t
    <3>1. \A v \in Workers : holds'[v] # t
      BY <1>1, <1>2 DEF OneHolder, TypeInv, TypeOK
    <3> QED BY <2>1, <3>1 DEF Holder, Held
  <2>2. CASE u # t
    <3>1. \A v \in Workers : holds'[v] = u <=> holds[v] = u
      BY <1>2, <2>2, SchedulerConstants DEF TypeInv, TypeOK
    <3> QED BY <2>2, <3>1 DEF Holder, Held
  <2> QED BY <2>1, <2>2
<1>5. [u \in Tasks |-> Holder(u)]' = [[u \in Tasks |-> Holder(u)] EXCEPT ![t] = None]
  BY <1>4
<1>6. /\ Mark(row) \in {"out", "queued"}
      /\ [u \in Tasks |-> Mark(task[u])]' = [[u \in Tasks |-> Mark(task[u])] EXCEPT ![t] = Mark(row)]
  BY <1>2 DEF Mark
<1> QED BY <1>1, <1>3, <1>5, <1>6 DEF Lease!Finish

\* The process ends.
LEMMA RefinesCrash ==
  ASSUME SteadyConstants, TypeInv, OneHolder, NEW how, Gone(how),
         UNCHANGED task \/ \E v \in DaemonWorkers : KilledBeforeEnqueue(v)
  PROVE  Lease!Crash
<1>1. \A w \in Workers : holds'[w] = None
  BY DEF Gone, SteadyConstants
<1>2. [t \in Tasks |-> Holder(t)]' = [t \in Tasks |-> None]
  BY <1>1, SchedulerConstants DEF Holder, Held
<1>3. CASE UNCHANGED task
  BY <1>2, <1>3 DEF Lease!Crash
<1>4. ASSUME NEW w \in DaemonWorkers, KilledBeforeEnqueue(w) PROVE Lease!Crash
  <2>1. w \in Workers /\ holds[w] \in Tasks
    BY <1>4 DEF KilledBeforeEnqueue, TypeInv, HoldsInLane, TypeOK, Workers
  <2> DEFINE t == holds[w]
  <2>2. task[t] \in Rows /\ 0 \in DueTimes
    BY <2>1 DEF TypeInv, TypeOK, DueTimes
  <2>3. task'[t].status = "done" /\ \A u \in Tasks : u # t => task'[u] = task[u]
    <3>1. MarkedDone(task[t], 0) \in Rows /\ MarkedDone(task[t], 0).status = "done"
      BY <2>2, LaneRowTypes
    <3>2. SetRow(t, MarkedDone(task[t], 0))
      BY <1>4 DEF KilledBeforeEnqueue
    <3> QED BY <2>1, <3>1, <3>2, SetRowType DEF TypeInv, TypeOK
  <2>4. Holder(t) # None
    BY <2>1, HolderIs, SchedulerConstants
  <2>5. [u \in Tasks |-> Mark(task[u])]' = [[u \in Tasks |-> Mark(task[u])] EXCEPT ![t] = "out"]
    BY <2>3 DEF Mark
  <2> QED BY <1>2, <2>1, <2>4, <2>5 DEF Lease!Crash
<1> QED BY <1>3, <1>4

\* Leases as TaskLease describes them are what the queue, the worker map and the crash
\* recovery implement together.
THEOREM ImplementsLease ==
  ASSUME SteadyConstants
  PROVE  Spec => LeaseSpec
<1>1. Init => Lease!Init
  <2> SUFFICES ASSUME Init PROVE Lease!Init
    OBVIOUS
  <2>1. \A t \in Tasks : Mark(task[t]) = "out" /\ Holder(t) = None
    BY SchedulerConstants DEF Init, AbsentRow, Mark, Holder, Held, Workers
  <2> QED BY <2>1 DEF Lease!Init
<1>2. TypeInv /\ Steady /\ OneHolder /\ OneHolder' /\ [Next]_vars => [Lease!Next]_Lease!leaseVars
  <2> SUFFICES ASSUME TypeInv, Steady, OneHolder, OneHolder', [Next]_vars
               PROVE  Lease!Next
    OBVIOUS
  <2>1. CASE UNCHANGED holds
    BY <2>1, RefinesIdle
  <2>2. CASE \E v \in Workers, u \in Tasks : PullStart(v, u)
    BY <2>2, RefinesStart DEF Lease!Next
  <2>3. CASE \E v \in Workers, row \in Rows :
               LaneOver(v, row) /\ row.status \in {"pending", "done"}
    BY <2>3, RefinesFinish DEF Lease!Next
  <2>4. CASE (\E how : Gone(how)) /\ (UNCHANGED task \/ \E v \in DaemonWorkers : KilledBeforeEnqueue(v))
    BY <2>4, RefinesCrash DEF Lease!Next
  <2>5. ~ \E v \in CliWorkers : CliDies(v)
    BY DEF SteadyConstants
  <2> QED BY <2>1, <2>2, <2>3, <2>4, <2>5, HoldsSteps
<1> QED BY <1>1, <1>2, SteadyAlways, HoldersAreUnique, PTL DEF Spec, LeaseSpec, Lease!Spec
=============================================================================
