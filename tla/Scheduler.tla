----------------------------- MODULE Scheduler -----------------------------
(***************************************************************************)
(* The task scheduler of the main service: the drain workers (one per      *)
(* watched repo), the reconcile loop, webhooks and admin requests that     *)
(* enqueue, hot reload of the repo list, graceful stop, crash and boot     *)
(* recovery; and the command-line "scheduler:tick", a process of its own   *)
(* on the same database.                                                   *)
(*                                                                         *)
(* JavaScript runs one turn at a time, so what happens between two awaits  *)
(* is one step here, except that a drain tick is split into one step per   *)
(* repo and one per dequeue: these touch different repos and commute.      *)
(***************************************************************************)
EXTENDS TaskRow, FiniteSets

CONSTANTS
  Tasks,          \* rows of the table, by id
  Repos,          \* repos in the configuration
  RepoOf,         \* the repo of each task
  Listed,         \* tasks whose item listOpenItems may return
  Requestable,    \* tasks somebody may ask for (webhook, admin page, API)
  Cancellable,    \* tasks somebody may cancel
  OurPrs,         \* tasks that are pull requests this service opened
  DaemonWorkers,  \* drain worker objects of the daemon (bounds how many are alive at once)
  CliWorkers,     \* command-line processes that may run scheduler:tick
  Hanging,        \* tasks whose lane may take forever
  BatchSize,      \* drain_batch_size
  Endings,        \* ways the daemon may be ended: by SIGTERM, by a crash or SIGKILL
  ErrorTexts,     \* messages a failing lane may leave
  ConfigStates    \* what a hot reload may turn a repo's entry into

Workers == DaemonWorkers \cup CliWorkers
Daemon  == "daemon"
\* Those who walk the items of the repos: the daemon's reconcile loop and each CLI process.
Scanners == {Daemon} \cup CliWorkers

AllConfigStates == {"watched", "unwatched", "hidden", "removed"}

ASSUME SchedulerConstants ==
  /\ Tasks \subseteq Nat
  /\ RepoOf \in [Tasks -> Repos]
  /\ Listed \cup OurPrs \cup Requestable \cup Cancellable \cup Hanging \subseteq Tasks
  /\ DaemonWorkers \cap CliWorkers = {}
  /\ None \notin Tasks \cup Repos \cup Workers
  /\ Daemon \notin CliWorkers
  /\ BatchSize \in Nat \ {0}
  /\ Endings \subseteq {"sigterm", "kill"}
  /\ ErrorTexts \subseteq Texts \ {"none"}
  /\ ConfigStates \subseteq AllConfigStates

VARIABLES
  task,        \* the tasks table
  config,      \* the configuration as last loaded: state of each repo's entry
  paused,      \* the .PAUSE file exists
  mode,        \* life of the daemon process: "up", "stopping", "down"
  ended,       \* how the daemon last ended: "none", "idle", "forced", "killed"
  registered,  \* workersByKey: the worker object of each repo, or None
  serves,      \* the repo a daemon worker was created for, or None
  pc,          \* where a worker's drain is: "idle" (not busy), "scan", "pull", "lane"
  holds,       \* the task a worker is processing, or None
  left,        \* iterations the drain loop has left
  fetched,     \* the item the lane read is still the item's current content
  cliConfig,   \* the configuration each CLI process loaded
  reconciling, \* reconcileBusy
  toPlan,      \* per scanner: listed items not planned yet
  toPoll,      \* per scanner: own pull requests not polled yet
  \* history, for the properties only
  asked,       \* "no", or someone asked for the task and no lane has started on it
               \* since: "idle" or "busy" says if a worker held it at that moment
  resumes,     \* consecutive crash recoveries that put the task back
  orphaned     \* a CLI process died holding a task since the daemon's last boot

scanVars   == <<reconciling, toPlan, toPoll>>
workerVars == <<serves, pc, holds, left, fetched, cliConfig>>
envVars    == <<config, paused>>
procVars   == <<mode, ended, registered>>
histVars   == <<asked, resumes, orphaned>>
vars == <<task, envVars, procVars, workerVars, scanVars, histVars>>

\* One type invariant: every variable stays in the range its consumers handle.
TypeOK ==
  /\ task \in [Tasks -> Rows]
  /\ config \in [Repos -> AllConfigStates]
  /\ paused \in BOOLEAN
  /\ mode \in {"up", "stopping", "down"}
  /\ ended \in {"none", "idle", "forced", "killed"}
  /\ registered \in [Repos -> DaemonWorkers \cup {None}]
  /\ serves \in [DaemonWorkers -> Repos \cup {None}]
  /\ pc \in [Workers -> {"idle", "scan", "pull", "lane"}]
  /\ holds \in [Workers -> Tasks \cup {None}]
  /\ left \in [Workers -> 0..BatchSize]
  /\ fetched \in [Workers -> BOOLEAN]
  /\ cliConfig \in [CliWorkers -> [Repos -> AllConfigStates]]
  /\ reconciling \in BOOLEAN
  /\ toPlan \in [Scanners -> SUBSET Tasks]
  /\ toPoll \in [Scanners -> SUBSET Tasks]
  /\ asked \in [Tasks -> {"no", "idle", "busy"}]
  /\ resumes \in [Tasks -> Nat]
  /\ orphaned \in BOOLEAN

\* A new database, every repo watched, the daemon not started yet.
Init ==
  /\ task = [t \in Tasks |-> AbsentRow]
  /\ config = [r \in Repos |-> "watched"]
  /\ paused = FALSE
  /\ mode = "down"
  /\ ended = "none"
  /\ registered = [r \in Repos |-> None]
  /\ serves = [w \in DaemonWorkers |-> None]
  /\ pc = [w \in Workers |-> "idle"]
  /\ holds = [w \in Workers |-> None]
  /\ left = [w \in Workers |-> 0]
  /\ fetched = [w \in Workers |-> FALSE]
  /\ cliConfig = [w \in CliWorkers |-> config]
  /\ reconciling = FALSE
  /\ toPlan = [s \in Scanners |-> {}]
  /\ toPoll = [s \in Scanners |-> {}]
  /\ asked = [t \in Tasks |-> "no"]
  /\ resumes = [t \in Tasks |-> 0]
  /\ orphaned = FALSE

SetRow(t, row) == task' = [task EXCEPT ![t] = row]

Held(t) == \E w \in Workers : holds[w] = t

Ask(t) == asked' = [asked EXCEPT ![t] = IF Held(t) THEN "busy" ELSE "idle"]

----------------------------------------------------------------------------
(* Requests that wake or cancel a task: webhooks, admin pages, HTTP API.   *)
(* They are served for as long as the process lives.                       *)

\* Webhooks, kick, retry, trigger, reenqueue and the API upsert the row and enqueue it.
Request(t, prio) ==
  /\ mode # "down" /\ t \in Requestable
  /\ SetRow(t, EnqueuedRow(task[t], prio, None))
  /\ Ask(t)
  /\ UNCHANGED <<envVars, procVars, workerVars, scanVars, resumes, orphaned>>

Cancel(t) ==
  /\ mode # "down" /\ t \in Cancellable /\ task[t].status # "absent"
  /\ SetRow(t, CancelledRow(task[t]))
  /\ asked' = [asked EXCEPT ![t] = "no"]
  /\ resumes' = [resumes EXCEPT ![t] = 0]
  /\ UNCHANGED <<envVars, procVars, workerVars, scanVars, orphaned>>

ClearRateLimit ==
  /\ mode # "down"
  /\ \E t \in Tasks : RateLimited(task[t])
  /\ task' = [t \in Tasks |-> ClearedRow(task[t])]
  /\ resumes' = [t \in Tasks |-> IF RateLimited(task[t]) THEN 0 ELSE resumes[t]]
  /\ UNCHANGED <<envVars, procVars, workerVars, scanVars, asked, orphaned>>

----------------------------------------------------------------------------
(* The drain workers. *)

\* ensureWorker: the repo's worker object, a new one if the map has none.
EnsureWorker(r, w) ==
  \/ /\ registered[r] = w
     /\ UNCHANGED <<registered, serves>>
  \/ /\ registered[r] = None
     /\ pc[w] = "idle" /\ \A q \in Repos : registered[q] # w
     /\ registered' = [registered EXCEPT ![r] = w]
     /\ serves' = [serves EXCEPT ![w] = r]

\* (mutant) No drain starts while another worker is busy.
TickDrainAlone(r) ==
  /\ mode = "up" /\ config[r] = "watched" /\ \A v \in DaemonWorkers : pc[v] = "idle"
  /\ \E w \in DaemonWorkers :
       /\ EnsureWorker(r, w)
       /\ pc' = [pc EXCEPT ![w] = "pull"]
       /\ left' = [left EXCEPT ![w] = BatchSize]
  /\ UNCHANGED <<task, envVars, mode, ended, holds, fetched, cliConfig, scanVars, histVars>>

\* One repo's share of tickDrain: a worker that is not busy starts to drain.
TickDrain(r) ==
  /\ mode = "up" /\ config[r] = "watched"
  /\ \E w \in DaemonWorkers :
       /\ EnsureWorker(r, w)
       /\ pc[w] = "idle"
       /\ pc' = [pc EXCEPT ![w] = "pull"]
       /\ left' = [left EXCEPT ![w] = BatchSize]
  /\ UNCHANGED <<task, envVars, mode, ended, holds, fetched, cliConfig, scanVars, histVars>>

\* (mutant) Every worker drains all repos.
ScopeAll(w) == Tasks

\* A daemon worker drains its repo, the command line drains them all.
Scope(w) == IF w \in CliWorkers THEN Tasks ELSE {t \in Tasks : RepoOf[t] = serves[w]}

Due(w) == {t \in Scope(w) : Runnable(task[t])}

\* ORDER BY priority, NULL due times first, next_due_at, id; how long two tasks
\* have been overdue is not kept, so either may come first.
Before(t, u) ==
  \/ task[t].priority = "high" /\ task[u].priority = "normal"
  \/ /\ task[t].priority = task[u].priority
     /\ task[t].due = None
     /\ task[u].due # None \/ t < u

Front(w) == {t \in Due(w) : \A u \in Due(w) : ~Before(u, t)}

\* The configuration a drain captured when it started: a daemon worker only ever
\* pulls tasks of its own repo, which was watched at that moment.
Captured(w, r) == IF w \in CliWorkers THEN cliConfig[w][r] ELSE "watched"

\* Nothing due, or the batch is used up: the drain ends and the worker is idle.
PullNothing(w) ==
  /\ pc[w] = "pull"
  /\ left[w] = 0 \/ Due(w) = {}
  /\ pc' = [pc EXCEPT ![w] = "idle"]
  /\ left' = [left EXCEPT ![w] = 0]
  /\ UNCHANGED <<task, envVars, procVars, serves, holds, fetched, cliConfig,
                 scanVars, histVars>>

\* One iteration of the loop is spent.
Spend(w) == left' = [left EXCEPT ![w] = @ - 1]

\* (mutant) Paused after dequeue, the task is not put back.
PullPausedLeaks(w) ==
  /\ pc[w] = "pull" /\ left[w] > 0 /\ paused
  /\ \E t \in Front(w) : SetRow(t, DequeuedRow(task[t]))
  /\ Spend(w)
  /\ UNCHANGED <<envVars, procVars, serves, pc, holds, fetched, cliConfig,
                 scanVars, histVars>>

\* While paused, the task is dequeued and put back at once.
PullPaused(w) ==
  /\ pc[w] = "pull" /\ left[w] > 0 /\ Due(w) # {} /\ paused
  /\ Spend(w)
  /\ UNCHANGED <<task, envVars, procVars, serves, pc, holds, fetched, cliConfig,
                 scanVars, histVars>>

\* (mutant) Parked as done instead of as an error.
PullParkedDone(w, t) ==
  /\ pc[w] = "pull" /\ left[w] > 0 /\ t \in Front(w) /\ ~paused
  /\ Captured(w, RepoOf[t]) \in {"removed", "hidden"}
  /\ \E day \in Delays : SetRow(t, MarkedDone(DequeuedRow(task[t]), day))
  /\ Spend(w)
  /\ resumes' = [resumes EXCEPT ![t] = 0]
  /\ UNCHANGED <<envVars, procVars, serves, pc, holds, fetched, cliConfig,
                 scanVars, asked, orphaned>>

\* The repo is not in the configuration, or hidden: parked for a day.
PullParked(w, t) ==
  /\ pc[w] = "pull" /\ left[w] > 0 /\ t \in Front(w) /\ ~paused
  /\ Captured(w, RepoOf[t]) \in {"removed", "hidden"}
  /\ \E day \in Delays : SetRow(t, MarkedError(DequeuedRow(task[t]), "short", day))
  /\ Spend(w)
  /\ resumes' = [resumes EXCEPT ![t] = 0]
  /\ UNCHANGED <<envVars, procVars, serves, pc, holds, fetched, cliConfig,
                 scanVars, asked, orphaned>>

\* The task is running from here until its lane is over.
PullStart(w, t) ==
  /\ pc[w] = "pull" /\ left[w] > 0 /\ t \in Front(w) /\ ~paused
  /\ Captured(w, RepoOf[t]) \notin {"removed", "hidden"}
  /\ SetRow(t, DequeuedRow(task[t]))
  /\ pc' = [pc EXCEPT ![w] = "lane"]
  /\ holds' = [holds EXCEPT ![w] = t]
  /\ fetched' = [fetched EXCEPT ![w] = TRUE]
  /\ asked' = [asked EXCEPT ![t] = "no"]
  /\ UNCHANGED <<envVars, procVars, serves, left, cliConfig, scanVars, resumes, orphaned>>

----------------------------------------------------------------------------
(* A lane and its end.  What a lane does to pull requests is not modelled  *)
(* here: only what it leaves in the task's row.                            *)

\* recordTaskDecision: triage stores the snapshot of the item it read; the other
\* lanes store another hash, which never equals a snapshot.
LaneRecords(w) ==
  /\ pc[w] = "lane"
  /\ \E s \in {"old", IF fetched[w] THEN "current" ELSE "old"} :
       SetRow(holds[w], [task[holds[w]] EXCEPT !.snapshot = s])
  /\ UNCHANGED <<envVars, procVars, workerVars, scanVars, histVars>>

\* The lane is over: its task is no longer held and the loop goes on.
LaneOver(w, row) ==
  /\ pc[w] = "lane"
  /\ SetRow(holds[w], row)
  /\ pc' = [pc EXCEPT ![w] = "pull"]
  /\ holds' = [holds EXCEPT ![w] = None]
  /\ fetched' = [fetched EXCEPT ![w] = FALSE]
  /\ resumes' = [resumes EXCEPT ![holds[w]] = 0]
  /\ Spend(w)
  /\ UNCHANGED <<envVars, procVars, serves, cliConfig, scanVars, asked, orphaned>>

\* No lane applies, or the lane reached an outcome: due again after the cadence,
\* or after a day when the outcome parks it.
LaneDone(w) ==
  \E delay \in Delays \cup {Cadence} : LaneOver(w, MarkedDone(task[holds[w]], delay))

LaneReady(w) == LaneOver(w, MarkedReady(task[holds[w]]))

\* The catch block: an hour, the rate-limit cooldown, or a year after a 404.
LaneFailed(w) ==
  \E text \in ErrorTexts, delay \in Delays :
    LaneOver(w, MarkedError(task[holds[w]], text, delay))

----------------------------------------------------------------------------
(* The reconcile loop, in the daemon and in the command line. *)

\* The repos a scan covers: the daemon leaves out the hidden ones, the command line
\* does not ("hidden" is a watched entry with the hidden flag set).
Covered(s) ==
  {r \in Repos : config[r] \in IF s = Daemon THEN {"watched"} ELSE {"watched", "hidden"}}

StartScan(s) ==
  /\ toPlan' = [toPlan EXCEPT ![s] = {t \in Listed : RepoOf[t] \in Covered(s)}]
  /\ toPoll' = [toPoll EXCEPT ![s] = {t \in OurPrs : RepoOf[t] \in Covered(s)}]

TickReconcile ==
  /\ mode = "up" /\ ~reconciling
  /\ reconciling' = TRUE
  /\ StartScan(Daemon)
  /\ UNCHANGED <<task, envVars, procVars, workerVars, histVars>>

Planned(s, t) == toPlan' = [toPlan EXCEPT ![s] = @ \ {t}] /\ UNCHANGED toPoll

\* The items of a repo are listed before its pull requests are polled.
Polled(s, t) ==
  /\ \A u \in toPlan[s] : RepoOf[u] # RepoOf[t]
  /\ toPoll' = [toPoll EXCEPT ![s] = @ \ {t}]
  /\ UNCHANGED toPlan

PlanTask(s, t) ==
  /\ t \in toPlan[s]
  /\ Planned(s, t)
  /\ SetRow(t, PlannedRow(task[t]))
  /\ UNCHANGED <<envVars, procVars, workerVars, reconciling, histVars>>

\* The item is closed by now, so the listing does not return it.
NotListed(s, t) ==
  /\ t \in toPlan[s]
  /\ Planned(s, t)
  /\ UNCHANGED <<task, envVars, procVars, workerVars, reconciling, histVars>>

\* New feedback (high), or auto-merge wants another look (normal): enqueued
\* without a look at the status.
PollPr(s, t, prio) ==
  /\ t \in toPoll[s]
  /\ Polled(s, t)
  /\ SetRow(t, EnqueuedRow(task[t], prio, None))
  /\ Ask(t)
  /\ UNCHANGED <<envVars, procVars, workerVars, reconciling, resumes, orphaned>>

NothingToPoll(s, t) ==
  /\ t \in toPoll[s]
  /\ Polled(s, t)
  /\ UNCHANGED <<task, envVars, procVars, workerVars, reconciling, histVars>>

\* Listing a repo failed: the rest of its items wait for the next reconcile.
RepoFails(s, r) ==
  LET here == {t \in Tasks : RepoOf[t] = r} IN
  /\ toPlan[s] \cap here # {}
  /\ toPlan' = [toPlan EXCEPT ![s] = @ \ here]
  /\ toPoll' = [toPoll EXCEPT ![s] = @ \ here]
  /\ UNCHANGED <<task, envVars, procVars, workerVars, reconciling, histVars>>

Scanned(s) == toPlan[s] = {} /\ toPoll[s] = {}

EndReconcile ==
  /\ reconciling /\ Scanned(Daemon)
  /\ reconciling' = FALSE
  /\ UNCHANGED <<task, envVars, procVars, workerVars, toPlan, toPoll, histVars>>

----------------------------------------------------------------------------
(* The command line: scheduler:tick loads the configuration, reconciles    *)
(* the watched repos and drains one batch over all repos.                  *)

CliStart(w) ==
  /\ w \in CliWorkers /\ pc[w] = "idle"
  /\ cliConfig' = [cliConfig EXCEPT ![w] = config]
  /\ StartScan(w)
  /\ pc' = [pc EXCEPT ![w] = "scan"]
  /\ left' = [left EXCEPT ![w] = BatchSize]
  /\ UNCHANGED <<task, envVars, procVars, serves, holds, fetched, reconciling, histVars>>

CliDrain(w) ==
  /\ pc[w] = "scan" /\ Scanned(w)
  /\ pc' = [pc EXCEPT ![w] = "pull"]
  /\ UNCHANGED <<task, envVars, procVars, serves, holds, left, fetched, cliConfig,
                 scanVars, histVars>>

\* Interrupted: nothing resets the row of the task it was processing.
CliDies(w) ==
  /\ w \in CliWorkers /\ pc[w] # "idle"
  /\ pc' = [pc EXCEPT ![w] = "idle"]
  /\ left' = [left EXCEPT ![w] = 0]
  /\ holds' = [holds EXCEPT ![w] = None]
  /\ fetched' = [fetched EXCEPT ![w] = FALSE]
  /\ toPlan' = [toPlan EXCEPT ![w] = {}]
  /\ toPoll' = [toPoll EXCEPT ![w] = {}]
  /\ orphaned' = (orphaned \/ holds[w] # None)
  /\ UNCHANGED <<task, envVars, procVars, serves, cliConfig, reconciling, asked, resumes>>

----------------------------------------------------------------------------
(* Operator, clock and items. *)

TogglePause ==
  /\ paused' = ~paused
  /\ UNCHANGED <<task, config, procVars, workerVars, scanVars, histVars>>

\* The configuration file changes and is reloaded.
Reload(r, c) ==
  /\ config[r] # c
  /\ config' = [config EXCEPT ![r] = c]
  /\ UNCHANGED <<task, paused, procVars, workerVars, scanVars, histVars>>

\* The dashboard asks for worker statuses, which drops the map entries of repos no
\* longer watched, busy or not.  (The idle objects it creates for newly watched
\* repos are the ones TickDrain would create.)
RefreshWorkers ==
  /\ mode # "down"
  /\ registered' = [r \in Repos |-> IF config[r] = "watched" THEN registered[r] ELSE None]
  /\ UNCHANGED <<task, envVars, mode, ended, workerVars, scanVars, histVars>>

\* The item behind a task is edited on the forge.
ItemEdited(t) ==
  /\ SetRow(t, EditedRow(task[t]))
  /\ fetched' = [w \in Workers |-> fetched[w] /\ holds[w] # t]
  /\ UNCHANGED <<envVars, procVars, serves, pc, holds, left, cliConfig, scanVars, histVars>>

Clock ==
  /\ task' = [t \in Tasks |-> Elapsed(task[t])]
  /\ UNCHANGED <<envVars, procVars, workerVars, scanVars, histVars>>

----------------------------------------------------------------------------
(* Life of the daemon process. *)

Busy(w) == pc[w] # "idle"

\* (mutant) Only the reconcile loop counts as work.
AnyWorkerBusyReconcile == reconciling

\* anyWorkerBusy sees the workers that are still in the map.
AnyWorkerBusy == reconciling \/ \E r \in Repos : registered[r] # None /\ Busy(registered[r])

Sigterm ==
  /\ mode = "up" /\ "sigterm" \in Endings
  /\ mode' = "stopping"
  /\ UNCHANGED <<task, envVars, ended, registered, workerVars, scanVars, histVars>>

\* The process is gone, and with it every promise and the worker map.
Gone(how) ==
  /\ mode' = "down" /\ ended' = how
  /\ registered' = [r \in Repos |-> None]
  /\ serves' = [w \in DaemonWorkers |-> None]
  /\ pc' = [w \in Workers |-> IF w \in CliWorkers THEN pc[w] ELSE "idle"]
  /\ holds' = [w \in Workers |-> IF w \in CliWorkers THEN holds[w] ELSE None]
  /\ fetched' = [w \in Workers |-> w \in CliWorkers /\ fetched[w]]
  /\ left' = [w \in Workers |-> IF w \in CliWorkers THEN left[w] ELSE 0]
  /\ reconciling' = FALSE
  /\ toPlan' = [toPlan EXCEPT ![Daemon] = {}]
  /\ toPoll' = [toPoll EXCEPT ![Daemon] = {}]
  /\ UNCHANGED <<envVars, cliConfig>>

ExitIdle ==
  /\ mode = "stopping" /\ ~AnyWorkerBusy
  /\ Gone("idle") /\ UNCHANGED <<task, histVars>>

ExitForced ==
  /\ mode = "stopping" /\ AnyWorkerBusy
  /\ Gone("forced") /\ UNCHANGED <<task, histVars>>

Killed ==
  /\ mode # "down" /\ "kill" \in Endings
  /\ Gone("killed") /\ UNCHANGED <<task, histVars>>

\* Killed between markDone (due in a second) and enqueueImmediate.
KilledBeforeEnqueue(w) ==
  /\ w \in DaemonWorkers /\ pc[w] = "lane" /\ "kill" \in Endings
  /\ SetRow(holds[w], MarkedDone(task[holds[w]], 0))
  /\ resumes' = [resumes EXCEPT ![holds[w]] = 0]
  /\ Gone("killed") /\ UNCHANGED <<asked, orphaned>>

\* startScheduler: recoverStuckTasks, then the timers.
Boot ==
  /\ mode = "down"
  /\ mode' = "up" /\ ended' = "none"
  /\ \E day \in Delays : task' = [t \in Tasks |-> RecoveredRow(task[t], day)]
  /\ resumes' = [t \in Tasks |->
       IF task[t].status # "running" THEN resumes[t]
       ELSE IF GivenUp(task[t].error) THEN 0 ELSE resumes[t] + 1]
  /\ orphaned' = FALSE
  /\ UNCHANGED <<envVars, registered, workerVars, scanVars, asked>>

----------------------------------------------------------------------------
RequestStep == \E t \in Tasks : Cancel(t) \/ \E p \in Priorities : Request(t, p)
DrainStep ==
  \E w \in Workers :
    \/ PullNothing(w) \/ PullPaused(w)
    \/ \E t \in Tasks : PullParked(w, t) \/ PullStart(w, t)
LaneStep == \E w \in Workers : LaneRecords(w) \/ LaneDone(w) \/ LaneReady(w) \/ LaneFailed(w)
ScanStep ==
  \E s \in Scanners :
    \/ \E t \in Tasks : \/ PlanTask(s, t) \/ NotListed(s, t) \/ NothingToPoll(s, t)
                        \/ \E p \in Priorities : PollPr(s, t, p)
    \/ \E r \in Repos : RepoFails(s, r)
CliStep == \E w \in CliWorkers : CliStart(w) \/ CliDrain(w) \/ CliDies(w)
EnvStep ==
  \/ TogglePause \/ RefreshWorkers \/ Clock
  \/ \E r \in Repos, c \in ConfigStates : Reload(r, c)
  \/ \E t \in Tasks : ItemEdited(t)
ProcessStep ==
  \/ Sigterm \/ ExitIdle \/ ExitForced \/ Killed \/ Boot
  \/ \E w \in DaemonWorkers : KilledBeforeEnqueue(w)

Next ==
  \/ RequestStep \/ ClearRateLimit
  \/ \E r \in Repos : TickDrain(r)
  \/ DrainStep \/ LaneStep
  \/ TickReconcile \/ ScanStep \/ EndReconcile
  \/ CliStep \/ EnvStep \/ ProcessStep

Spec == Init /\ [][Next]_vars

----------------------------------------------------------------------------
(* Fairness: systemd starts the service again, the timers fire, an awaited *)
(* call returns.  A lane on a task of Hanging may never return, and no     *)
(* fairness is assumed of requests, the command line or the operator.      *)

Fairness ==
  /\ WF_vars(Boot)
  /\ \A r \in Repos : WF_vars(TickDrain(r))
  /\ \A w \in DaemonWorkers :
       /\ WF_vars(PullNothing(w) \/ PullPaused(w) \/ \E t \in Tasks : PullStart(w, t))
       /\ WF_vars(holds[w] \notin Hanging /\ (LaneDone(w) \/ LaneReady(w) \/ LaneFailed(w)))

FairSpec == Spec /\ Fairness

----------------------------------------------------------------------------
(* Safety. *)

\* A row says "running" only while some worker processes the task: otherwise the
\* daemon is down and boot will recover it, or a CLI process died holding it.
RunningHeld ==
  \A t \in Tasks :
    task[t].status = "running" => Held(t) \/ mode = "down" \/ orphaned

\* Two workers never process the same task.
OneHolder ==
  \A v, w \in Workers : holds[v] # None /\ holds[v] = holds[w] => v = w

\* A repo never has two drains of the daemon at a time: its lanes share a clone.
OneDrainPerRepo ==
  \A v, w \in DaemonWorkers : Busy(v) /\ Busy(w) /\ serves[v] = serves[w] => v = w

\* Recovery puts a task back at most AbandonAfter times in a row.
ResumesBounded == \A t \in Tasks : resumes[t] <= AbandonAfter

\* When stop() reports the service idle, no task is left running.
IdleExitIsClean ==
  mode = "down" /\ ended = "idle" => \A t \in Tasks : task[t].status # "running"

\* A request that found the task idle is not lost: until a lane starts on the task
\* (or it is cancelled) the task stays queued, through pauses, crashes and reconciles.
IdleRequestKept == \A t \in Tasks : asked[t] = "idle" => task[t].status = "pending"

\* A task with a recorded decision that is done until later is started earlier only
\* on request, for a pull request of ours, or when a rate limit is cleared.
CadenceRespected ==
  [][\A t \in Tasks :
       /\ task[t].status = "done" /\ ~DueNow(task[t]) /\ task[t].snapshot # "none"
       /\ ~Held(t)
       /\ task'[t].status = "pending"
       => asked'[t] # "no" \/ RateLimited(task[t])]_vars

----------------------------------------------------------------------------
(* Liveness. *)

\* No task says "running" for ever: its lane returns, or the process dies and boot
\* recovers the task.
RunningEnds ==
  \A t \in Tasks \ Hanging :
    task[t].status = "running" ~> task[t].status # "running"

\* A lane that hangs in one repo does not hold up the others: once the daemon stays
\* up and unpaused, a request that found its task idle is served.
RequestServed ==
  <>[](mode = "up" /\ ~paused)
    => \A t \in Tasks \ Hanging : asked[t] = "idle" ~> asked[t] # "idle"

----------------------------------------------------------------------------
(* The abstract specification.  With one drain per repo a task has at most *)
(* one holder, and the scheduler implements TaskLease.                     *)

Mark(row) == CASE row.status = "pending" -> "queued"
               [] row.status = "running" -> "working"
               [] OTHER                  -> "out"

Holder(t) == IF Held(t) THEN CHOOSE w \in Workers : holds[w] = t ELSE None

Lease == INSTANCE TaskLease
           WITH mark  <- [t \in Tasks |-> Mark(task[t])],
                lease <- [t \in Tasks |-> Holder(t)]

\* Every step of the scheduler is a step of TaskLease or changes nothing it sees.
LeaseSpec == Lease!Spec
=============================================================================
