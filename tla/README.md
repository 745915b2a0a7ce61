# A verification project for openronin

openronin is a service that watches repositories on a forge, turns their issues and pull requests into
tasks, and lets language-model engines triage, analyse and patch them. It is one Node.js process on one SQLite
database, with a few timers, an HTTP server for webhooks and an admin page; a second service, the director, and a command
line open the same database. This directory holds TLA+ modules of the parts whose correctness is hard to test, the TLC
configurations that check them, and proofs of the theorems that matter most.

Paths such as `scheduler/index.ts:54` are relative to the repository's `src/`.

## 1. Inventory

| component | state it keeps | operations | what makes it correct |
|---|---|---|---|
| Scheduler loops (`scheduler/index.ts`) | map of worker objects, busy flags, `reconcileBusy`, `stopped` | drain tick, reconcile tick, worker statuses, stop, boot recovery | one drain per repo; a task is processed by one worker; a stop that says idle is idle; no task says running for ever |
| Queue (`scheduler/queue.ts`) | `tasks.status, priority, next_due_at, last_error` | enqueue, dequeue, markDone, markError, requeuePaused | what was asked for is not lost; order by priority and due time |
| Processing (`scheduler/worker.ts`) | none of its own | processOne, pickLane, drain, drainRepo | every way out of a lane leaves the row done, or pending for later |
| Reconcile (`scheduler/reconcile.ts`) | none of its own | planTask per listed item, poll of own pull requests, Jira listing | no item is looked at before its time unless something happened |
| Crash recovery (`scheduler/index.ts:54`, `storage/recovery.ts`) | stamps inside `last_error` | put back or give up running tasks, close orphaned runs and deploys | a crash loses no task; a task that kills the process is given up |
| Lanes (`lanes/*.ts`) | `pr_branches`, clones on disk, the forge | review, analyse, patch, patch multi, pull request dialog with auto-merge, conflict resolution, deploy | bounded iterations; a parked branch stays parked until something lifts it; a merge only when its gate is open |
| Supervisor (`supervisor/index.ts`) | `runs` | run an engine with cost caps, rate limits and a log | caps hold; a run row is closed whatever happens |
| Engines (`engines/*.ts`) | none | one call to a model; the multi-agent loop | timeouts and rate limits are told apart from errors |
| Providers (`providers/*.ts`) | the forge, the trackers | REST calls; a Telegram poller with an offset | external |
| Webhooks, admin pages, API, MCP (`server/*`, `mcp/*`) | `tasks`, `pr_branches`, `.PAUSE` | enqueue, cancel, retry, lift, deploy, pause | a request has its effect whatever the workers do at that moment |
| Command line (`cli/index.ts`) | its own copy of the configuration | `scheduler:tick` and one-off lanes | lives with a daemon on the same database |
| Configuration (`config/*`) | the loaded configuration | hot reload | what a worker captured and what is loaded may differ |
| Director loop (`director/index.ts`) | kill switch, follow-up times | for each repo: rollover, expiry, digest, follow-up, trust ramp, tick | ticks keep their cadence and do not overlap |
| Director lock (`director/active-tick.ts`) | one row per repo with a time to live | acquire, release | at most one tick at a time |
| Director tick, decisions, approval (`tick.ts`, `decisions.ts`, `dedup.ts`, `executor.ts`) | `director_decisions` | propose, record, execute or wait for approval, approve, reject, expire | a decision is executed at most once, and only when it may be |
| Director budget (`budget.ts`) | spend of the day and the week, failure streak, pause | spend, rollover, gate | no tick above the cap; a streak of failures pauses |
| Director's other memories (`digest.ts`, `trust-ramp.ts`, `retrospective.ts`, `outcome-followup.ts`, `chat.ts`, `charter.ts`, `notes.ts`) | messages, versions | append, summarise | posted once per period |
| Storage (`storage/*.ts`) | the tables | typed statements | rows are what the others expect |
| User interface, prompts, benches | none | render | not modelled |

How they interact. The daemon has one JavaScript thread: code between two `await`s is atomic with respect to every
other handler of the process, and everything else interleaves. The components meet in the database: webhooks and pages
write rows that the loops read, the reconcile loop and the drain workers write the same rows, and a second process
(the command line) may do so too. The worker map and the busy flags live in memory and die with the process; the table
survives. The director is a service of its own, with the Telegram bridge in it, on the same database: its ticks and
the approvals of the admin pages, which run in the main service, meet only in the rows of `director_decisions`.

What is hard: a lane takes minutes, so requests, cancels, edits of the item, configuration reloads and signals all
happen while a lane is at work, and its last statement rewrites the row they wrote. Crashes come between any two
statements. The decisions of the director are checked before a call to the forge and written after it. Recovery keeps
its memory in a text column that others overwrite. The list of hazards, each at its line, is in `PROJECT.json`.

## 2. Plan

What is modelled, in the order in which it was written, and what composes what:

1. `TaskRow`, `Scheduler`, `TaskLease`: the task table and the loops on it, and the abstract lease they implement.
2. `Decisions`: the decisions of the director from proposal to execution, with approval, rejection, expiry, crashes,
   duplicates.
3. `PrBranch` and on it `PrDialog` (a pull request from its first comment to its merge) and `PatchLanes` (an issue on
   its way to a pull request).
4. `DirectorLoop`: the loop of the director with lock, budget, digest, chat and slash commands; `Telegram`: the bridge
   that carries the chat.
5. `Supervisor`: what calls of models cost, the rows of runs and deploys, engines, timeouts, deploys.
6. `Intake`: the ways work reaches the task table. `Schema` and on it `RepoConfig`: migrations, configuration files and
   what each process knows of them.

7. `DecisionLife`: the abstract life of a decision, which `Decisions` implements.

What is left: an abstract specification of the director's lock. Of the code: the director's follow-up sweep and
retrospective, the age buckets of `scheduler/cadence.ts`, the REST calls of the providers beyond what the lanes tell apart.

## 3. Modules

**`TaskRow`** is one row of the table `tasks` and the statements that rewrite it, each an operator from the row before
to the row after. `next_due_at` is kept relative to the clock (`None` for NULL, the time left otherwise), so the wall
clock is an action that counts due times down and states stay finite. `last_error` keeps what the code tests in it:
the kind of message, the number of recovery stamps behind it, and whether recovery gave the task up. A stamp behind a
message that fills the column is cut (`Stamped`). The stored `snapshot_hash` is only ever compared with the item's
current one, so it is `none`, `current` or `old`.

**`Scheduler`** is the daemon, the command line and their environment. Its state and where it lives in the code:

| variable | code |
|---|---|
| `task` | the table `tasks` |
| `config`, `cliConfig` | the loaded configuration of the daemon and of each command-line process |
| `paused` | the file `.PAUSE` |
| `mode`, `ended` | life of the process: `startScheduler`, `stop`, `process.exit` |
| `registered`, `serves` | `workersByKey` and the repo of each worker object |
| `pc`, `holds`, `left` | where the promise of a drain is: pulling, or awaiting a lane on a task; iterations left |
| `fetched` | whether the item the lane read is still the current one |
| `reconciling`, `toPlan`, `toPoll` | `reconcileBusy` and what the running scan has still to visit |
| `asked`, `resumes`, `orphaned` | history variables, read by properties only |

Actions: `Request`, `Cancel`, `ClearRateLimit` (HTTP); `TickDrain` with `EnsureWorker`, then `PullNothing`,
`PullPaused`, `PullParked`, `PullStart` (one `processOne` up to its first await); `LaneRecords`, `LaneDone`,
`LaneReady`, `LaneFailed` (what the lanes leave in the row); `TickReconcile`, `PlanTask`, `NotListed`, `PollPr`,
`NothingToPoll`, `RepoFails`, `EndReconcile`; `CliStart`, `CliDrain`, `CliDies`; `TogglePause`, `Reload`,
`RefreshWorkers`, `ItemEdited`, `Clock`; `Sigterm`, `ExitIdle`, `ExitForced`, `Killed`, `KilledBeforeEnqueue`, `Boot`.

Steps are the turns of the event loop. A drain tick over several repos is one turn in the code and one step per repo
and per dequeue here: these touch different repos, and the finer interleaving only adds behaviours. `markDone`
followed by `enqueueImmediate` is one turn (`LaneReady`); a crash between the two statements is `KilledBeforeEnqueue`.
Dequeue's select and update are one step, which is true inside the daemon (no await between them).

**`TaskLease`** is the abstract specification: tasks are queued, leased to one worker at a time, withdrawn; a crash
ends all leases; a recovery that no lease survives queues or withdraws what was being worked on. `Scheduler`
implements it under the mapping `Lease` (a status becomes a mark, the worker holding the task its lease) as long as no
configuration reload and no command line is in play.

**`Decisions`** is what happens to the decisions of the director on one repo. Two processes share their table: the
director service (its loop, and the Telegram bridge) and the main service (the admin pages).

| variable | code |
|---|---|
| `row`, `last` | the table `director_decisions` and its last id; `draft` is the payload as recorded, which is what `payload_hash` is computed from, `payload` what `payload_json` holds after edits |
| `config` | the director's configuration: mode and authority flags |
| `phase` | where `loopOnce` is: idle, in a round, in the engine's call of a tick, in the tick's loop over its decisions |
| `under` | the configuration an executor was started with (`target.director`, the route's `repo.director`) |
| `queue`, `edit` | what the tick's loop, a request or approve-all has still to take up; the overrides of an approval |
| `run` | an executor inside `runDecision`: decision, payload, call, attempt, and whether the forge has already done the call |
| `landed`, `did`, `consent` | history variables, read by properties only |

An executor is the tick, an admin request, or the bridge, which serves one command at a time. Actions: `BeginRound`
(expiry), `BeginTick`, `NoDecision`, `RecordNext`, `MarkTwin`, `BeginActing`, `ExecuteNext`, `EndTick` for the
director's loop; `Lands`,
`Answered`, `Retry`, `GiveUp` for the calls of `runDecision`, whoever makes them; `Request`, `RequestAll`,
`ApproveNext`, `Reject` for the operators; `Age`, `Reconfigure`, `MainDies`, `DirectorDies` for the environment. A
step is what runs between two awaits: `ApproveNext` is `approveDecision` up to its first call, `ExecuteNext` is
`executeDecision` up to it. The tick records in one turn, but statement by statement and in no transaction: a duplicate
is inserted as pending and then marked, and the director may die, or the other process read, between any two
(`RecordNext`, `MarkTwin`). The forge acts (`Lands`) before its answer arrives (`Answered`), and an error may arrive
instead, honest or not. One `config` stands for both processes' copies. The digest and the follow-up sweep, between
`BeginRound` and `BeginTick`, decide nothing and are left out; so are chat messages, but for `posted`: an operator who
acts through the chat sees only proposals that were posted there.

**`DecisionLife`** is the abstract specification of that table: a decision that waits is refused before the forge was ever
asked, or the forge is asked for its calls, each of them once; it is called executed when all are done, it may fail or
expire on the way, and what is said then stays. It knows no tick, operator, process or retry. `Decisions` implements it
(`LifeSpec`) under the mapping at its end: `OutcomeOf` is the column `outcome`, `CallsOf` what `runDecision` has to ask for
by the decision's type, `DoneFor` what the forge has done (`landed`); section 4 says in which circumstances.

**`PrBranch`** is the table `pr_branches` and the statements on it, as operators from a table to a table. `updated_at` is
compared with the time of comments only, so a row keeps how many comments there were when it was last written (`seen`).

**`PrDialog`** is one request that the service opened: `runPrDialog`, the merge gate, `resolveConflicts` and the git
calls under it, and around them the reviewers, the base branch, the checks, the poll of the reconcile loop, crashes.
The lane is the sequence of its awaits (`pc`): `Wake` (row and limit), `ReadFeedback` and `NothingNew`, the agent's
endings (`AgentCommits`, `AgentDeclines`, `AgentDirty`, `LaneFails`), `Push`, `RefetchLease` and `ForcePush` (the ways of
`pushBranchWithToken`), `RecordPush`; then the gate: `ReadRequest`, `CheckThreads`, `CheckCi`, `Merge`; and the
resolution: `SyncToRemote`, `StartRebase`, `ResolveBatch`, `PushRebased`, `RecordRebase`. The
clone, the lease and the head of the forge are kept apart, since each may be older than the next. Comments are numbered,
commits of humans are a set in each head; whether a head is green is what its checks say when they are read, with
`no_checks` for "none registered yet", "no workflows" and "the call failed", as in the code.

**`PatchLanes`** is one issue and the worker on it: `pickLane`'s route (`Start`), the analyst's turns (`ReadReplies`,
`Verdict`, `Ask`, `Ready`), triage, the two patch lanes (`Worktrees`, `AgentLeaves`, `Parks`, `Commits`, `CreatePull`,
`RecordPull`, `ClearLabels`), `planTask`, the poll, the comment webhook that lifts parks (`Hook`), `RetryButton`. Every
way an awaited call can fail is a disjunct of the turn it ends. Replies are numbered; the analyst's verdict keeps how
many there were when it asked, unless it asked nothing: then `asked_at` is not stored, and every comment there ever was
counts as a reply. A listing of the comments that throws is swallowed (`ListingFails`). `park` remembers what the last
patch run ended with until a human does something about it; it is what `ParkHolds` speaks of, not the row.

**`DirectorLoop`** is any number of directors on the rows of one repo (`lock`, `budget`, and of the chat whether it ends
with a message of the user): `BeginRound`, `ClaimDigest`, `EndDigest`, `StartTick`, `TickRefused`, `NoEngine`,
`CallFails`, `AnswerInvalid`, `Answered`, `TickEnds`; slash commands and the buttons of the admin pages; both midnights
(the budget's day is UTC, the digest's local), the cadence, the backoff; a lock that outlives its time, crashes. Days
are kept relative: a column says whether it is today.

**`Telegram`** has two loops on one bridge: getUpdates with its offset, the handling of one update (a directive, a
command, an approval that awaits a call), the reply, the error reply; and the mirror with its cursor, page by page.
Telegram's side is external: it keeps what has not been confirmed, and repeats it. The chat page of the main service
writes the same switch (`PageCommand`), also while the bridge is down; `pageWord` and `undone` remember, for the property,
whether the page has spoken last and whether a repeated update has gone over it.

**`Supervisor`** is slots (workers of the daemon, command-line processes) that run models: `StartRun` with the daily cap
and the choice of an engine, the calls of each engine with retries, timeouts, SIGTERM and SIGKILL, the coder and
reviewer rounds, the row at the end, log writes that fail; deploys, whose `spawnSync` stops every slot of the daemon;
crashes and the recovery at boot. The child process of a command-line agent is a state of its own: it works, has been
told to stop, or is dead with its pipes held by what it started (`child`).

**`Intake`** has the receivers of the four webhooks as one action with the filters of each (`Webhook`), the search of
Jira page by page while tickets move, the operator's buttons, and the poller of Telegram with its batch. The repo may be
hidden, which every receiver and the search ask for, or not watched, which the search and the poller ask for.

**`Schema`** has the database's schema, what every migration adds to it and when one fails. The databases that are about
are `HistoricDatabases`: of every release, half-applied by the rollout of 14 and 15, and with 19 recorded before there
was an 18; `found` remembers which one it was. **`RepoConfig`** has two processes that start, load, migrate, sync and
reload when a debounced watcher fires; the file, which may be torn; the row; and everyone who writes either: the pages,
the command line, the purge that waits for the forge, the reconcile round.

The modules meet where their state does. `PrDialog`, `PatchLanes` and `Scheduler` share the task row: the scheduler's
`OneHolder` is why the others have one lane at a time, and the others' endings are the choices `LaneDone`, `LaneReady`,
`LaneFailed` of the scheduler. `Decisions` takes up where `DirectorLoop` has a tick that answered, and `DirectorLoop`
sees of `Decisions` a tick that executes. `Telegram`'s updates become `DirectorLoop`'s messages and `Decisions`'s
approvals.

**`MCScheduler`**, **`MCDecisions`**, **`MCSupervisor`**, **`MCIntake`**, **`MCRepoConfig`** give small instances; the other
modules need none. The proofs about a module `M` are in `MProofs` (**`SchedulerProofs`**, **`DecisionsProofs`**,
**`DirectorProofs`**, **`PrDialogProofs`**, **`PatchLanesProofs`**, **`TelegramProofs`**, **`SupervisorProofs`**,
**`IntakeProofs`**). Operators marked `(mutant)` are plausible mistakes in the definition that follows
them; no action uses them. They exist so that each property can be seen to fail.

## 4. Runs

| run | instance | shows |
|---|---|---|
| `one` | one repo, one task that is listed, requestable, cancellable and a pull request of ours; two worker objects, batches of two, two delays, SIGTERM and kill, with fairness | `RunningHeld`, `ResumesBounded`, `IdleExitIsClean`, `CadenceRespected`, refinement of `TaskLease`, `RunningEnds` |
| `live` | two repos with a task each, drained in parallel; the lane of task 1 may hang; with fairness | `OneHolder`, `RequestServed` |
| `cli` | one repo that may be hidden, a daemon and a `scheduler:tick` process | `IdleRequestKept` |
| `mandate` | one decision; an admin request, the bridge and the tick; three configurations; every fault; both processes die; with fairness | `Mandate`, `ExecutedLanded`, `Settles` |
| `careful` | two decisions, one operator who acts on posted proposals and may edit them, honest errors, four configurations; the director may die, in the midst of recording too | `RunsOnce`, `AuditTrail`, `OneLive`, refinement of `DecisionLife` |
| `dialog` | one request with every option of the merge gate on; two comments, a human's push, a move of the base, a crash; reads that fail; with fairness | `AttemptsBounded`, `IdleFeedbackKept`, `RebaseKeepsHumans`, `RebasedIsGreen`, `ClosedIsRecorded`, `GreenMerges` |
| `patch` | one issue, either patch lane, analyst and triage; two titles, a reply, a request, a crash; with fairness | `PullsWatched`, `ParkHolds`, `AsksOnce`, `OneAtATime`, `AnswersAreHeard` |
| `director` | two directors of one repo; ticks, digests, commands, both midnights, a crash or an overrun; with fairness | `OneTick`, `TickSpendBounded`, `FailuresStop`, `TicksGoOn` |
| `telegram` | two chats, two updates of any kind, commands of the chat page, three messages in pages of two, a crash | `NothingLost`, `MirrorInOrder`, `LastWordHolds` |
| `ledger` | one worker and one command line, all engines, one deploy, two days, a crash; with fairness | `DayBounded`, `SlotsComeFree` |
| `intake` | two tickets, an item of GitHub, GitLab and Todoist, two Telegram messages; three changes and a failure; with fairness | `NothingForgotten`, `TicketsTaken` |
| `repos` | two processes, two databases to start from (version 6 without deploys, half-applied at 14), three events of operators or crashes; with fairness | `SchemaSound`, `Converges` |

### The properties in words

*Tasks.* `RunningHeld`: a row says running only while a worker processes the task, or the daemon is down, or a command
line died holding it. `IdleRequestKept`: somebody asked for a task no worker held; until a lane starts on it or it is
cancelled it stays pending, through pauses, parkings, crashes and reconciles. `ResumesBounded`: recovery puts a task
back at most three times in a row. `CadenceRespected`: a task that was decided and is done until later becomes pending
early only by a request, by the poll of its pull request, or because a rate limit was cleared. `IdleExitIsClean`: a stop
that reports idle leaves no row running. `OneHolder`: exclusion. `LeaseSpec`: the scheduler implements `TaskLease`.
`RunningEnds` and `RequestServed`: liveness.

*Decisions.* `Mandate`: the forge acts on a decision only if some configuration the operator may set grants the type,
and somebody approved it or the mode lets the tick act. `ExecutedLanded`: a row that says executed had every one of its
calls done. `RunsOnce`: no call of a decision is done twice. `AuditTrail`: the payload kept in an executed row is one
that was executed. `OneLive`: within seven days no two decisions with the same hash are pending or executed, except that
the later one may be a row the tick has not yet called a duplicate, or never will because it died; such a row is never
posted nor done. `LifeSpec`: the decisions implement `DecisionLife`; what was refused never reached the forge, and an
outcome other than pending and expired is never rewritten. `Settles`: no decision stays pending for ever, or comes back
to it.

`RunsOnce`, `AuditTrail`, `OneLive` and `LifeSpec` hold only under care, which the constants of `careful` state: nobody
acts on a decision while somebody else does, or before the running tick has come to it; an error means that the forge
did not act; a decision is one call; the process that carries an approval out does not die. The director may: what its
tick had begun stays pending and was never posted, so that nobody takes it up again before it expires. Each is needed:
two operators break three of them (of two overlapping approvals with different edits the one that stored last may be the
one that failed), an operator who acts from a list on a decision that the tick has still in its batch breaks `OneLive`
too, since the tick executes what it recorded without reading the row again. A call that times out after the forge acted
is made again, and so is the first of two calls when the second one fails: `withTransientRetry` repeats the whole of
`runDecision`.

*Requests.* `AttemptsBounded`: conflicts engage the agent at most so often per row, however often the base moves.
`IdleFeedbackKept`: a comment written while no lane worked goes through an agent run before a lane's write makes it look
old. `RebaseKeepsHumans`: the forced push after a rebase overwrites no commit of a human. `RebasedIsGreen`: what was
merged by the call that rebased it had its own checks, and they were green. `ClosedIsRecorded`: every row of a request
that ended says so in the end. `GreenMerges`: a request nothing stands in the way of is merged.

*Issues.* `ParkHolds`: no lane goes to work on an issue parked for a human. `AsksOnce`: questions are asked again only
after an answer, or when the label that stands for them is missing, or when there was no question in the last verdict and
somebody has ever commented. `AnswersAreHeard`: an answer gets into a prompt, unless a new verdict comes that was found
without it, by an analyst who was already at work or, with the label missing, could not list the comments.
`PullsWatched`: a request the service opened stays in its table. `OneAtATime`: no agent while a request of the issue is
open that the service knows. The exceptions they name (`orphans`, `released`) are crashes between the creation and its
record, and requests whose row was cancelled as blocked.

*Director.* `OneTick`: one tick or digest at a time over all processes. `TickSpendBounded`: the ticks of a day cost at
most the cap and one call more. `FailuresStop`: no more than the limit of ticks fail in a row. All three hold while no
tick outlives its lock (five minutes). `TicksGoOn`: while there is a reason and the gate is open, the lock is taken
again and again. *Telegram.* `NothingLost`: Telegram forgets only what was acted upon. `MirrorInOrder`: what a chat is
shown is in order and nothing twice. `LastWordHolds`: when all is confirmed the last `/pause` or `/resume` of chat and
page holds; only the page's may be undone, by an update that is repeated after a crash.

*Supervisor.* `DayBounded`: what a day's runs are recorded to cost exceeds the cap by at most what the slots had under
way. `SlotsComeFree`: a slot comes free although a model never answers and an agent ignores SIGTERM; what a killed agent
has started may keep it, as long as it holds the agent's pipes. *Intake.* `TicketsTaken`: a ticket that stays
open becomes a task without any webhook. `NothingForgotten`: a message is served again until it was handled or dropped
with its batch; whoever was told that a task was accepted has a row. *Configuration.* `SchemaSound`: any process that
starts on a database of any release gets the whole schema, wherever the last one died; without 18 it stays without; on a
half-applied one no process gets through. `Converges`: once the files are left alone both processes and
the row follow them, the exceptions named in the module apart.

### Types

`TypeOK` of a module says what its variables range over. All seven are proved (section 6), so that the runs list only what
could go wrong in the code. `Intake` and `RepoConfig` have none: the types of `Intake` are part of its proof (`Typed`).

### Bounds

In `Scheduler`, due times are the cadence (1) and the delays (1 and 2 units): relative due times need only be far enough
apart for one to be due while another is not. A batch of two lets a drain pull again after a lane, which is where
stale loops show. Two worker objects are enough for the second worker of a repo. Stamps reach the give-up bound (3)
and one more recovery. `resumes` is not bounded by a guard: `ResumesBounded` is what bounds it. There is no state
constraint anywhere.

In `Decisions`, `MaxRows` bounds what is recorded (two decisions are enough for a duplicate, in one batch or across
ticks; `mandate` speaks of single decisions and uses one), which bounds a tick's batch, too; `Retries` is 1 of three
delays. A call landing twice or more often is one value of `landed`. Payloads are chosen for their number of calls,
their gates and their hashes.

In `PrDialog`, limits of one are reached and refused at once; two comments tell a new one from an old one. `MaxEvents` (2)
bounds how many of a push, a move of the base, a comment and a crash happen together; with three, the safety properties
were explored once as well (890 000 states) and hold. In `PatchLanes`, two titles give two branches, `MaxPulls` 1 and a
round more let a second request be tried. In `DirectorLoop`, `MaxMishaps` counts crashes and overruns; commands, messages,
midnights and failures are not bounded (the streak and the spend are, by what is checked). The command `/status`, which
creates the row, is in the model but not in the run: `/pause` and the loop create or miss it in the same ways. In
`Telegram`, two updates show order and repetition, three messages in pages of two show the second page. In `Supervisor`,
`MaxRuns` (3) lets a day be filled, overrun by the other slot, and begun anew after midnight. In `Intake`, a page of one
while two were asked for shows the short page; `MaxChanges` covers a ticket that opens and two that move it. In
`RepoConfig`, three events are an edit, a crash or a forced sync, and another edit; every other database that is about
is checked by the assumption `EveryDatabaseMigrates` of `MCRepoConfig`.

### Fairness

`FairSpec` of `Scheduler` (runs `one`, `live`): systemd restarts the service (`Boot`); `setInterval` keeps firing
(`TickDrain`); an awaited call returns and the loop goes on (`PullNothing` … , `LaneDone` …), except for lanes of
tasks in `Hanging`. Nothing is assumed of requests, the operator, the reconcile loop, the clock or the command line.
`RequestServed` holds only from when the daemon stays up and unpaused.

`FairSpec` of `Decisions` (`mandate`): weak fairness only. systemd restarts the director, whose loop never stops going
round, the engine's call returns or times out, what it recorded is taken up, calls to the forge end, time passes. The
director is not disabled in that run. Nothing is assumed of operators or of what is proposed.

`PrDialog`: the reconcile loop polls every row, a lane goes on (each await has a timeout), and a call of the gate that is
repeated for ever does not fail for ever (strong fairness on its success). Nothing is assumed of reviewers, checks or the
base. `PatchLanes`: the issue comes due again and again (its cadence), a lane goes on, the listing of comments does not
fail for ever. `DirectorLoop`: the ten-second timer and the timeouts of its calls; a lock's time passes. `Supervisor`: the
timers of `fetch` and of agents fire, SIGKILL kills, systemd restarts; no model has to answer. That the pipes of a killed
agent are closed is not assumed: processes it has started may hold them, and the property names that. It does assume that a
deploy command ends at SIGTERM: `spawnSync` blocks the process until the command is gone and sends nothing stronger, so
without it nothing could be promised. `Intake`: the reconcile loop comes round and its search goes on, while searches
fail finitely often. `RepoConfig`: systemd starts processes, timers of watchers fire, synchronous code ends.

## 5. Divergences

Where the model showed that the code and a statement of the repository part, or that the code can do what nobody would
want. None of them is a run: the properties above are stated so that they hold, and name what they except.

Scheduler and tasks:

* A repo that leaves the configuration while its worker is busy and returns gets a second worker: `workerStatuses` drops
  the first one from the map although it is at work (`scheduler/index.ts:46`: "serialize their own work to avoid overlap").
* "Auto-abandons after 3 consecutive recoveries" (`README.md:134`) fails when the error message fills the 1024 characters
  that recovery keeps: the stamp it appends is cut, and never counted.
* "Stop the loop - abandon it with a far-future next_due_at" (`scheduler/index.ts:58`): an abandoned task no lane ever
  decided has no snapshot, so the next reconcile enqueues it as new (`reconcile.ts:223`).
* The admin page answers "enqueued with high priority" (`admin.ts:389`) also while the task's lane runs; the lane's end
  overwrites the request.
* A recovered task is not resumed (`README.md:134`) but postponed when boot reconciles before it drains.
* The poll of a stale issue row enqueues for ever; only the 200 newest branch rows are polled (`reconcile.ts:62`).
* The TTL of 24 hours for infrastructure parks (`worker.ts:24`) is not implemented.

Decisions:

* "VCS call must run only once" (`test/director-approval.test.mjs:264`) is tested with one approval after the other. The
  row is checked before the call and written after it: two approvals that overlap both pass.
* A veto cancels a pending decision (`docs/DIRECTOR.md:140`); a rejection during the call of an approval is answered with
  success, and overwritten with executed.
* "If yes → outcome is recorded as 'skipped'" (`dedup.ts:13`): not at once. A duplicate is inserted as pending and
  marked skipped by a second statement (`tick.ts:449`): a director that dies between leaves a twin that was never
  posted, blocks new proposals of the same payload until it expires, and may be approved from the page's list beside the
  first one.
* The stored payload is not always what was executed (`docs/DIRECTOR.md:158`); `payload_hash` stays the draft's after an
  edit; the header of `executor.ts` (10-20) shows gated types as proposals, `authorityFor` skips them; the comment at
  `executor.ts:384` lets operators approve a failed decision again, `approveDecision` takes pending ones only.

Lanes:

* "no force needed - we only added commits" (`pr-dialog.ts:352`): after a rejected push `pushBranchWithToken` fetches and
  forces with the lease just fetched, which overwrites what a human pushed meanwhile.
* "These are terminal" (`docs/LANES.md:95`) is said of `error` and `dirty` too; the poll and a comment lift them. An
  error park and the webhooks of the service's own labels make a loop of patch runs (`webhooks.ts:150`).
* A rebased head is not always tested before the merge (`docs/LANES.md:168`): without checks that have registered, and
  after a read of the checks that failed, it counts as a repo without checks. A comment written during the merge call
  is not heard (`README.md:35`).
* A green request is not merged at the iteration limit (`pr-dialog.ts:123`), nor once its newest row is parked.
* A blocked row of an open request is cancelled by `planTask`; a new patch then fails at the creation (422) and the row
  loses its number. A dirty outcome of the dialog is a row of the request's own task: the iterations begin anew
  (`pr-dialog.ts:254`). A comment is skipped when `planTask`'s cancel touched the row after it.
* A title that goes from A to B and back to A hides a park. A reply during the analyst's run is not read by it; the
  patch prompt lacks replies after ready; comments and threads beyond the first 100 are not seen.
* `asked_at` is stored only with questions (`analyze.ts:255`, the schema's default is none, `:19`). After a verdict that
  wants a clarification without a question every comment ever written is a new reply (`:168`), against "do NOT re-run
  the analyzer" (`:151`): the analyst is asked again at every wake-up, and posts again.
* A listing of the comments that throws is swallowed (`analyze.ts:77`): with the label missing the analyst works without
  comments, and its verdict supersedes a reply that nobody has read.
* The comment with the questions may fail while the label is set: the service waits for an answer to questions nobody
  saw (`analyze.ts:262`).

Director:

* `recordProjectSpend` is never called (`docs/DIRECTOR.md:105`); the week's spend has no rollover (`budget.ts:69`).
* The streak is reset by a successful tick only, and the gate refuses the tick: `/resume` clears only `paused`, so a
  stopped director stays stopped (`docs/DIRECTOR.md:109`). A refused gate writes "tick skipped" every ten seconds.
* The digest, the trust ramp and a status post swallow a message the user wrote meanwhile (`index.ts:115`).
* `/pause` and `/tick` before the row exists do nothing. `/digest` runs without the lock. Digests are not gated.
* A tick that outlived its lock deletes that of the next one (`releaseTick`). Spend before the first rollover is zeroed
  by it. A throw before the model's call records nothing and repeats every ten seconds.
* `/pause` and `/resume` of the chat page (`slash-commands.ts:134`) are undone when the bridge crashes before it has
  confirmed an earlier command of Telegram: the command is repeated over the later word.
* The mirror skips sends that failed and messages written while the bridge is down. Follow-up candidates without an
  issue number keep one of the five slots for ever. The retrospective is evaluated every loop until a cap changes.

Supervisor, intake, configuration:

* The "24h" of the cap is a day UTC (`supervisor/index.ts:80`). Runs that failed or timed out, or whose log could not be
  written, record no cost; a multi-agent run that fails loses that of its earlier rounds.
* `spawnSync` blocks the daemon: the webhook answers after the deploy, and `trackActivity` (`webhooks.ts:111`) never sees
  it in flight. Boot marks a command line's live run as failed. A log write that fails twice leaves the run "running". A
  killed agent's `close` waits for its grandchildren's pipes (`claude-code.ts:255`): the timeout that is to end the run
  does not, and the slot stays taken as long as they live. At 22:00 UTC "resets 12am
  (Europe/Moscow)" is read as an hour ago, and only the configured cooldown is waited.
* Tasks of trackers and GitLab are looked up on GitHub (`docs/PROVIDERS.md:3`); GitLab's issue events are not handled and
  its notes lift no parks; Todoist and GitLab have no reconcile to make up for a lost webhook; an update right after the
  creation demotes a Jira task to normal.
* Telegram's poller tells the user that the task could not be created when only the acknowledgment failed, and loses the
  rest of the batch. It filters by `watched`, not by `hidden`.
* "scheduler will skip it until resumed" (`admin.ts:1940`): only the director honours the row's `watched`, and any reload
  resets it. "before the response returns" (`admin.ts:1157`) is not true of what the processes have in memory. Hiding
  overwrites edits of the file made since the last reload. A purge deletes a repo restored while it awaited the forge; a
  reconcile round creates the row of a purged repo again; after purge and re-add the worker map keeps the old id.
* A file edited between the load and the watch at boot is missed. `POST /settings` accepts YAML that fails the schema,
  which stops every later reload and the next boot. Version 18 is skipped for ever on a database that recorded 19 first
  (`db.ts:446`): its decisions have no trace columns, and recording one fails. A database that the rollout of 14 or 15 left
  half-applied (`db.ts:25`) throws at every start; the transaction prevents new ones and repairs none ("The next startup
  retries from a known-good state", `db.ts:23`).

## 6. Proofs

All theorems are about `Spec`, for arbitrary values of the constants, under the assumptions that each module names
(`SchedulerConstants`, `DecisionConstants`, ...) and TLC evaluates in every run. A theorem that needs more says so in
its statement. Every safety property of the runs, the two refinements included, is proved, and every `TypeOK`. Where the
property alone is not inductive, what was added is this.

**`SchedulerProofs`**

* `TypeCorrect`: with `HoldsInLane`, a worker holds a task exactly while its drain is inside a lane. Without it the ends
  of lanes cannot be typed.
* `RunningIsHeld` is inductive above the types. `IdleRequestIsKept` needs `WaitsAlone`: a task whose request found it
  idle is held by nobody, so no lane's end can overwrite it. `ResumesAreBounded` needs `StampsCount`: the row's stamps
  are at least the recoveries counted; it assumes that no error message fills the column (`"long" \notin ErrorTexts`),
  without which it fails (section 5).
* `CadenceIsRespected` goes through the ways a row leaves `done` one by one: a dequeue takes only what is queued and due,
  `planTask` leaves a task with a decision as it is until then, and what remains are the exceptions of the property.
* `HoldersAreUnique`, `DrainsAreUnique`, `IdleExitsAreClean` and `ImplementsLease` are under `SteadyConstants` (no command
  line; a reload changes no repo). The inductive invariant `Steady` says that a busy worker is the registered one of its
  repo and holds a task of that repo; section 5 says what a reload does to it. `ImplementsLease` maps every step to a step
  of `TaskLease` or a stutter.

**`DecisionsProofs`**

* `TypeCorrect`, `ExecutedIsDone` and `MandateHolds` hold for any payloads, configurations, operators, faults and crashes.
  `Typed` adds to the types that a run is on a recorded row and its payload has the row's type (`RunFits`), that an edit
  has the type of the decision it is for (`EditFits`), that an executor at work has a configuration (`UnderFits`).
  `ExecutedLanded` needs `LandedSoFar`: the calls before the present one have landed, for every attempt, since a retry
  goes back to the first call. `Mandate` needs `AllowedRuns`: a run was let through by some configuration the operator
  may set, which is remembered although the configuration has changed since.
* `ForgeCalledOnce`, `AuditTrailHolds`, `ImplementsLife` and `NoTwins` hold under `Careful`, the circumstances of the
  run `careful` for any number of decisions, payloads and retries: at most one operator, who acts on what was posted; no
  call whose answer is lost; a main process that does not die, and a director that may where there is no bridge in it;
  and where errors are retried, decisions of at most one call. Section 4 says why each is needed. What makes them
  inductive is `Alone`: what the tick has still before it is pending, not posted and unedited (`TickAlone`), and what an
  operator has before him was posted (`OperatorAlone`), so that no two ever have the same decision and a row is at the
  end of a call as it was at the beginning; a call that an execution has not come to was not made before (`FirstTime`);
  and what nobody is at work on and is pending, the forge has not seen (`PendingUntouched`). The assumption
  `NoneIsNoRun` keeps the value that stands for "no run" from being one.
* `NoTwins` needs what the second of two statements leaves open: while a duplicate waits to be marked, nobody has it
  before them (`TwinAlone`), and a row that is pending, not posted and before nobody stays so until it is marked or
  expires.
* `ImplementsLife` maps every step to a step of `DecisionLife` or a stutter. Two facts carry it over the await: an executor
  at its call number k has had exactly the k - 1 calls before it done, and its own if the forge was first (`DoneSoFar`,
  from `LandedSoFar`, `FirstTime` and `RunsOnce`); and what nobody has acted on the forge has done nothing for. So the
  executor that says "executed" has every call done, and one that refuses has none.

**`DirectorProofs`**: `OneTickAtATime`, `SpendIsBounded` and `FailuresAreBounded`, for any number of directors, any cap,
cost of a call, limit, words, engines and number of mishaps. The inductive invariant has five parts. `Holder`: while
nothing has outlived its lock, a director at a tick or a digest is the one the lock names. `RowThere`: whoever is past the
beginning of a round has the budget row. `Recorded`: what the ticks of today cost is in the row's day spend, which may
have digests besides; a row not yet rolled over belongs to a day without ticks; and a tick of today that waits for its
call began below the cap, which is where the gate's check and the spend are tied together over the await. `Counted`: the
failures in a row are the row's streak, below the limit while a tick is at work. The types are the fifth; `TypeCorrect`
is theirs.

**`EveryStartMigrates`** is at the end of the same module, about `RepoConfig` (an `INSTANCE` named `Setup`, under its
`RepoConfigConstants`): `SchemaSound`, for any files, events and databases to start from. It is inductive, since nothing
but a whole migration changes the schema, and its three kinds of databases stay what they are: one of a release takes
all that is due (`ReleasedMigrate`), one with 19 and without 18 gets all but 18 (`SkippedMigrate`), and on a
half-applied one every start throws (`HalfAppliedThrows`). The first is a statement about twenty-one versions, and it
rests on two about pairs of them: no two add the same table or column, but for the deploys table of versions 4 and 9
(`Apart`), and the second makes it only where it is missing; and what a version adds belongs to a table that it makes or
that one applied before it has made (`Based`), in the order in which they are applied, which is not that of their
numbers (section 5).

**`PrDialogProofs`**

* `TypeCorrect`: the table of a request has the row of the issue and at most one under the request's own task, neither of
  which has seen a comment that is not written yet.
* `RebasesKeepHumans` needs `LeaseFits`: as long as the head is the one that the lease names, the clone has every commit of
  a human that the head has. The push succeeds only at that head.
* `RebasedRequestsAreGreen` needs `CheckedHead`: after a rebase the gate reads the checks of the rebased head, unless a
  human pushed since, and comes to the merge only when they are green.
* `AttemptsAreBounded` needs `AttemptsCounted`: every attempt is counted on a row, but for the one under way and one per
  crash; before an attempt the row has the count that the lane read.
* `IdleFeedbackIsKept` needs `InHand`: comments from before the lane woke that no agent has run on are newer than what the
  lane's row has seen, then among the fresh ones, and after the agent there are none.

**`PatchLanesProofs`**

* `PullsAreWatched` and `OneRequestAtATime` rest on the order of branches. Titles only advance in the model, and a round is
  counted from the closed rows, so the rows come in the order of their branches (`InOrder`), the newest row's round is at
  most one above the number of closed rows besides it (`Rounds`), and the branch of a lane at work is that of the newest row
  or comes after all (`LaneBranch`). So what a lane records replaces the newest row or none. `RowTells` says what a row's
  status says of its request, and `KnownFits` that a lane is at work only while no known request is open, and that the
  row of one is the newest. The proof stops at titles that return to an earlier one: the code hides a park then (section 5),
  and the model's titles do not return.
* `TypeCorrect` is `Typed` with its bounds: a branch is numbered by the closed rows, and there are no more of them than
  requests, since every closed row is of a request and no two are of the same one (`OwnRequest`, `ClosedFew`).
* `ParksHold` needs `ParkFits`: a park for a human is the status of the newest row, and no request stands behind that row.
* `QuestionsAreAskedOnce` needs `AskFits`: while questions may not be asked the label is set and the decision waits for
  a reply that has not come, and no analyst is at work. A verdict without questions waits for none as soon as there is a
  comment, and then they may be.

**`TelegramProofs`**

* `TypeCorrect`: what the bridge has still of an answer are the updates from its offset on without a gap (`BatchFits`), what
  the mirror has of a page are the messages behind its cursor (`RowsFit`). That a chat is shown no more messages than there
  are follows from their order (`ShownFits`).
* `MirrorKeepsOrder` needs `ShownBehind`: a chat was shown nothing beyond the cursor, but for the message being sent.
* `NothingIsLost` needs `Behind`: what is before the update the bridge has come to is dealt with, but for the approval it
  awaits; the offset is not confirmed before the next poll.
* `LastWordIsKept` needs `SwitchFits`, where the chat has spoken last: the switch is what the commands up to some update
  say, and that update is not before the last one taken; after a crash the bridge goes back while the switch stays
  ahead. And `WordFits`, where the page has: the switch is as the page said until a repeated update goes over it, and
  without a crash none is repeated (`TakenOnce`).

**`SupervisorProofs`**: `DaysAreBounded`, for any prices, engines, slots, deploys, days and crashes. The inductive
invariant `Spent` says that the runs of a day cost at most what the cap allows and one run for every slot that is *not*
at work on a run of that day: a run (a killed agent's, too, whose pipes are held: `Holds`) begins when its day is below
the cap, takes its slot out of the count, and gives it back with what it cost. `AccFits` bounds a run by its rounds of
coder and reviewer. A total is the number of units of cost (`Total`): the theorems about cardinalities then say what a
change of one row does to it, where a recursive sum would ask for an induction. `TypeCorrect` adds what the guards bound
(`Bounded`): only mimo tries again, only coder and reviewer add costs.

**`IntakeProofs`**: `MessagesAreKept`, for any number of messages, pages and failures. `Accounted`: below the offset every
update was handled, dropped, or is in the batch; below what is confirmed the batch is no excuse. `RowFirst`: the row
of an accepted task is there before the answer goes out, and no row goes away.

### Only model-checked

* Liveness: `RunningEnds`, `RequestServed`, `Settles`, `ClosedIsRecorded`, `GreenMerges`, `AnswersAreHeard`, `TicksGoOn`,
  `SlotsComeFree`, `TicketsTaken`, `Converges`. The prover has no rule for fairness and `ENABLED`.
* What the migrations make of every database that is about is proved, and TLC computes it besides (the assumption
  `EveryDatabaseMigrates` of `MCRepoConfig`).

## 7. Not modelled

The director's follow-up sweep and retrospective: they write columns and messages that nothing else reads back. The
charter and notes: append-only text of the prompt. The age buckets of the cadence, and with them the text and date
formats of due times: a due time is a choice among delays. Prompts, parsing of answers and what agents write: the
outcome is a choice. The REST calls of providers: what they answer is a choice where a lane tells answers apart. The
MCP server: a client of the HTTP API. Signatures of webhooks, authentication of pages, settings of tokens and
prompts, rendering, benches: they keep no state that the modelled parts read. The queue's `low` priority is never used by
a caller. Deploys count as activities in `stop()`; they only lengthen the wait.
