----------------------------- MODULE Supervisor -----------------------------
(***************************************************************************)
(* The calls of models and what they cost: runJob and the daily cap        *)
(* (supervisor/index.ts), the rows of the runs and deploys                 *)
(* (storage/runs.ts, storage/deploys.ts), the engines (engines), the       *)
(* deploy lane (lanes/deploy.ts) with what starts it (server/webhooks.ts,  *)
(* server/admin.ts) and the recovery at boot (recoverStuckTasks).          *)
(*                                                                         *)
(* Slots are what calls runJob: the workers of the daemon, and command-    *)
(* line processes, which work on the same database.  One action is one     *)
(* turn between two awaits.  What lane a run belongs to is PatchLanes and  *)
(* PrDialog; when a task is taken up is Scheduler.                         *)
(*                                                                         *)
(* Time is counted in units of DayLen to a day, from a midnight UTC.       *)
(***************************************************************************)
EXTENDS Naturals, Integers, Sequences, FiniteSets

CONSTANTS
  Daemon, Clis, None,
  Cap,           \* cost_caps.per_day_usd
  Costs,         \* what one call of a model may cost, in units: a call is priced by its tokens,
  MaxCost,       \* so that its cost is bounded
  MaxCritique,   \* maxCritiqueIterations
  Attempts,      \* of fetchWithRetry
  DayLen,        \* the length of a day
  \* which engine does which kind of job
  Kinds, Defaults, RepoEngines, WithoutKey,
  CliEngines,    \* what --engine of review:item names
  \* the deploy blocks the repo has in turn, and the pushes that arrive
  DeployConfigs, Pushes,
  \* bounds on what the world does
  MaxRuns, MaxDeploys, MaxClock, MaxCrashes

Slots == Daemon \cup Clis

Engines == {"mimo", "claude_code", "anthropic", "multi_agent"}

ASSUME SupervisorConstants ==
  /\ None \notin Slots /\ IsFiniteSet(Slots) /\ Daemon \cap Clis = {}
  /\ {Cap, DayLen, Attempts, MaxRuns, MaxClock} \subseteq Nat \ {0}
  /\ MaxCost \in Nat /\ Costs # {} /\ Costs \subseteq 0 .. MaxCost
  /\ {MaxCritique, MaxDeploys, MaxCrashes} \subseteq Nat
  /\ Defaults \in [Kinds -> Engines] /\ RepoEngines \in [Kinds -> Engines \cup {None}]
  /\ "deep_review" \in Kinds /\ WithoutKey \subseteq Engines

VARIABLES
  clock,
  \* the database
  runs,      \* when each began, its status and its cost, 0 for NULL
  deploys,   \* the status of each
  \* the processes
  up,        \* the daemon runs
  deploying, \* the daemon sits in spawnSync: nothing else of it runs
  pc,        \* the engine a slot waits for; the two of multi_agent are coder and reviewer
  row,       \* the run of a slot
  acc,       \* what the calls of the run have cost so far
  round,     \* of coder and reviewer, or of fetchWithRetry
  child,     \* the process of the agent: at work, told to stop, or killed with its pipes still held
  \* history
  crashes

db == <<runs, deploys>>
turn == <<pc, row, acc, round, child>>
vars == <<clock, db, up, deploying, turn, crashes>>

RunCost == (MaxCritique + 1) * 2 * MaxCost

TypeOK ==
  /\ clock \in 0 .. MaxClock
  /\ runs \in Seq([at : 0 .. MaxClock, status : {"running", "ok", "error"}, cost : 0 .. RunCost])
  /\ deploys \in Seq({"running", "ok", "error"})
  /\ up \in BOOLEAN /\ deploying \in BOOLEAN
  /\ pc \in [Slots -> {"idle", "coder", "reviewer"} \cup (Engines \ {"multi_agent"})]
  /\ row \in [Slots -> 0 .. MaxRuns]
  /\ acc \in [Slots -> 0 .. RunCost] /\ round \in [Slots -> 0 .. MaxCritique + Attempts]
  /\ child \in [Slots -> {"works", "termed", "held"}]
  /\ crashes \in 0 .. MaxCrashes

Init ==
  /\ clock = 0
  /\ runs = <<>> /\ deploys = <<>>
  /\ up = TRUE /\ deploying = FALSE
  /\ pc = [s \in Slots |-> "idle"] /\ row = [s \in Slots |-> 0]
  /\ acc = [s \in Slots |-> 0] /\ round = [s \in Slots |-> 0]
  /\ child = [s \in Slots |-> "works"]
  /\ crashes = 0

\* The event loop that the slot runs in turns.
Awake(s) == s \in Clis \/ (up /\ ~deploying)

-----------------------------------------------------------------------------
(* The daily cap *)

Day(t) == t \div DayLen

\* SUM(cost_usd): the units of cost, each told apart by its row and its number in it.
Total(rows) == Cardinality(UNION {{i} \X (1 .. runs[i].cost) : i \in rows})

\* (mutant) Only what was started within the hour counts.
getCostUsdSinceLately(since) == Total({i \in DOMAIN runs : runs[i].at > clock})

\* started_at is "YYYY-MM-DD hh:mm:ss", since is "YYYY-MM-DDThh:mm:ss.sssZ", and they are
\* compared as texts: a row of the day of since is never later than it.
getCostUsdSince(since) == Total({i \in DOMAIN runs : Day(runs[i].at) > Day(since)})

CapReached == getCostUsdSince(clock - DayLen) >= Cap

-----------------------------------------------------------------------------
(* runJob *)

\* What the command line names goes before what the repo names, and that before the
\* global default.
selectEngine(kind, override) ==
  CASE override # None -> override
    [] override = None /\ RepoEngines[kind] # None -> RepoEngines[kind]
    [] OTHER -> Defaults[kind]

\* createRun.  The cap is checked before anything else, and an engine whose key is missing
\* throws before the row is made: what is refused leaves nothing here, and its task is
\* tried again an hour later.
runJob(s, kind, override) ==
  LET engine == selectEngine(kind, override) IN
  /\ pc[s] = "idle" /\ Awake(s) /\ Len(runs) < MaxRuns
  /\ ~CapReached
  /\ engine \notin WithoutKey
  /\ pc' = [pc EXCEPT ![s] = IF engine = "multi_agent" THEN "coder" ELSE engine]
  /\ runs' = Append(runs, [at |-> clock, status |-> "running", cost |-> 0])
  /\ row' = [row EXCEPT ![s] = Len(runs) + 1]
  /\ UNCHANGED <<clock, deploys, up, deploying, acc, round, child, crashes>>

\* A lane of the daemon or of scheduler:tick.
StartRun(s) == \E kind \in Kinds : runJob(s, kind, None)

\* The command review:item, which knows two engines by name; another name is no override.
ReviewItem(s) ==
  /\ s \in Clis
  /\ \E engine \in CliEngines :
       LET override == IF engine \in {"mimo", "claude_code"} THEN engine ELSE None
       IN runJob(s, "deep_review", override)

Leave(s) ==
  /\ pc' = [pc EXCEPT ![s] = "idle"] /\ row' = [row EXCEPT ![s] = 0]
  /\ acc' = [acc EXCEPT ![s] = 0] /\ round' = [round EXCEPT ![s] = 0]
  /\ child' = [child EXCEPT ![s] = "works"]

\* COALESCE(cost_usd, 0) of the row.
finishRun(s, status, cost) == runs' = [runs EXCEPT ![row[s]].status = status, ![row[s]].cost = cost]

\* The log is written before the row: when the first write fails the run counts as
\* failed and has no cost, when the second fails too the row stays as it is.
Succeed(s, cost) ==
  /\ \/ finishRun(s, "ok", cost)
     \/ finishRun(s, "error", 0)
     \/ UNCHANGED runs
  /\ Leave(s)

Fail(s) ==
  /\ finishRun(s, "error", 0) \/ UNCHANGED runs
  /\ Leave(s)

-----------------------------------------------------------------------------
(* The engines *)

Quiet == UNCHANGED <<clock, deploys, up, deploying, crashes>>

Http == {"anthropic", "mimo"}

Process == {"claude_code", "coder"}

\* An answer without usage has no cost: MIMO and the agent may leave it out.
CallCosts(engine) == IF engine \in {"anthropic", "reviewer"} THEN Costs ELSE Costs \cup {0}

\* One request: its answer, or no JSON, an error in it, a status that is not ok.
AnthropicAnswers(s) ==
  /\ pc[s] = "anthropic" /\ Awake(s)
  /\ (\E cost \in CallCosts("anthropic") : Succeed(s, cost)) \/ Fail(s)
  /\ Quiet

\* A response that fetchWithRetry does not try again.
MimoAnswers(s) ==
  /\ pc[s] = "mimo" /\ Awake(s)
  /\ (\E cost \in CallCosts("mimo") : Succeed(s, cost)) \/ Fail(s)
  /\ Quiet

\* A 429, a 5xx or a network error, after which it sleeps and tries again.
MimoRetries(s) ==
  /\ pc[s] = "mimo" /\ Awake(s) /\ round[s] < Attempts - 1
  /\ round' = [round EXCEPT ![s] = @ + 1]
  /\ UNCHANGED <<pc, row, acc, child, runs>> /\ Quiet

MimoExhausted(s) ==
  /\ pc[s] = "mimo" /\ Awake(s) /\ round[s] = Attempts - 1
  /\ Fail(s)
  /\ Quiet

\* AbortSignal.timeout.  The attempts of fetchWithRetry share the signal: those that are
\* left fail at once.
Aborted(s) ==
  /\ pc[s] \in Http /\ Awake(s)
  /\ Fail(s)
  /\ Quiet

AgentAnswers(s) ==
  /\ pc[s] = "claude_code" /\ Awake(s)
  /\ \E cost \in CallCosts("claude_code") : Succeed(s, cost)
  /\ Quiet

\* It exits with an error, of a rate limit or another, or prints no JSON, or it was killed and
\* the last process that held its pipes is gone; in the middle of a critique what was paid
\* before is lost with it.
AgentErrs(s) ==
  /\ pc[s] \in Process /\ Awake(s)
  /\ Fail(s)
  /\ Quiet

\* The timer of the process: it is told to stop.
TimesOut(s) ==
  /\ pc[s] \in Process /\ Awake(s) /\ child[s] = "works"
  /\ child' = [child EXCEPT ![s] = "termed"]
  /\ UNCHANGED <<pc, row, acc, round, runs>> /\ Quiet

\* (mutant) The process is asked again instead of being killed.
AskAgain(s) ==
  /\ pc[s] \in Process /\ Awake(s) /\ child[s] = "termed"
  /\ child' = [child EXCEPT ![s] = "works"]
  /\ UNCHANGED <<pc, row, acc, round, runs>> /\ Quiet

\* Two seconds later it is killed.  The call is over when its pipes are closed, which the
\* processes that it has started may hold for as long as they like.
KillChild(s) ==
  /\ pc[s] \in Process /\ Awake(s) /\ child[s] = "termed"
  /\ \/ Fail(s)
     \/ child' = [child EXCEPT ![s] = "held"] /\ UNCHANGED <<pc, row, acc, round, runs>>
  /\ Quiet

\* The coder has ended.  No reviewer, no commit or an empty diff: its answer is the result.
CoderEnds(s) ==
  /\ pc[s] = "coder" /\ Awake(s)
  /\ \E cost \in CallCosts("claude_code") :
       \/ Succeed(s, acc[s] + cost)
       \/ /\ "anthropic" \notin WithoutKey
          /\ acc' = [acc EXCEPT ![s] = @ + cost]
          /\ pc' = [pc EXCEPT ![s] = "reviewer"]
          /\ child' = [child EXCEPT ![s] = "works"]
          /\ UNCHANGED <<runs, row, round>>
  /\ Quiet

\* Its call fails or times out: the work of the coder is taken as it is.
ReviewerFails(s) ==
  /\ pc[s] = "reviewer" /\ Awake(s)
  /\ Succeed(s, acc[s])
  /\ Quiet

\* An answer that is neither of the two verdicts approves.
parseVerdict(json) == IF json = "request_changes" THEN json ELSE "approve"

ReviewerAnswers(s) ==
  /\ pc[s] = "reviewer" /\ Awake(s)
  /\ \E json \in {"approve", "request_changes", "other"}, cost \in CallCosts("reviewer") :
       IF parseVerdict(json) = "approve" \/ round[s] >= MaxCritique
         THEN Succeed(s, acc[s] + cost)
         ELSE /\ acc' = [acc EXCEPT ![s] = @ + cost]
              /\ round' = [round EXCEPT ![s] = @ + 1]
              /\ pc' = [pc EXCEPT ![s] = "coder"]
              /\ UNCHANGED <<runs, row, child>>
  /\ Quiet

-----------------------------------------------------------------------------
(* The deploy lane *)

\* The commands run in spawnSync, so no second deploy and no turn of a worker comes before
\* they have ended.  ssh without a host fails before the first.
runDeploy(config) ==
  /\ up /\ ~deploying /\ Len(deploys) < MaxDeploys
  /\ IF config.mode = "ssh" /\ ~config.host
       THEN deploys' = Append(deploys, "error") /\ UNCHANGED deploying
       ELSE deploys' = Append(deploys, "running") /\ deploying' = TRUE
  /\ UNCHANGED <<clock, runs, up, turn, crashes>>

Deployable(config) == config.mode # "disabled" /\ config.commands

\* A push to the trigger branch, by the bot when that is required, that is no deletion.
PushHook(config, push) ==
  /\ Deployable(config)
  /\ push.ref = config.trigger_branch
  /\ config.require_bot_push => push.sender = config.bot_login
  /\ ~push.deletion
  /\ runDeploy(config)

\* The button of the admin page.
DeployNow(config) == Deployable(config) /\ runDeploy(config)

\* The commands have succeeded, one has failed, or it was told to stop after five minutes.
finishDeploy ==
  /\ up /\ deploying
  /\ \E status \in {"ok", "error"} : deploys' = [deploys EXCEPT ![Len(deploys)] = status]
  /\ deploying' = FALSE
  /\ UNCHANGED <<clock, runs, up, turn, crashes>>

-----------------------------------------------------------------------------
(* Time and processes *)

Tick ==
  /\ clock < MaxClock
  /\ clock' = clock + 1
  /\ UNCHANGED <<db, up, deploying, turn, crashes>>

Dead(S) ==
  /\ pc' = [s \in Slots |-> IF s \in S THEN "idle" ELSE pc[s]]
  /\ row' = [s \in Slots |-> IF s \in S THEN 0 ELSE row[s]]
  /\ acc' = [s \in Slots |-> IF s \in S THEN 0 ELSE acc[s]]
  /\ round' = [s \in Slots |-> IF s \in S THEN 0 ELSE round[s]]
  /\ child' = [s \in Slots |-> IF s \in S THEN "works" ELSE child[s]]

\* The daemon is killed, or its graceful exit has waited long enough.
Crash ==
  /\ up /\ crashes < MaxCrashes
  /\ up' = FALSE /\ deploying' = FALSE /\ crashes' = crashes + 1
  /\ Dead(Daemon)
  /\ UNCHANGED <<clock, db>>

CliDies(s) ==
  /\ s \in Clis /\ pc[s] # "idle" /\ crashes < MaxCrashes
  /\ crashes' = crashes + 1
  /\ Dead({s})
  /\ UNCHANGED <<clock, db, up, deploying>>

\* recoverStuckTasks: what still runs by its row is an orphan of the process before, and
\* the run of a command-line process is taken for one.
Boot ==
  /\ ~up
  /\ up' = TRUE
  /\ runs' = [i \in DOMAIN runs |->
                IF runs[i].status = "running" THEN [runs[i] EXCEPT !.status = "error"] ELSE runs[i]]
  /\ deploys' = [i \in DOMAIN deploys |-> IF deploys[i] = "running" THEN "error" ELSE deploys[i]]
  /\ UNCHANGED <<clock, deploying, turn, crashes>>

Turn(s) ==
  \/ StartRun(s) \/ ReviewItem(s)
  \/ AnthropicAnswers(s)
  \/ MimoAnswers(s) \/ MimoRetries(s) \/ MimoExhausted(s) \/ Aborted(s)
  \/ AgentAnswers(s) \/ AgentErrs(s) \/ TimesOut(s) \/ KillChild(s)
  \/ CoderEnds(s) \/ ReviewerFails(s) \/ ReviewerAnswers(s)

Next ==
  \/ \E s \in Slots : Turn(s) \/ CliDies(s)
  \/ \E config \in DeployConfigs : DeployNow(config) \/ \E push \in Pushes : PushHook(config, push)
  \/ finishDeploy
  \/ Tick \/ Crash \/ Boot

Spec == Init /\ [][Next]_vars

\* The timers of the calls, and systemd.  No model has to answer, no agent and nothing it has
\* started has to end; a command of a deploy is assumed to end at SIGTERM at the latest, which
\* is all that is sent to it.
Fairness ==
  /\ \A s \in Slots : /\ WF_vars(Aborted(s)) /\ WF_vars(TimesOut(s)) /\ WF_vars(KillChild(s))
                      /\ WF_vars(ReviewerFails(s))
  /\ WF_vars(finishDeploy) /\ WF_vars(Boot)

FairSpec == Spec /\ Fairness

-----------------------------------------------------------------------------
\* Runs that were started on one day UTC are recorded to have cost less than the cap and
\* one run for every slot: what is checked before a run and paid after it can be overrun
\* by the runs that are under way, through crashes, recoveries and midnights, and by no
\* more (checkDailyCostCap).
DayBounded ==
  \A d \in {Day(runs[i].at) : i \in DOMAIN runs} :
    Total({i \in DOMAIN runs : Day(runs[i].at) = d}) <= Cap - 1 + Cardinality(Slots) * RunCost

\* A slot comes free again although the model never answers, the agent ignores that it is told
\* to stop, and a deploy holds up the whole daemon meanwhile; only processes that a killed
\* agent has left behind can keep it, for as long as they hold its pipes.
SlotsComeFree == \A s \in Slots : []<>(pc[s] = "idle" \/ child[s] = "held")
=============================================================================
