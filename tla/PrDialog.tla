------------------------------ MODULE PrDialog ------------------------------
(***************************************************************************)
(* The life of one pull request that the service opened: the pr_dialog     *)
(* lane (lanes/pr-dialog.ts), its merge gate, the conflict resolution it   *)
(* calls (lanes/conflict-resolve.ts, lib/git.ts), and what happens to the  *)
(* request meanwhile: reviewers comment and push, the base moves, checks   *)
(* run, the reconcile loop polls, the service dies and starts again.       *)
(*                                                                         *)
(* One action is one turn between two awaits.  At most one lane works on   *)
(* the request at a time: its task is held by one worker (Scheduler).      *)
(***************************************************************************)
EXTENDS PrBranch, FiniteSets

CONSTANTS
  MaxIterations,     \* pr_dialog_max_iterations
  MaxConflicts,      \* auto_merge.resolve_conflicts_max_attempts
  MaxSteps,          \* DEFAULT_MAX_REBASE_STEPS
  AutoMerge,         \* auto_merge.enabled
  ResolveConflicts,  \* auto_merge.resolve_conflicts
  RequireChecks,     \* auto_merge.require_checks_pass
  UnblockDraft,      \* auto_merge.unblock_draft
  HasCi,             \* workflows run on the repo: every head is checked sooner or later
  CallsFail,         \* the gate's reads that may fail: of the "threads", of the "checks"
  \* bounds on what the world does
  MaxComments, MaxHumanPushes, MaxBaseMoves, MaxCrashes,
  MaxEvents          \* ... of each of these kinds, and of all of them together

ASSUME PrDialogConstants ==
  /\ {MaxIterations, MaxConflicts, MaxSteps} \subseteq Nat \ {0}
  /\ {MaxComments, MaxHumanPushes, MaxBaseMoves, MaxCrashes, MaxEvents} \subseteq Nat
  /\ {AutoMerge, ResolveConflicts, RequireChecks, UnblockDraft, HasCi} \subseteq BOOLEAN
  /\ CallsFail \subseteq {"threads", "checks"}

\* The row was written under the task of the issue; the request has a task of its own.
IssueTask == "issue"
PrTask    == "pr"
Number    == 1
Branch    == "branch"

Comments == 1..MaxComments

VARIABLES
  table,      \* pr_branches
  queued,     \* the request's task is pending
  \* the forge
  state,      \* the request: "open", "merged" by the service, "closed" or merged by a human
  draft,      \* it is a draft
  head,       \* the branch: id of its head commit, who made it, the humans' commits in it
  ci,         \* what the checks of the head say: "no_checks", "pending", "success", "failure"
  conflict,   \* the branch conflicts with its base
  comments,   \* how many comments humans have written
  threads,    \* those that are review threads nobody resolved
  \* the lane
  pc,         \* the turn that comes next
  my,         \* the row it works with, as read at its start: id and columns
  fresh,      \* the comments it works on
  wd,         \* the clone: the remote head it was made from, the humans' commits in it,
              \* and how often the base had moved
  lease,      \* the remote head that a forced push expects
  pr,         \* the head getPullRequest returned last
  just,       \* justRebased
  steps,      \* rebase steps the agent was asked for
  \* history, for the properties and the bounds
  moves,      \* how often the base moved
  humans,     \* commits humans pushed
  attempts,   \* conflict resolutions that engaged the agent
  taken,      \* comments that went through an agent run that ended
  idle,       \* comments written while no lane worked on the request
  passed,     \* idle comments that the reconcile loop made look old
  crashes,
  mergedAs    \* what the service merged

forge == <<state, draft, head, ci, conflict, comments, threads>>
lane  == <<my, fresh, wd, lease, pr, just, steps>>
hist  == <<moves, humans, attempts, taken, idle, passed, crashes, mergedAs>>
vars  == <<table, queued, forge, pc, lane, hist>>

Turns == {"idle", "feedback", "agent", "push", "refetch", "force", "pushed", "gate", "setup",
          "rebase", "resolve", "lease", "rebased", "threads", "checks",
          "merge", "merged"}

CiStates == {"no_checks", "pending", "success", "failure"}

NoRow == [id |-> 0, task |-> IssueTask, iterations |-> 0, conflicts |-> 0, seen |-> 0]
NoDir == [base |-> 0, humans |-> {}, moves |-> 0]
Unmerged == [ci |-> "no_checks", by |-> "none", just |-> FALSE]

TypeOK ==
  /\ \A i \in DOMAIN table : table[i].status \in BranchStatuses /\ table[i].seen \in 0..comments
  /\ queued \in BOOLEAN /\ draft \in BOOLEAN /\ conflict \in BOOLEAN
  /\ state \in {"open", "merged", "closed"}
  /\ head \in [id : Nat, by : {"bot", "rebase", "human"}, humans : SUBSET (1..MaxHumanPushes)]
  /\ ci \in CiStates
  /\ comments \in 0..MaxComments /\ threads \subseteq 1..comments
  /\ pc \in Turns
  /\ my.id \in 0..Len(table)
  /\ fresh \subseteq 1..comments
  /\ wd \in [base : Nat, humans : SUBSET (1..MaxHumanPushes), moves : 0..MaxBaseMoves]
  /\ just \in BOOLEAN
  /\ lease \in Nat /\ pr \in Nat /\ steps \in 0..MaxSteps
  /\ taken \cup idle \cup passed \subseteq 1..comments

\* The patch lane has just opened the request, as a draft.
Init ==
  /\ table = <<BranchRow(IssueTask, Branch, Number, "open", 0)>>
  /\ queued = FALSE
  /\ state = "open" /\ draft = TRUE
  /\ head = [id |-> 1, by |-> "bot", humans |-> {}]
  /\ ci = "no_checks" /\ conflict = FALSE
  /\ comments = 0 /\ threads = {}
  /\ pc = "idle"
  /\ my = NoRow /\ fresh = {} /\ wd = NoDir /\ lease = 0
  /\ pr = 0 /\ just = FALSE /\ steps = 0
  /\ moves = 0 /\ humans = 0 /\ attempts = 0
  /\ taken = {} /\ idle = {} /\ passed = {}
  /\ crashes = 0 /\ mergedAs = Unmerged

----------------------------------------------------------------------------
(* The world: reviewers, the base branch, the checks. *)

Eventful == comments + humans + moves + crashes < MaxEvents

\* A reviewer comments, on a line (which opens a thread) or not; the webhook may get lost.
Comment ==
  /\ state = "open" /\ comments < MaxComments /\ Eventful
  /\ comments' = comments + 1
  /\ \E inline \in BOOLEAN : threads' = IF inline THEN threads \cup {comments'} ELSE threads
  /\ \E delivered \in BOOLEAN : queued' = (queued \/ delivered)
  /\ idle' = IF pc = "idle" THEN idle \cup {comments'} ELSE idle
  /\ UNCHANGED <<table, state, draft, head, ci, conflict, pc, lane,
                 moves, humans, attempts, taken, passed, crashes, mergedAs>>

\* A reviewer resolves a thread.
ResolveThread ==
  /\ \E c \in threads : threads' = threads \ {c}
  /\ UNCHANGED <<table, queued, state, draft, head, ci, conflict, comments, pc, lane, hist>>

\* A new head commit: the checks start over.
NewHead(by, kept) == /\ head' = [id |-> head.id + 1, by |-> by, humans |-> kept]
                     /\ ci' = "no_checks"

HumanPush ==
  /\ state = "open" /\ humans < MaxHumanPushes /\ Eventful
  /\ humans' = humans + 1
  /\ NewHead("human", head.humans \cup {humans'})
  /\ UNCHANGED <<table, queued, state, draft, conflict, comments, threads, pc, lane,
                 moves, attempts, taken, idle, passed, crashes, mergedAs>>

\* Somebody merges a change into the base that conflicts with the branch.
BaseMoves ==
  /\ state = "open" /\ moves < MaxBaseMoves /\ Eventful
  /\ moves' = moves + 1 /\ conflict' = TRUE
  /\ UNCHANGED <<table, queued, state, draft, head, ci, comments, threads, pc, lane,
                 humans, attempts, taken, idle, passed, crashes, mergedAs>>

\* The checks of the head register some time after the push, and end later.
CiAdvances ==
  /\ HasCi /\ state = "open"
  /\ \/ ci = "no_checks" /\ ci' = "pending"
     \/ ci = "pending" /\ ci' \in {"success", "failure"}
  /\ UNCHANGED <<table, queued, state, draft, head, conflict, comments, threads, pc, lane, hist>>

\* A human merges or closes the request.
HumanEnds ==
  /\ state = "open"
  /\ state' = "closed"
  /\ UNCHANGED <<table, queued, draft, head, ci, conflict, comments, threads, pc, lane, hist>>

----------------------------------------------------------------------------
(* The reconcile loop *)

\* (mutant) Only rows that say "open" are polled.
PollOpenRow(i) ==
  /\ table[i].status = "open" /\ table[i].pr # NoPr
  /\ IF state # "open"
       THEN /\ table' = SetStatus(table, i, "closed", comments)
            /\ UNCHANGED queued
       ELSE /\ queued' = (queued \/ comments > table[i].seen \/ AutoMerge)
            /\ UNCHANGED table
  /\ UNCHANGED <<forge, pc, lane, hist>>

\* pollOurPrs, for one row that is not closed.
PollRow(i) ==
  /\ table[i].status # "closed" /\ table[i].pr # NoPr
  /\ IF state # "open"
       THEN /\ table' = SetStatus(table, i, "closed", comments)
            /\ UNCHANGED queued
       ELSE /\ queued' = (queued \/ comments > table[i].seen \/ AutoMerge)
            /\ UNCHANGED table
  /\ UNCHANGED <<forge, pc, lane, hist>>

Poll == \E i \in DOMAIN table : PollRow(i)

\* planTask looks at the issue, whose trigger label the patch lane took away.
PlanIssue ==
  /\ table' = CancelBlocked(table, IssueTask, comments)
  /\ table' # table
  /\ passed' = passed \cup
       {c \in idle : \E i \in DOMAIN table : table'[i] # table[i] /\ table[i].seen < c}
  /\ UNCHANGED <<queued, forge, pc, lane,
                 moves, humans, attempts, taken, idle, crashes, mergedAs>>

----------------------------------------------------------------------------
(* What the lane asks of the forge (providers/github.ts) and of git (lib/git.ts) *)

listAllPrFeedback == 1..comments

\* What a clone of the branch holds.
Checkout == [base |-> head.id, humans |-> head.humans, moves |-> moves]

\* A push that is not forced lands when the branch is where the clone was made; a push under
\* a lease, when it is where the lease says.
FastForward == head.id = wd.base
LeaseHolds  == head.id = lease

\* Any of the threads that addressed comments opened: the rest failed, and that is ignored.
resolveReviewThreadsForComments(addressed) == SUBSET (threads \cap addressed)

\* The call may fail, which the gate takes for "none".
NoUnresolvedThread == threads = {} \/ "threads" \in CallsFail

\* getCombinedStatus for the head that was read; what fails in it reads "no_checks".
getCombinedStatus ==
  (IF pr = head.id THEN {ci} ELSE CiStates)
    \cup (IF "checks" \in CallsFail THEN {"no_checks"} ELSE {})

\* mergePullRequest names no head: whatever the branch is now is merged.
mergePullRequest ==
  /\ state = "open" /\ ~conflict
  /\ state' = "merged"

----------------------------------------------------------------------------
(* The pr_dialog lane up to its push *)

\* The lane returned and the worker calls markDone: whatever was asked meanwhile is gone.
LaneEnds ==
  /\ pc' = "idle" /\ queued' = FALSE
  /\ my' = NoRow /\ fresh' = {} /\ wd' = NoDir /\ lease' = 0
  /\ pr' = 0 /\ just' = FALSE /\ steps' = 0

Goes(turn) == pc' = turn /\ UNCHANGED queued

\* processOne and pickLane for the request, then runPrDialog up to the listing of feedback.
Wake ==
  /\ pc = "idle" /\ queued
  /\ LET i == getPrBranchByPrNumber(table, Number) IN
     IF state # "open" \/ i = 0 \/ table[i].status = "closed" \/ table[i].iterations >= MaxIterations
       THEN /\ table' = IF state # "open" /\ i # 0
                          THEN IF table[i].status = "closed" THEN table
                               ELSE SetStatus(table, i, "closed", comments)
                          ELSE table
            /\ LaneEnds
       ELSE /\ my' = [id |-> i, task |-> table[i].task, iterations |-> table[i].iterations,
                      conflicts |-> table[i].conflicts, seen |-> table[i].seen]
            /\ Goes("feedback")
            /\ UNCHANGED <<table, fresh, wd, lease, pr, just, steps>>
  /\ UNCHANGED <<forge, hist>>

\* The comments newer than the row's updated_at.
NewFeedback == {c \in listAllPrFeedback : c > my.seen}

\* The feedback is listed: something new is acknowledged and the branch cloned (what the
\* world does between the two commutes with one of them).
ReadFeedback ==
  /\ pc = "feedback" /\ NewFeedback # {}
  /\ fresh' = NewFeedback
  /\ wd' = Checkout /\ Goes("agent")
  /\ UNCHANGED <<table, forge, my, lease, pr, just, steps, hist>>

\* (mutant) Without new feedback there is nothing to do.
NothingNewNoGate ==
  /\ pc = "feedback" /\ NewFeedback = {}
  /\ LaneEnds
  /\ UNCHANGED <<table, forge, hist>>

\* Nothing new: the merge gate gets a chance.
NothingNew ==
  /\ pc = "feedback" /\ NewFeedback = {}
  /\ IF AutoMerge
       THEN Goes("gate") /\ UNCHANGED <<my, fresh, wd, lease, pr, just, steps>>
       ELSE LaneEnds
  /\ UNCHANGED <<table, forge, hist>>

\* (mutant) The error is recorded on the row.
LaneFailsRecording ==
  /\ pc \in {"feedback", "agent", "push", "refetch", "force"}
  /\ table' = SetStatus(table, my.id, "error", comments)
  /\ LaneEnds
  /\ UNCHANGED <<forge, hist>>

\* An await of the lane throws: the outcome is "error" and no row is written.
LaneFails ==
  /\ pc \in {"feedback", "agent", "push", "refetch", "force"}
  /\ LaneEnds
  /\ UNCHANGED <<table, forge, hist>>

\* The agent left uncommitted edits: recorded under the task of the request.
AgentDirty ==
  /\ pc = "agent"
  /\ table' = recordPrBranch(table, PrTask, Branch, Number, "dirty", comments)
  /\ taken' = taken \cup fresh
  /\ LaneEnds
  /\ UNCHANGED <<forge, moves, humans, attempts, idle, passed, crashes, mergedAs>>

\* It committed nothing, or its commits break a guardrail: recorded under the row's task.
AgentDeclines ==
  /\ pc = "agent"
  /\ \E status \in {"needs_human", "guardrail_blocked"} :
       table' = recordPrBranch(table, my.task, Branch, Number, status, comments)
  /\ taken' = taken \cup fresh
  /\ LaneEnds
  /\ UNCHANGED <<forge, moves, humans, attempts, idle, passed, crashes, mergedAs>>

AgentCommits ==
  /\ pc = "agent"
  /\ taken' = taken \cup fresh
  /\ Goes("push")
  /\ UNCHANGED <<table, forge, lane, moves, humans, attempts, idle, passed,
                 crashes, mergedAs>>

\* pushBranchWithToken: first without force.
Push ==
  /\ pc = "push"
  /\ IF FastForward
       THEN NewHead("bot", wd.humans) /\ Goes("pushed")
       ELSE Goes("refetch") /\ UNCHANGED <<head, ci>>
  /\ UNCHANGED <<table, state, draft, conflict, comments, threads, lane,
                 moves, humans, attempts, taken, idle, passed, crashes, mergedAs>>

\* Rejected: fetch the branch and take what it is now for the lease.
RefetchLease ==
  /\ pc = "refetch"
  /\ lease' = head.id /\ Goes("force")
  /\ UNCHANGED <<table, forge, my, fresh, wd, pr, just, steps, hist>>

\* Overwrite it, provided nobody has pushed since that fetch (else LaneFails).
ForcePush ==
  /\ pc = "force" /\ LeaseHolds
  /\ NewHead("bot", wd.humans) /\ Goes("pushed")
  /\ UNCHANGED <<table, state, draft, conflict, comments, threads, lane,
                 moves, humans, attempts, taken, idle, passed, crashes, mergedAs>>

\* bumpIteration and recordPrBranch, in one turn; then replies go out, the threads of
\* addressed comments are resolved as far as the forge lets, and the gate is tried if every
\* reply says "addressed".
RecordPush ==
  /\ pc = "pushed"
  /\ table' = recordPrBranch(bumpIteration(table, my.id, comments),
                             my.task, Branch, Number, "open", comments)
  /\ \E solved \in resolveReviewThreadsForComments(fresh) : threads' = threads \ solved
  /\ \/ AutoMerge /\ Goes("gate")
        /\ fresh' = {} /\ wd' = NoDir /\ lease' = 0
        /\ UNCHANGED <<my, pr, just, steps>>
     \/ LaneEnds
  /\ UNCHANGED <<state, draft, head, ci, conflict, comments, hist>>

----------------------------------------------------------------------------
(* tryAutoMerge: the state of the request, conflicts, threads, checks, the merge *)

\* It gives up; the lane ends too.
GateStops ==
  /\ pc \in {"gate", "threads", "checks", "merge"}
  /\ LaneEnds
  /\ UNCHANGED <<table, forge, hist>>

\* getPullRequest: the forge may still be computing whether the branch can be merged
\* ("known" is FALSE after the second look, too).
ReadRequest ==
  /\ pc = "gate" /\ state = "open" /\ (draft => UnblockDraft)
  /\ draft' = FALSE
  /\ pr' = head.id
  /\ \E known \in BOOLEAN :
       IF known /\ conflict
         THEN /\ ResolveConflicts /\ my.conflicts < MaxConflicts
              /\ Goes("setup")
         ELSE Goes("threads")
  /\ UNCHANGED <<table, state, head, ci, conflict, comments, threads, my, fresh, wd, lease, just, steps, hist>>

\* (mutant) Only an attempt that succeeded counts.
ResolveFailsUncounted ==
  /\ pc \in {"setup", "rebase", "resolve", "lease"}
  /\ LaneEnds
  /\ UNCHANGED <<table, forge, hist>>

\* attemptRebaseResolve failed: the attempt is counted, the gate gives up.
ResolveFails ==
  /\ pc \in {"setup", "rebase", "resolve", "lease"}
  /\ table' = bumpConflictResolutions(table, my.id, comments)
  /\ LaneEnds
  /\ UNCHANGED <<forge, hist>>

\* Clone if need be, fetch both branches, align with the remote branch, remember its head.
SyncToRemote ==
  /\ pc = "setup"
  /\ wd' = Checkout /\ lease' = head.id /\ Goes("rebase")
  /\ UNCHANGED <<table, forge, my, fresh, pr, just, steps, hist>>

\* git rebase: no conflict with the base that was fetched (then nothing is pushed, and the
\* request is read again if the forge answers), or the first batch of conflicts.
StartRebase ==
  /\ pc = "rebase"
  /\ \/ /\ ~conflict
        /\ pr' \in {pr, head.id} /\ Goes("threads")
        /\ wd' = NoDir /\ lease' = 0
        /\ UNCHANGED <<steps, attempts>>
     \/ /\ conflict
        /\ steps' = 1 /\ attempts' = attempts + 1 /\ Goes("resolve")
        /\ UNCHANGED <<pr, wd, lease>>
  /\ UNCHANGED <<table, forge, my, fresh, just,
                 moves, humans, taken, idle, passed, crashes, mergedAs>>

\* The agent resolved a batch: the rebase ends, or stops at the next commit.
ResolveBatch ==
  /\ pc = "resolve"
  /\ \/ Goes("lease") /\ UNCHANGED steps
     \/ steps < MaxSteps /\ steps' = steps + 1 /\ Goes("resolve")
  /\ UNCHANGED <<table, forge, my, fresh, wd, lease, pr, just, hist>>

\* (mutant) A lease on whatever the branch is at the push.
PushRebasedAnyway ==
  /\ pc = "lease"
  /\ NewHead("rebase", wd.humans)
  /\ conflict' = (moves # wd.moves)
  /\ wd' = NoDir /\ lease' = 0 /\ steps' = 0
  /\ Goes("rebased")
  /\ UNCHANGED <<table, state, draft, comments, threads, my, fresh, pr, just, hist>>

\* forcePushWithLease against the head from before the rebase.
PushRebased ==
  /\ pc = "lease" /\ LeaseHolds
  /\ NewHead("rebase", wd.humans)
  /\ conflict' = (moves # wd.moves)
  /\ wd' = NoDir /\ lease' = 0 /\ steps' = 0
  /\ Goes("rebased")
  /\ UNCHANGED <<table, state, draft, comments, threads, my, fresh, pr, just, hist>>

\* (mutant) The request is not read again: the checks are those of the head before.
RecordRebaseOnly ==
  /\ pc = "rebased"
  /\ table' = updateBranchHeadSha(bumpConflictResolutions(table, my.id, comments), my.id, comments)
  /\ just' = TRUE /\ Goes("threads")
  /\ UNCHANGED <<forge, my, fresh, wd, lease, pr, steps, hist>>

\* The attempt is counted and the head recorded; then the request is read again: a conflict
\* the forge knows of stops the gate (GateStops), one it has not seen yet does not.
RecordRebase ==
  /\ pc = "rebased"
  /\ table' = updateBranchHeadSha(bumpConflictResolutions(table, my.id, comments), my.id, comments)
  /\ just' = TRUE /\ pr' = head.id /\ Goes("threads")
  /\ UNCHANGED <<forge, my, fresh, wd, lease, steps, hist>>

CheckThreads ==
  /\ pc = "threads"
  /\ NoUnresolvedThread
  /\ Goes(IF RequireChecks THEN "checks" ELSE "merge")
  /\ UNCHANGED <<table, forge, lane, hist>>

\* After a rebase of this call "no_checks" is polled for, and stops the gate if it stays.
CheckCi ==
  /\ pc = "checks"
  /\ \E status \in getCombinedStatus :
       status = "success" \/ (status = "no_checks" /\ ~just)
  /\ Goes("merge")
  /\ UNCHANGED <<table, forge, lane, hist>>

Merge ==
  /\ pc = "merge" /\ mergePullRequest
  /\ mergedAs' = [ci |-> ci, by |-> head.by, just |-> just]
  /\ Goes("merged")
  /\ UNCHANGED <<table, draft, head, ci, conflict, comments, threads, lane,
                 moves, humans, attempts, taken, idle, passed, crashes>>

RecordMerge ==
  /\ pc = "merged"
  /\ table' = SetStatus(table, my.id, "closed", comments)
  /\ LaneEnds
  /\ UNCHANGED <<forge, hist>>

----------------------------------------------------------------------------
\* The process dies; the next boot puts the running task back.
Crash ==
  /\ pc # "idle" /\ crashes < MaxCrashes /\ Eventful
  /\ crashes' = crashes + 1
  /\ pc' = "idle" /\ queued' = TRUE
  /\ my' = NoRow /\ fresh' = {} /\ wd' = NoDir /\ lease' = 0
  /\ pr' = 0 /\ just' = FALSE /\ steps' = 0
  /\ UNCHANGED <<table, forge, moves, humans, attempts, taken, idle, passed, mergedAs>>

World == Comment \/ ResolveThread \/ HumanPush \/ BaseMoves \/ CiAdvances \/ HumanEnds
Loop  == Poll \/ PlanIssue
LaneStep ==
  \/ Wake \/ ReadFeedback \/ NothingNew \/ LaneFails
  \/ AgentDirty \/ AgentDeclines \/ AgentCommits
  \/ Push \/ RefetchLease \/ ForcePush \/ RecordPush
  \/ GateStops \/ ReadRequest \/ ResolveFails \/ SyncToRemote \/ StartRebase \/ ResolveBatch
  \/ PushRebased \/ RecordRebase \/ CheckThreads \/ CheckCi \/ Merge
  \/ RecordMerge

Next == World \/ Loop \/ LaneStep \/ Crash

Spec == Init /\ [][Next]_vars

----------------------------------------------------------------------------
(* Fairness: the reconcile loop polls every row again and again, a lane goes on (every await *)
(* of it has a timeout), and a call that is repeated for ever does not fail for ever.        *)
FairSpec ==
  /\ Spec
  /\ \A i \in 1..2 : WF_vars(i \in DOMAIN table /\ PollRow(i))
  /\ WF_vars(LaneStep)
  /\ SF_vars(NothingNew) /\ SF_vars(ReadRequest) /\ SF_vars(CheckThreads)
  /\ SF_vars(CheckCi) /\ SF_vars(Merge)

----------------------------------------------------------------------------
\* The agent is engaged for conflicts at most resolve_conflicts_max_attempts times per row,
\* however often the base moves.
AttemptsBounded == attempts <= Len(table) * MaxConflicts + crashes

\* A comment written while no lane worked on the request goes through an agent run before any
\* write of the lanes to the row makes it look old.
IdleFeedbackKept ==
  state = "open" =>
    LET i == getPrBranchByPrNumber(table, Number) IN
    \A c \in idle \ (taken \cup passed) : table[i].seen < c

\* The lease of the conflict resolution is taken before the rebase: a commit that a human
\* pushed in the meantime is never overwritten by it.
RebaseKeepsHumans ==
  [][head' # head /\ head'.by = "rebase" => head.humans \subseteq head'.humans]_vars

\* A request merged by the call that rebased it was merged green: the checks of the rebased
\* head had registered and passed.
RebasedIsGreen ==
  mergedAs.just /\ mergedAs.by = "rebase" /\ RequireChecks => mergedAs.ci = "success"

\* Once the request is merged or closed every row of it ends up closed for good, even if the
\* service died before recording it or a lane that was still running wrote "open" again.
ClosedIsRecorded ==
  <>[](state # "open" => \A i \in DOMAIN table : table[i].status = "closed")

\* Nothing stands in the way of a merge, as far as the gate looks.
Green ==
  LET i == getPrBranchByPrNumber(table, Number) IN
  /\ state = "open" /\ ci = "success" /\ ~conflict /\ threads = {}
  /\ comments <= table[i].seen /\ table[i].status # "closed"
  /\ (draft => UnblockDraft)

\* A request that stays green gets merged, while its row has iterations left.
GreenMerges ==
  AutoMerge =>
    (<>[](Green /\ table[getPrBranchByPrNumber(table, Number)].iterations < MaxIterations)
       => <>(state # "open"))

=============================================================================
