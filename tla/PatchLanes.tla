----------------------------- MODULE PatchLanes -----------------------------
(***************************************************************************)
(* An issue on its way to a pull request: pickLane (scheduler/worker.ts),  *)
(* the analyze lane (lanes/analyze.ts), the two patch lanes                *)
(* (lanes/patch.ts, lanes/patch-multi.ts), triage (lanes/review.ts), the   *)
(* webhook of the forge, planTask and the poll of the reconcile loop, the  *)
(* Retry button.  What happens to a request once it is open is PrDialog;   *)
(* here the dialog is the status it leaves on the row.                     *)
(*                                                                         *)
(* One action is one turn between two awaits; turns that change only       *)
(* comments, reactions and the in-progress label are left out.             *)
(***************************************************************************)
EXTENDS PrBranch, FiniteSets

CONSTANTS
  PatchLaneNames,  \* which of "patch", "patch_multi" a repo may have configured
  Analyze,         \* the repo has the analyze lane
  Triage,          \* the repo has the triage lane
  \* bounds on what the world does
  MaxTitles, MaxReplies, MaxPulls, MaxCrashes

ASSUME PatchLanesConstants ==
  /\ PatchLaneNames \subseteq {"patch", "patch_multi"} /\ PatchLaneNames # {}
  /\ {Analyze, Triage} \subseteq BOOLEAN
  /\ {MaxTitles, MaxPulls} \subseteq Nat \ {0} /\ {MaxReplies, MaxCrashes} \subseteq Nat

Task == "issue"

\* updated_at of the rows is not read here.
Now == 0

\* patch_trigger_label, awaiting_answer_label; no lane reads the others.
Labels == {"trigger", "answer"}

VARIABLES
  configured, \* the patch lane of the repo; it does not change
  \* the forge
  open,       \* the issue is open
  title,      \* which of its titles it has; a title is never taken back
  labels,
  replies,    \* how many comments humans have written on the issue
  pulls,      \* the requests opened for it: branch and state, in order of their numbers
  \* the database
  table,      \* pr_branches
  decision,   \* decision_json: which lane wrote it and what it says; replies when it asked
  \* the worker
  pc,         \* the turn that comes next
  awaits,     \* the item as it was read awaited an answer
  branch,     \* the branch of the patch lane
  status,     \* what the patch lane is about to record
  \* history, for the properties and the bounds
  park,       \* how the last patch run ended, unless a human has done something about it
  mayAsk,     \* the issue may be asked about: it never was, a reply came or seems to have come,
              \* or a label is missing
  heard,      \* replies that were in a prompt of the analyst
  orphans,    \* requests whose creation the service did not live to record
  released,   \* requests whose blocked row was cancelled, by the loop or the Retry button
  crashes

issue == <<open, title, labels, replies>>
forge == <<issue, pulls>>
rows  == <<table, decision>>
work  == <<pc, awaits, branch, status>>
hist  == <<park, mayAsk, heard, orphans, released, crashes>>
vars  == <<configured, forge, rows, work, hist>>

Turns == {"idle", "feedback", "analyst", "ask", "ready", "triage",
          "agent", "park", "create", "record", "clear"}

Branches == [title : 1..MaxTitles, round : 1..(MaxPulls + 1)]
NoBranch == [title |-> 1, round |-> 1]
Undecided == [state |-> "none", asked |-> 0]

TypeOK ==
  /\ configured \in PatchLaneNames
  /\ open \in BOOLEAN /\ title \in 1..MaxTitles /\ labels \subseteq Labels
  /\ replies \in 0..MaxReplies
  /\ \A p \in DOMAIN pulls : pulls[p] \in [branch : Branches, state : {"open", "closed"}]
  /\ \A i \in DOMAIN table :
       /\ table[i].branch \in Branches /\ table[i].status \in BranchStatuses
       /\ table[i].pr \in 0..Len(pulls)
       /\ \A j \in DOMAIN table : table[i].branch = table[j].branch => i = j
  /\ decision \in [state : {"none", "asks", "ready", "patch", "review"}, asked : 0..MaxReplies]
  /\ pc \in Turns
  /\ awaits \in BOOLEAN
  /\ branch \in Branches /\ status \in BranchStatuses
  /\ park \in BranchStatuses \cup {"none"}

Init ==
  /\ configured \in PatchLaneNames
  /\ open = TRUE /\ title = 1 /\ labels = {"trigger"} /\ replies = 0 /\ pulls = <<>>
  /\ table = <<>> /\ decision = Undecided
  /\ pc = "idle" /\ awaits = FALSE /\ branch = NoBranch /\ status = "created"
  /\ park = "none" /\ mayAsk = TRUE /\ heard = 0
  /\ orphans = {} /\ released = {} /\ crashes = 0

----------------------------------------------------------------------------
(* Humans, and the webhooks of what they do, which may get lost *)

\* POST /github/:repoId for an issue, when it is delivered: a comment lifts transient parks.
\* It enqueues the task, too; so do the cadence and the label changes of our own, so that the
\* task may be due whenever no lane is at work (Scheduler has the queue).
Hook(delivered) ==
  table' = IF delivered THEN liftTransientPark(table, Task, Now) ELSE table

Reply ==
  /\ open /\ replies < MaxReplies
  /\ replies' = replies + 1
  /\ mayAsk' = TRUE
  /\ \E delivered \in BOOLEAN : Hook(delivered)
  /\ UNCHANGED <<configured, open, title, labels, pulls, decision, work,
                 park, heard, orphans, released, crashes>>

\* Somebody puts the trigger label on or takes a label off.
Relabel ==
  /\ open
  /\ \/ labels' = labels \cup {"trigger"}
     \/ \E l \in Labels : labels' = labels \ {l}
  /\ labels' # labels
  /\ mayAsk' = (mayAsk \/ labels \ labels' # {})
  /\ UNCHANGED <<configured, open, title, replies, pulls, rows, work,
                 park, heard, orphans, released, crashes>>

Retitle ==
  /\ open /\ title < MaxTitles
  /\ title' = title + 1
  /\ UNCHANGED <<configured, open, labels, replies, pulls, rows, work, hist>>

\* A request is merged, which closes the issue, or closed.
PullEnds ==
  /\ \E p \in DOMAIN pulls :
       /\ pulls[p].state = "open"
       /\ pulls' = [pulls EXCEPT ![p].state = "closed"]
  /\ \E merged \in BOOLEAN : open' = (open /\ ~merged)
  /\ UNCHANGED <<configured, title, labels, replies, rows, work, hist>>

Reopen ==
  /\ ~open /\ open' = TRUE
  /\ UNCHANGED <<configured, title, labels, replies, pulls, rows, work, hist>>

\* Requests whose row says guardrail_blocked.
BlockedPulls == {table[i].pr : i \in {j \in DOMAIN table : table[j].status = "guardrail_blocked"}}

Release == table' = CancelBlocked(table, Task, Now)

\* POST /api/blocked-patches/:taskId/retry
RetryButton ==
  /\ Release
  /\ released' = released \cup BlockedPulls
  /\ park' = IF park = "guardrail_blocked" THEN "none" ELSE park
  /\ UNCHANGED <<configured, forge, decision, work,
                 mayAsk, heard, orphans, crashes>>

----------------------------------------------------------------------------
(* The reconcile loop, and what the dialog of the request leaves *)

\* planTask: without the trigger label blocked rows are cancelled.
PlanTask ==
  /\ open /\ "trigger" \notin labels
  /\ Release
  /\ released' = released \cup BlockedPulls
  /\ park' = IF park = "guardrail_blocked" THEN "none" ELSE park
  /\ UNCHANGED <<configured, forge, decision, work,
                 mayAsk, heard, orphans, crashes>>

\* pollOurPrs finds a request closed.
PollPulls ==
  /\ \E i \in DOMAIN table :
       /\ table[i].pr # NoPr /\ table[i].status # "closed" /\ pulls[table[i].pr].state = "closed"
       /\ table' = SetStatus(table, i, "closed", Now)
  /\ UNCHANGED <<configured, forge, decision, work, hist>>

\* An iteration of the dialog ended on an open request.
Dialog ==
  /\ \E i \in DOMAIN table, s \in {"open", "needs_human", "guardrail_blocked"} :
       /\ table[i].pr # NoPr /\ table[i].status # "closed" /\ pulls[table[i].pr].state = "open"
       /\ table' = SetStatus(table, i, s, Now)
  /\ UNCHANGED <<configured, forge, decision, work, hist>>

----------------------------------------------------------------------------
(* The worker: processOne and pickLane *)

Goes(turn) == pc' = turn

LaneEnds == pc' = "idle" /\ awaits' = FALSE /\ branch' = NoBranch /\ status' = "created"

\* In lane patch a follow-up gets a branch of its own, numbered by the closed rows so far.
PatchBranch ==
  [title |-> title, round |-> Cardinality({i \in DOMAIN table : table[i].status = "closed"}) + 1]

MultiBranch == [title |-> title, round |-> 1]

\* pickLane's TERMINAL_BRANCH_STATUSES: the newest row of the task is parked for a human.
Parked == LET i == getPrBranchByTask(table, Task) IN
          i # 0 /\ table[i].status \in TERMINAL_BRANCH_STATUSES

\* (mutant) Without a look at the rows that are open.
StartPatchBlind ==
  /\ branch' = (IF configured = "patch" THEN PatchBranch ELSE MultiBranch)
  /\ awaits' = ("answer" \in labels) /\ Goes("agent") /\ UNCHANGED status

\* A patch lane is asked for: runPatch and runPatchMulti up to their first await.  With a row
\* that is created or open nothing is run.
StartPatch ==
  IF ActiveRow(table, Task) # 0
    THEN LaneEnds
    ELSE /\ branch' = (IF configured = "patch" THEN PatchBranch ELSE MultiBranch)
         /\ awaits' = ("answer" \in labels) /\ Goes("agent") /\ UNCHANGED status

\* getItem answers and pickLane routes.
Start ==
  /\ pc = "idle"
  /\ LET hasTrigger == "trigger" \in labels IN
     CASE ~open \/ (hasTrigger /\ Parked) \/ (~hasTrigger /\ ~Triage) -> LaneEnds
       [] open /\ ~hasTrigger /\ Triage ->
            awaits' = ("answer" \in labels) /\ Goes("triage") /\ UNCHANGED <<branch, status>>
       [] open /\ hasTrigger /\ ~Parked /\ Analyze /\ decision.state # "ready" ->
            awaits' = ("answer" \in labels) /\ Goes("feedback") /\ UNCHANGED <<branch, status>>
       [] OTHER -> StartPatch
  /\ UNCHANGED <<configured, forge, rows, hist>>

\* getItem throws (markError puts the task back for later), or a lane does so where nothing
\* of it is recorded: analyze answers "error", triage throws.
LaneFails ==
  /\ pc \in {"feedback", "analyst", "triage"}
  /\ LaneEnds
  /\ UNCHANGED <<configured, forge, rows, hist>>

\* runReview: the verdict of the triage replaces whatever decision was there.
TriageDone ==
  /\ pc = "triage"
  /\ decision' = [state |-> "review", asked |-> 0]
  /\ LaneEnds
  /\ UNCHANGED <<configured, forge, table, hist>>

----------------------------------------------------------------------------
(* The analyze lane *)

\* (mutant) The label alone does not hold it back.
ReadRepliesAlways ==
  /\ pc = "feedback"
  /\ Goes("analyst") /\ UNCHANGED <<awaits, branch, status>>
  /\ labels' = labels \ {"answer"}
  /\ heard' = replies
  /\ UNCHANGED <<configured, open, title, replies, pulls, rows,
                 park, mayAsk, orphans, released, crashes>>

\* (mutant) The label alone holds it back, whatever is answered.
ReadRepliesNever ==
  /\ pc = "feedback"
  /\ IF awaits
       THEN LaneEnds /\ UNCHANGED heard
       ELSE Goes("analyst") /\ heard' = replies /\ UNCHANGED <<awaits, branch, status>>
  /\ UNCHANGED <<configured, forge, rows, park, mayAsk, orphans, released, crashes>>

\* The comments are listed.  While the issue awaits an answer and none is newer than the
\* questions there is nothing to do; else the label goes and the analyst is asked.
ReadReplies ==
  /\ pc = "feedback"
  /\ LET asked == IF decision.state = "asks" THEN decision.asked ELSE 0 IN
     IF awaits /\ replies <= asked
       THEN LaneEnds /\ UNCHANGED <<labels, heard>>
       ELSE /\ Goes("analyst") /\ UNCHANGED <<awaits, branch, status>>
            /\ \E removed \in BOOLEAN :
                 labels' = IF removed /\ awaits THEN labels \ {"answer"} ELSE labels
            /\ heard' = replies
  /\ UNCHANGED <<configured, open, title, replies, pulls, rows,
                 park, mayAsk, orphans, released, crashes>>

\* The listing throws, and nobody is told: with the label the issue seems to have no answer,
\* without it the analyst gets to work and sees no comments.
ListingFails ==
  /\ pc = "feedback"
  /\ IF awaits
       THEN LaneEnds
       ELSE Goes("analyst") /\ UNCHANGED <<awaits, branch, status>>
  /\ UNCHANGED <<configured, forge, rows, hist>>

\* The analyst answers; what it cannot parse is a question, too.  asked_at is the time of the
\* answer, not that of the comments it has seen; it is stored with questions only, and without
\* it every comment there ever was counts as a reply.
Verdict ==
  /\ pc = "analyst"
  /\ \/ decision' = [state |-> "ready", asked |-> 0] /\ Goes("ready")
     \/ decision' = [state |-> "asks", asked |-> replies] /\ Goes("ask")
     \/ decision' = [state |-> "asks", asked |-> 0] /\ Goes("ask")
  /\ UNCHANGED <<configured, forge, table, awaits, branch, status, hist>>

\* The questions are posted, if there are any, and the label is set, each as far as the forge lets.
Ask ==
  /\ pc = "ask"
  /\ \E labelled \in BOOLEAN :
       /\ labels' = IF labelled THEN labels \cup {"answer"} ELSE labels
       /\ mayAsk' = (~labelled \/ "trigger" \notin labels \/ replies > decision.asked)
  /\ LaneEnds
  /\ UNCHANGED <<configured, open, title, replies, pulls, rows,
                 park, heard, orphans, released, crashes>>

\* Ready: a label that lingers goes; the task is enqueued for the patch lane.
Ready ==
  /\ pc = "ready"
  /\ \E removed \in BOOLEAN : labels' = IF removed THEN labels \ {"answer"} ELSE labels
  /\ LaneEnds
  /\ UNCHANGED <<configured, open, title, replies, pulls, rows, hist>>

----------------------------------------------------------------------------
(* The patch lanes *)

\* What the agent leaves behind: edits that it did not commit, and what its commits, with
\* those edits when the lane commits them, add up to.
Worktrees ==
  {tree \in [edits : {"none", "allowed", "protected"}, commits : BOOLEAN,
             diff : {"within", "large", "protected"}] :
     ~tree.commits /\ tree.edits = "none" => tree.diff = "within"}

\* More lines than max_diff_lines, or a file under protected_paths.
checkGuardrails(tree) == tree.diff \in {"large", "protected"}

Outcome(tree) ==
  CASE tree.edits # "none" -> "dirty"
    [] tree.edits = "none" /\ ~tree.commits -> "no_changes"
    [] tree.edits = "none" /\ tree.commits /\ checkGuardrails(tree) -> "guardrail_blocked"
    [] OTHER -> "commits"

\* Lane patch commits edits that touch no protected path itself, as far as git lets;
\* patch_multi rejects them.
Committed(tree) ==
  IF configured = "patch" /\ tree.edits = "allowed"
    THEN {tree, [tree EXCEPT !.edits = "none", !.commits = TRUE]}
    ELSE {tree}

\* What the run of the agent comes to.
AgentLeaves(outcome) ==
  \E tree \in Worktrees : \E after \in Committed(tree) : Outcome(after) = outcome

\* The agent is done and wants a human.  The in-progress label, set before, goes.
Parks ==
  /\ pc = "agent"
  /\ status' \in {s \in {"dirty", "no_changes", "guardrail_blocked"} : AgentLeaves(s)}
  /\ Goes("park")
  /\ UNCHANGED <<configured, forge, rows, awaits, branch, hist>>

PatchParks == configured = "patch" /\ Parks

MultiParks == configured = "patch_multi" /\ Parks

\* recordPrBranch and recordTaskDecision.
RecordPark ==
  /\ pc = "park"
  /\ table' = recordPrBranch(table, Task, branch, NoPr, status, Now)
  /\ decision' = [state |-> "patch", asked |-> 0]
  /\ park' = status
  /\ LaneEnds
  /\ UNCHANGED <<configured, forge,
                 mayAsk, heard, orphans, released, crashes>>

\* Committed within the guardrails: what follows is the push, forced if the branch exists.
Commits ==
  /\ pc = "agent" /\ AgentLeaves("commits")
  /\ Goes("create")
  /\ UNCHANGED <<configured, forge, rows, awaits, branch, status, hist>>

PatchCommits == configured = "patch" /\ Commits

MultiCommits == configured = "patch_multi" /\ Commits

\* Open requests of a branch: the forge refuses another one.
OpenOn(b) == {p \in DOMAIN pulls : pulls[p].branch = b /\ pulls[p].state = "open"}

\* pulls.create
CreatePull ==
  /\ pc = "create" /\ OpenOn(branch) = {} /\ Len(pulls) < MaxPulls
  /\ pulls' = Append(pulls, [branch |-> branch, state |-> "open"])
  /\ Goes("record")
  /\ UNCHANGED <<configured, issue, rows, awaits, branch, status, hist>>

\* (mutant) The row is written without the number.
RecordPullBare ==
  /\ pc = "record"
  /\ table' = recordPrBranch(table, Task, branch, NoPr, "open", Now)
  /\ decision' = [state |-> "patch", asked |-> 0]
  /\ park' = "none"
  /\ Goes("clear")
  /\ UNCHANGED <<configured, forge, awaits, branch, status,
                 mayAsk, heard, orphans, released, crashes>>

RecordPull ==
  /\ pc = "record"
  /\ table' = recordPrBranch(table, Task, branch, Len(pulls), "open", Now)
  /\ decision' = [state |-> "patch", asked |-> 0]
  /\ park' = "none"
  /\ Goes("clear")
  /\ UNCHANGED <<configured, forge, awaits, branch, status,
                 mayAsk, heard, orphans, released, crashes>>

\* The labels that go with the request.
PatchClears == Labels
MultiClears == {"trigger"}

\* Each as far as the forge lets.
ClearLabels ==
  /\ pc = "clear"
  /\ \E gone \in SUBSET (IF configured = "patch" THEN PatchClears ELSE MultiClears) :
       labels' = labels \ gone
  /\ LaneEnds
  /\ UNCHANGED <<configured, open, title, replies, pulls, rows, hist>>

\* An await throws: clone, engine, push, or the creation, which the forge may have done all
\* the same ("record").  The row of the branch loses its request, if it had one.
PatchFails ==
  /\ pc \in {"agent", "create", "record"}
  /\ table' = recordPrBranch(table, Task, branch, NoPr, "error", Now)
  /\ orphans' = IF pc = "record" THEN orphans \cup {Len(pulls)} ELSE orphans
  /\ park' = "error"
  /\ LaneEnds
  /\ UNCHANGED <<configured, forge, decision,
                 mayAsk, heard, released, crashes>>

\* The process dies; the next boot puts the task back.
Crash ==
  /\ pc # "idle" /\ crashes < MaxCrashes
  /\ crashes' = crashes + 1
  /\ orphans' = IF pc = "record" THEN orphans \cup {Len(pulls)} ELSE orphans
  /\ LaneEnds
  /\ UNCHANGED <<configured, forge, rows,
                 park, mayAsk, heard, released>>

World == Reply \/ Relabel \/ Retitle \/ PullEnds \/ Reopen \/ RetryButton
Loop  == PlanTask \/ PollPulls \/ Dialog
LaneStep ==
  \/ Start \/ LaneFails \/ TriageDone
  \/ ReadReplies \/ ListingFails \/ Verdict \/ Ask \/ Ready
  \/ PatchParks \/ MultiParks \/ RecordPark \/ PatchCommits \/ MultiCommits
  \/ CreatePull \/ RecordPull \/ ClearLabels \/ PatchFails

Next == World \/ Loop \/ LaneStep \/ Crash

Spec == Init /\ [][Next]_vars

\* The task comes due again and again (its cadence), a lane goes on (its awaits have timeouts),
\* and the listing of comments, tried for ever, succeeds.
FairSpec ==
  /\ Spec
  /\ WF_vars(LaneStep) /\ SF_vars(ReadReplies)

----------------------------------------------------------------------------
\* A park that only a human may lift holds: no lane is engaged for the issue until the label
\* was taken off or Retry pressed, whatever comments, edits and echoes come in.
ParkHolds ==
  [][(pc = "idle" /\ pc' \in {"agent", "feedback"}) => park \notin TERMINAL_BRANCH_STATUSES]_vars

\* Questions are not asked again before somebody has answered the last ones: a reply came after
\* them; or the label that stands for them is missing; or the analyst wanted a clarification and
\* had no question, and somebody had written a comment, however long ago.
AsksOnce ==
  [][pc = "ask" /\ pc' = "idle" /\ crashes' = crashes => mayAsk]_vars

\* An answer is heard: once questions are out, a reply newer than the verdict gets into a
\* prompt of the analyst, as long as the issue stays open and triggered; unless another verdict
\* comes first that was found without it: the analyst was already at work when the reply came,
\* or the label was missing and the listing of the comments failed.
Unheard == /\ open /\ "trigger" \in labels /\ Analyze /\ ~Parked
           /\ decision.state = "asks" /\ heard < replies /\ replies > decision.asked
AnswersAreHeard == []<>~Unheard

\* The service does not forget a request it opened: its row keeps the number, unless the
\* creation was not recorded, or the row was cancelled as blocked.
PullsWatched ==
  \A p \in DOMAIN pulls :
    \/ pulls[p].state = "closed" \/ p \in orphans \cup released
    \/ p = Len(pulls) /\ pc = "record"
    \/ \E i \in DOMAIN table : table[i].pr = p

\* No agent is set to work on the issue while a request for it is open that the service knows.
OneAtATime ==
  [][pc = "idle" /\ pc' = "agent" =>
       \A p \in DOMAIN pulls : pulls[p].state = "open" => p \in orphans \cup released]_vars
=============================================================================
