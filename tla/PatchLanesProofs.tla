-------------------------- MODULE PatchLanesProofs --------------------------
(***************************************************************************)
(* What holds of an issue on its way to a pull request, for any number of  *)
(* titles, replies, requests and crashes: that no open request is          *)
(* forgotten, that at most one is worked for, that a park holds, and that  *)
(* questions are asked once.                                               *)
(***************************************************************************)
EXTENDS PatchLanes, FiniteSetTheorems, TLAPS

Branch == [title : Nat, round : Nat]

Row == [task : {Task}, branch : Branch, pr : Nat, status : BranchStatuses,
        iterations : Nat, conflicts : Nat, seen : Nat]

Pull == [branch : Branch, state : {"open", "closed"}]

Typed ==
  /\ configured \in {"patch", "patch_multi"}
  /\ labels \subseteq Labels /\ open \in BOOLEAN
  /\ title \in Nat /\ replies \in Nat
  /\ pulls \in Seq(Pull) /\ table \in Seq(Row)
  /\ decision \in [state : {"none", "asks", "ready", "patch", "review"}, asked : Nat]
  /\ pc \in Turns /\ awaits \in BOOLEAN
  /\ branch \in Branch /\ status \in BranchStatuses
  /\ mayAsk \in BOOLEAN

\* A branch comes no later than another: neither its title nor its round does.
Before(b, c) == b.title <= c.title /\ b.round <= c.round

Closed == {i \in DOMAIN table : table[i].status = "closed"}

\* The turns of a patch lane before it writes its row.
Patching == {"agent", "park", "create", "record"}

\* The rows are in the order of their branches, with one row each.
InOrder ==
  /\ \A i, j \in 1 .. Len(table) : i <= j => Before(table[i].branch, table[j].branch)
  /\ \A i, j \in 1 .. Len(table) : table[i].branch = table[j].branch => i = j
  /\ \A i \in 1 .. Len(table) : table[i].branch.title <= title

\* A round is begun when the rounds before it are closed, and in lane patch only.
Rounds ==
  /\ table # <<>> => table[Len(table)].branch.round <= Cardinality(Closed \ {Len(table)}) + 1
  /\ configured = "patch_multi" => \A i \in 1 .. Len(table) : table[i].branch.round = 1

\* So the branch of a patch lane is that of the newest row or one of its own.
LaneBranch ==
  pc \in Patching =>
    /\ branch.title <= title
    /\ \A i \in 1 .. Len(table) : Before(table[i].branch, branch)
    /\ branch.round <= Cardinality({i \in Closed : table[i].branch # branch}) + 1
    /\ configured = "patch_multi" => branch.round = 1

\* What the status of a row tells of its request.
RowTells ==
  \A i \in 1 .. Len(table) : table[i].pr # NoPr =>
    /\ table[i].pr <= Len(pulls)
    /\ table[i].status \in {"open", "needs_human", "guardrail_blocked", "cancelled", "closed"}
    /\ table[i].status = "closed" => pulls[table[i].pr].state = "closed"
    /\ table[i].status = "cancelled" => table[i].pr \in released

\* A request that the service should know of.
Known(p) == pulls[p].state = "open" /\ p \notin orphans \cup released

\* A patch lane is at work only without one, but for that it has just opened; else its row is the newest.
KnownFits ==
  /\ pc \in {"agent", "park", "create"} => \A p \in 1 .. Len(pulls) : ~Known(p)
  /\ pc = "record" => /\ \A p \in 1 .. Len(pulls) : Known(p) => p = Len(pulls)
                      /\ \A i \in 1 .. Len(table) : table[i].pr # Len(pulls)
  /\ \A i \in 1 .. Len(table) : table[i].pr # NoPr /\ Known(table[i].pr) => i = Len(table)

\* A park that waits for a human is the status of the newest row, which no request stands behind.
ParkFits ==
  park \in TERMINAL_BRANCH_STATUSES =>
    table # <<>> /\ table[Len(table)].status = park /\ table[Len(table)].pr = NoPr

\* While questions may not be asked the label and the decision say why, and no analyst is at work.
AskFits ==
  /\ pc \in {"feedback", "analyst", "ask", "ready"} => Analyze
  /\ pc = "ask" => decision.state = "asks"
  /\ ~mayAsk =>
       /\ Analyze /\ Labels \subseteq labels
       /\ decision.state = "asks" /\ replies <= decision.asked
       /\ pc \in {"idle", "feedback"} /\ (pc = "feedback" => awaits)

-----------------------------------------------------------------------------
(* The statements on the table *)

LEMMA Rows ==
  ASSUME NEW t \in Seq(Row)
  PROVE  Len(t) \in Nat /\ DOMAIN t = 1 .. Len(t) /\ \A i \in 1 .. Len(t) : t[i] \in Row
OBVIOUS

LEMMA Columns ==
  ASSUME NEW r \in Row
  PROVE  /\ r.task = Task /\ r.branch \in Branch /\ r.pr \in Nat /\ r.status \in BranchStatuses
         /\ r.branch.title \in Nat /\ r.branch.round \in Nat
BY DEF Row, Branch

\* Rows of the same branches and requests, of which those that were closed still are.
Touched(u, t) ==
  /\ u \in Seq(Row) /\ Len(u) = Len(t)
  /\ \A i \in 1 .. Len(t) :
       /\ u[i].branch = t[i].branch /\ u[i].pr = t[i].pr
       /\ t[i].status = "closed" => u[i].status = "closed"

LEMMA SetStatusTouches ==
  ASSUME NEW t \in Seq(Row), NEW i \in 1 .. Len(t), NEW s \in BranchStatuses,
         t[i].status = "closed" => s = "closed"
  PROVE  LET u == SetStatus(t, i, s, Now) IN
         /\ Touched(u, t) /\ u[i].status = s
         /\ \A j \in 1 .. Len(t) : j # i => u[j] = t[j]
<1> DEFINE u == SetStatus(t, i, s, Now)
           r == [t[i] EXCEPT !.status = s, !.seen = Now]
<1>1. Len(t) \in Nat /\ DOMAIN t = 1 .. Len(t) /\ \A j \in 1 .. Len(t) : t[j] \in Row
  BY Rows
<1>2. r \in Row /\ r.branch = t[i].branch /\ r.pr = t[i].pr /\ r.status = s
  BY <1>1 DEF Row, Now
<1>3. u = [j \in 1 .. Len(t) |-> IF j = i THEN r ELSE t[j]]
  BY <1>1 DEF SetStatus
<1> HIDE DEF r, u
<1>4. \A j \in 1 .. Len(t) : u[j] = IF j = i THEN r ELSE t[j]
  BY <1>3
<1>5. u \in Seq(Row) /\ Len(u) = Len(t)
  BY <1>1, <1>2, <1>3
<1>6. \A j \in 1 .. Len(t) : /\ u[j].branch = t[j].branch /\ u[j].pr = t[j].pr
                             /\ t[j].status = "closed" => u[j].status = "closed"
  BY <1>2, <1>4
<1>7. Touched(u, t)
  BY <1>5, <1>6 DEF Touched
<1> QED BY <1>2, <1>4, <1>7 DEF u

LEMMA CancelTouches ==
  ASSUME NEW t \in Seq(Row), NEW statuses, "closed" \notin statuses
  PROVE  LET u == CancelRows(t, Task, statuses, Now) IN
         /\ Touched(u, t)
         /\ \A j \in 1 .. Len(t) :
              IF t[j].status \in statuses THEN u[j].status = "cancelled" ELSE u[j] = t[j]
<1> DEFINE u == CancelRows(t, Task, statuses, Now)
           r(j) == [t[j] EXCEPT !.status = "cancelled", !.seen = Now]
<1>1. Len(t) \in Nat /\ DOMAIN t = 1 .. Len(t) /\ \A j \in 1 .. Len(t) : t[j] \in Row /\ t[j].task = Task
  BY Rows, Columns
<1>2. \A j \in 1 .. Len(t) :
        r(j) \in Row /\ r(j).branch = t[j].branch /\ r(j).pr = t[j].pr /\ r(j).status = "cancelled"
  BY <1>1 DEF Row, Now, BranchStatuses
<1>3. u = [j \in 1 .. Len(t) |-> IF t[j].status \in statuses THEN r(j) ELSE t[j]]
  BY <1>1 DEF CancelRows
<1> HIDE DEF r, u
<1>4. \A j \in 1 .. Len(t) : u[j] = IF t[j].status \in statuses THEN r(j) ELSE t[j]
  BY <1>3
<1>5. \A j \in 1 .. Len(t) :
        IF t[j].status \in statuses THEN u[j].status = "cancelled" ELSE u[j] = t[j]
  BY <1>2, <1>4
<1>6. u \in Seq(Row) /\ Len(u) = Len(t)
  <2>1. \A j \in 1 .. Len(t) : (IF t[j].status \in statuses THEN r(j) ELSE t[j]) \in Row
    BY <1>1, <1>2
  <2> QED BY <1>1, <1>3, <2>1
<1>7. \A j \in 1 .. Len(t) : /\ u[j].branch = t[j].branch /\ u[j].pr = t[j].pr
                             /\ t[j].status = "closed" => u[j].status = "closed"
  BY <1>2, <1>4
<1>8. Touched(u, t)
  BY <1>6, <1>7 DEF Touched
<1> QED BY <1>5, <1>8 DEF u

LEMMA Appended ==
  ASSUME NEW S, NEW s \in Seq(S), NEW e \in S
  PROVE  /\ Append(s, e) \in Seq(S)
         /\ Len(Append(s, e)) = Len(s) + 1
         /\ \A i \in 1 .. Len(s) : Append(s, e)[i] = s[i]
         /\ Append(s, e)[Len(s) + 1] = e
OBVIOUS

\* Row k is written for branch b, the last one of the table or a new one.
WrittenAt(u, t, k, b, number, s) ==
  /\ u \in Seq(Row) /\ Len(u) = k /\ k \in 1 .. Len(u)
  /\ k = Len(t) \/ k = Len(t) + 1
  /\ k = Len(t) => t[k].branch = b
  /\ k = Len(t) + 1 => \A i \in 1 .. Len(t) : t[i].branch # b
  /\ u[k].branch = b /\ u[k].pr = number /\ u[k].status = s
  /\ \A i \in 1 .. Len(u) : i # k => i \in 1 .. Len(t) /\ u[i] = t[i]

LEMMA RecordWrites ==
  ASSUME NEW t \in Seq(Row), NEW b \in Branch, NEW number \in Nat, NEW s \in BranchStatuses,
         \A i \in 1 .. Len(t) : t[i].branch = b => i = Len(t)
  PROVE  LET u == recordPrBranch(t, Task, b, number, s, Now) IN WrittenAt(u, t, Len(u), b, number, s)
<1> DEFINE u == recordPrBranch(t, Task, b, number, s, Now)
           n == Len(t)
           r(j) == [t[j] EXCEPT !.pr = number, !.status = s, !.seen = Now]
           new == BranchRow(Task, b, number, s, Now)
<1>0. Len(t) \in Nat
  BY Rows
<1>1. DOMAIN t = 1 .. n /\ \A j \in 1 .. n : t[j] \in Row /\ t[j].task = Task
  BY Rows, Columns
<1>2. \A j \in 1 .. n : r(j) \in Row /\ r(j).branch = t[j].branch /\ r(j).pr = number /\ r(j).status = s
  BY <1>1 DEF Row, Now
<1>3. new \in Row /\ new.branch = b /\ new.pr = number /\ new.status = s
  BY DEF BranchRow, Row, Now
<1>4. u = IF \E j \in 1 .. n : t[j].branch = b
            THEN [j \in 1 .. n |-> IF t[j].branch = b THEN r(j) ELSE t[j]]
            ELSE Append(t, new)
  BY <1>1 DEF recordPrBranch
<1> HIDE DEF r, u, new
<1>5. CASE \E j \in 1 .. n : t[j].branch = b
  <2>1. n \in 1 .. n /\ t[n].branch = b
    BY <1>5
  <2>2. u = [j \in 1 .. n |-> IF t[j].branch = b THEN r(j) ELSE t[j]]
    BY <1>4, <1>5
  <2>3. u \in Seq(Row) /\ Len(u) = n
    <3>1. \A j \in 1 .. n : u[j] \in Row
      BY <1>1, <1>2, <2>2
    <3>2. u = [j \in 1 .. Len(t) |-> u[j]]
      BY <2>2
    <3> QED BY <1>0, <3>1, <3>2
  <2>4. \A j \in 1 .. n : u[j] = IF t[j].branch = b THEN r(j) ELSE t[j]
    BY <2>2
  <2>5. u[n].branch = b /\ u[n].pr = number /\ u[n].status = s
    BY <1>2, <2>1, <2>4
  <2>6. \A j \in 1 .. n : j # n => u[j] = t[j]
    BY <2>4
  <2>7. n # n + 1
    BY <1>0
  <2>8. WrittenAt(u, t, Len(u), b, number, s)
    BY <2>1, <2>3, <2>5, <2>6, <2>7 DEF WrittenAt
  <2> QED BY <2>8 DEF u
<1>6. CASE ~\E j \in 1 .. n : t[j].branch = b
  <2>1. u = Append(t, new)
    BY <1>4, <1>6
  <2>2. u \in Seq(Row) /\ Len(u) = n + 1 /\ u[n + 1] = new /\ \A i \in 1 .. n : u[i] = t[i]
    BY <1>3, <2>1, Appended
  <2>3. \A i \in 1 .. n + 1 : i # n + 1 => i \in 1 .. n
    BY <1>0
  <2>4. n + 1 # n /\ n + 1 \in 1 .. n + 1
    BY <1>0
  <2>5. WrittenAt(u, t, Len(u), b, number, s)
    BY <1>3, <1>6, <2>2, <2>3, <2>4 DEF WrittenAt
  <2> QED BY <2>5 DEF u
<1> QED BY <1>5, <1>6

-----------------------------------------------------------------------------
(* The table along a behaviour *)

Recording == RecordPark \/ RecordPull \/ PatchFails

\* Row i is touched by the loop or the webhook only if it is of a request or in one of the statuses they lift.
LEMMA TouchStep ==
  ASSUME Typed, RowTells, [Next]_vars, ~Recording
  PROVE  Touched(table', table)
<1>0. table \in Seq(Row) /\ Len(table) \in Nat /\ DOMAIN table = 1 .. Len(table)
  BY Rows DEF Typed
<1>1. CASE table' = table
  BY <1>0, <1>1 DEF Touched
<1>2. CASE Reply \/ RetryButton \/ PlanTask
  <2>1. PICK statuses \in {{"error", "dirty"}, {"guardrail_blocked"}} :
          table' = table \/ table' = CancelRows(table, Task, statuses, Now)
    BY <1>2 DEF Reply, Hook, liftTransientPark, RetryButton, PlanTask, Release, CancelBlocked
  <2>2. "closed" \notin statuses
    OBVIOUS
  <2> QED BY <1>0, <1>1, <2>1, <2>2, CancelTouches
<1>3. CASE PollPulls \/ Dialog
  <2>1. PICK i \in 1 .. Len(table), s \in {"closed", "open", "needs_human", "guardrail_blocked"} :
          table[i].status # "closed" /\ table' = SetStatus(table, i, s, Now)
    BY <1>0, <1>3 DEF PollPulls, Dialog
  <2>2. s \in BranchStatuses
    BY DEF BranchStatuses
  <2> QED BY <1>0, <2>1, <2>2, SetStatusTouches
<1>4. CASE ~(Reply \/ RetryButton \/ PlanTask \/ PollPulls \/ Dialog)
  <2>1. table' = table
    BY <1>4 DEF Next, vars, rows, Recording, World, Loop, LaneStep, Relabel, Retitle, PullEnds, Reopen,
             Start, LaneFails, TriageDone, ReadReplies, ListingFails, Verdict, Ask, Ready, PatchParks, MultiParks, Parks,
             PatchCommits, MultiCommits, Commits, CreatePull, ClearLabels, Crash
  <2> QED BY <1>1, <2>1
<1> QED BY <1>2, <1>3, <1>4

\* A patch lane writes the newest row: for its branch there is no other.
LEMMA OwnRow ==
  ASSUME Typed, InOrder, LaneBranch, pc \in Patching, NEW i \in 1 .. Len(table), table[i].branch = branch
  PROVE  i = Len(table)
<1> DEFINE n == Len(table)
<1>1. n \in Nat /\ n \in 1 .. n /\ i <= n /\ \A j \in 1 .. n : table[j].branch \in Branch
  BY Rows, Columns DEF Typed
<1>2. Before(table[i].branch, table[n].branch) /\ Before(table[n].branch, branch)
  BY <1>1 DEF InOrder, LaneBranch
<1>3. table[n].branch = branch
  <2>1. branch \in Branch /\ table[n].branch \in Branch
    BY <1>1 DEF Typed
  <2>2. table[n].branch.title = branch.title /\ table[n].branch.round = branch.round
    BY <1>2, <2>1 DEF Before, Branch
  <2> QED BY <2>1, <2>2 DEF Branch
<1> QED BY <1>1, <1>3 DEF InOrder

LEMMA WriteStep ==
  ASSUME Typed, InOrder, LaneBranch, Recording
  PROVE  /\ pc \in Patching /\ pc' \notin Patching /\ UNCHANGED <<configured, forge>>
         /\ \E number \in Nat, s \in BranchStatuses :
              /\ WrittenAt(table', table, Len(table'), branch, number, s)
              /\ \/ RecordPark /\ number = NoPr /\ s = status
                 \/ RecordPull /\ number = Len(pulls) /\ s = "open"
                 \/ PatchFails /\ number = NoPr /\ s = "error"
<1>0. table \in Seq(Row) /\ branch \in Branch /\ status \in BranchStatuses /\ Len(pulls) \in Nat
      /\ NoPr \in Nat /\ {"open", "error"} \subseteq BranchStatuses
  BY DEF Typed, NoPr, BranchStatuses
<1>1. pc \in Patching /\ pc' \notin Patching /\ UNCHANGED <<configured, forge>>
  BY DEF Recording, RecordPark, RecordPull, PatchFails, Patching, LaneEnds, Goes
<1>2. \A i \in 1 .. Len(table) : table[i].branch = branch => i = Len(table)
  BY <1>1, OwnRow
<1>3. CASE RecordPark
  BY <1>0, <1>1, <1>2, <1>3, RecordWrites DEF RecordPark
<1>4. CASE RecordPull
  BY <1>0, <1>1, <1>2, <1>4, RecordWrites DEF RecordPull
<1>5. CASE PatchFails
  BY <1>0, <1>1, <1>2, <1>5, RecordWrites DEF PatchFails
<1> QED BY <1>3, <1>4, <1>5 DEF Recording

-----------------------------------------------------------------------------
(* The types *)

LEMMA InitTyped == Init => Typed
<1> SUFFICES ASSUME Init PROVE Typed
  OBVIOUS
<1>1. configured \in {"patch", "patch_multi"}
  BY PatchLanesConstants DEF Init
<1>2. branch \in Branch
  BY DEF Init, NoBranch, Branch
<1>3. decision \in [state : {"none", "asks", "ready", "patch", "review"}, asked : Nat]
  BY DEF Init, Undecided
<1>4. pulls \in Seq(Pull) /\ table \in Seq(Row)
  BY DEF Init
<1>5. /\ labels \subseteq Labels /\ open \in BOOLEAN /\ title \in Nat /\ replies \in Nat
      /\ pc \in Turns /\ awaits \in BOOLEAN /\ status \in BranchStatuses /\ mayAsk \in BOOLEAN
  BY DEF Init, Labels, Turns, BranchStatuses
<1> QED BY <1>1, <1>2, <1>3, <1>4, <1>5 DEF Typed

LEMMA Ending == LaneEnds => pc' \in Turns /\ awaits' \in BOOLEAN /\ branch' \in Branch /\ status' \in BranchStatuses
<1>1. NoBranch \in Branch
  BY DEF NoBranch, Branch
<1> QED BY <1>1 DEF LaneEnds, Turns, BranchStatuses

LEMMA ClosedFinite ==
  ASSUME Typed
  PROVE  /\ IsFiniteSet(Closed) /\ Cardinality(Closed) \in Nat /\ Closed \subseteq 1 .. Len(table)
<1>1. Len(table) \in Nat /\ DOMAIN table = 1 .. Len(table)
  BY Rows DEF Typed
<1>2. IsFiniteSet(1 .. Len(table)) /\ Closed \subseteq 1 .. Len(table)
  BY <1>1, FS_Interval DEF Closed
<1>3. IsFiniteSet(Closed)
  BY <1>2, FS_Subset
<1> QED BY <1>2, <1>3, FS_CardinalityType

\* The number of a smaller set of closed rows.
LEMMA Fewer ==
  ASSUME NEW S, IsFiniteSet(S), NEW T, T \subseteq S
  PROVE  IsFiniteSet(T) /\ Cardinality(T) \in Nat /\ Cardinality(S) \in Nat /\ Cardinality(T) <= Cardinality(S)
BY FS_Subset, FS_CardinalityType

\* A lane that starts either ends at once, goes to another lane, or to the agent with a branch.
LEMMA StartFacts ==
  ASSUME Typed, Start
  PROVE  /\ pc = "idle" /\ UNCHANGED <<configured, forge, rows, hist>>
         /\ \/ LaneEnds
            \/ /\ pc' = "triage" /\ awaits' = ("answer" \in labels) /\ UNCHANGED <<branch, status>>
               /\ open /\ "trigger" \notin labels
            \/ /\ pc' = "feedback" /\ awaits' = ("answer" \in labels) /\ UNCHANGED <<branch, status>>
               /\ "trigger" \in labels /\ ~Parked /\ Analyze
            \/ /\ pc' = "agent" /\ awaits' = ("answer" \in labels) /\ status' = status
               /\ "trigger" \in labels /\ ~Parked /\ ActiveRow(table, Task) = 0
               /\ ~Analyze \/ decision.state = "ready"
               /\ branch' = IF configured = "patch" THEN PatchBranch ELSE MultiBranch
<1>1. pc = "idle" /\ UNCHANGED <<configured, forge, rows, hist>>
  BY DEF Start
<1> DEFINE hasTrigger == "trigger" \in labels
           ends == ~open \/ (hasTrigger /\ Parked) \/ (~hasTrigger /\ ~Triage)
           triages == open /\ ~hasTrigger /\ Triage
           analyzes == open /\ hasTrigger /\ ~Parked /\ Analyze /\ decision.state # "ready"
<1>2. /\ open \in BOOLEAN /\ Triage \in BOOLEAN /\ Analyze \in BOOLEAN
  BY PatchLanesConstants DEF Typed
<1>3. CASE ends
  BY <1>1, <1>3 DEF Start
<1>4. CASE triages
  BY <1>1, <1>4 DEF Start, Goes
<1>5. CASE analyzes
  BY <1>1, <1>5 DEF Start, Goes
<1>6. CASE ~ends /\ ~triages /\ ~analyzes
  <2>1. StartPatch
    BY <1>6 DEF Start
  <2>2. hasTrigger /\ ~Parked /\ (~Analyze \/ decision.state = "ready")
    BY <1>2, <1>6
  <2> QED BY <1>1, <2>1, <2>2 DEF StartPatch, Goes
<1> QED BY <1>3, <1>4, <1>5, <1>6

LEMMA BranchStep ==
  ASSUME Typed, [Next]_vars
  PROVE  branch' \in Branch
<1>1. CASE branch' = branch \/ LaneEnds
  BY <1>1, Ending DEF Typed
<1>2. CASE Start
  <2>1. CASE branch' = branch \/ LaneEnds
    BY <2>1, <1>1
  <2>2. CASE branch' = PatchBranch
    <3>1. PatchBranch = [title |-> title, round |-> Cardinality(Closed) + 1]
      BY DEF PatchBranch, Closed
    <3> QED BY <2>2, <3>1, ClosedFinite DEF Typed, Branch
  <2>3. CASE branch' = MultiBranch
    BY <2>3 DEF MultiBranch, Branch, Typed
  <2> QED BY <1>2, <2>1, <2>2, <2>3, StartFacts
<1>3. CASE ~Start
  <2>1. branch' = branch \/ LaneEnds
    BY <1>3 DEF Next, vars, work, World, Loop, LaneStep, Reply, Relabel, Retitle, PullEnds, Reopen, RetryButton,
             PlanTask, PollPulls, Dialog, LaneFails, TriageDone, ReadReplies, ListingFails, Verdict, Ask, Ready, PatchParks,
             MultiParks, Parks, RecordPark, PatchCommits, MultiCommits, Commits, CreatePull, RecordPull, ClearLabels,
             PatchFails, Crash
  <2> QED BY <1>1, <2>1
<1> QED BY <1>2, <1>3

LEMMA PullsStep ==
  ASSUME Typed, [Next]_vars
  PROVE  /\ pulls' \in Seq(Pull) /\ Len(pulls) \in Nat
         /\ \/ /\ CreatePull /\ Len(pulls') = Len(pulls) + 1
               /\ \A p \in 1 .. Len(pulls) : pulls'[p] = pulls[p]
            \/ /\ ~CreatePull /\ Len(pulls') = Len(pulls)
               /\ \A p \in 1 .. Len(pulls) : pulls'[p].state = "open" => pulls[p].state = "open"
<1>0. pulls \in Seq(Pull) /\ Len(pulls) \in Nat /\ DOMAIN pulls = 1 .. Len(pulls) /\ branch \in Branch
  BY DEF Typed
<1>1. CASE CreatePull
  <2> DEFINE new == [branch |-> branch, state |-> "open"]
  <2>1. new \in Pull /\ pulls' = Append(pulls, new)
    BY <1>0, <1>1 DEF CreatePull, Pull
  <2> HIDE DEF new
  <2> QED BY <1>0, <1>1, <2>1, Appended
<1>2. CASE PullEnds /\ ~CreatePull
  <2>1. PICK p \in 1 .. Len(pulls) : pulls' = [pulls EXCEPT ![p].state = "closed"]
    BY <1>0, <1>2 DEF PullEnds
  <2> DEFINE r == [pulls[p] EXCEPT !.state = "closed"]
  <2>2. pulls[p] \in Pull
    BY <1>0
  <2>3. r \in Pull /\ r.state = "closed"
    BY <2>2 DEF Pull
  <2>4. pulls' = [q \in 1 .. Len(pulls) |-> IF q = p THEN r ELSE pulls[q]]
    BY <1>0, <2>1
  <2> HIDE DEF r
  <2>5. \A q \in 1 .. Len(pulls) : pulls'[q] = IF q = p THEN r ELSE pulls[q]
    BY <2>4
  <2>6. \A q \in 1 .. Len(pulls) : pulls'[q] \in Pull
    BY <1>0, <2>3, <2>5
  <2>7. pulls' = [q \in 1 .. Len(pulls) |-> pulls'[q]]
    BY <2>4
  <2>8. pulls' \in Seq(Pull) /\ Len(pulls') = Len(pulls)
    BY <1>0, <2>6, <2>7
  <2> QED BY <1>0, <1>2, <2>3, <2>5, <2>8
<1>3. CASE ~PullEnds /\ ~CreatePull
  <2>1. pulls' = pulls
    BY <1>3 DEF Next, vars, forge, World, Loop, LaneStep, Reply, Relabel, Retitle, Reopen, RetryButton,
             PlanTask, PollPulls, Dialog, Start, LaneFails, TriageDone, ReadReplies, ListingFails, Verdict, Ask, Ready, PatchParks,
             MultiParks, Parks, RecordPark, PatchCommits, MultiCommits, Commits, RecordPull, ClearLabels,
             PatchFails, Crash
  <2> QED BY <1>0, <1>3, <2>1
<1> QED BY <1>1, <1>2, <1>3

\* The columns of the state that only a few actions touch.
LEMMA ScalarsStep ==
  ASSUME Typed, [Next]_vars
  PROVE  /\ configured' = configured /\ labels' \subseteq Labels /\ open' \in BOOLEAN
         /\ title' \in Nat /\ title <= title' /\ replies' \in Nat /\ mayAsk' \in BOOLEAN
<1>0. /\ labels \subseteq Labels /\ open \in BOOLEAN /\ title \in Nat /\ replies \in Nat /\ mayAsk \in BOOLEAN
      /\ "trigger" \in Labels /\ "answer" \in Labels
  BY DEF Typed, Labels
<1>1. configured' = configured
  BY DEF Next, vars, World, Loop, LaneStep, Reply, Relabel, Retitle, PullEnds, Reopen, RetryButton,
         PlanTask, PollPulls, Dialog, Start, LaneFails, TriageDone, ReadReplies, ListingFails, Verdict, Ask, Ready, PatchParks,
         MultiParks, Parks, RecordPark, PatchCommits, MultiCommits, Commits, CreatePull, RecordPull, ClearLabels,
         PatchFails, Crash
<1>2. labels' \subseteq labels \cup {"trigger", "answer"}
  BY DEF Next, vars, forge, issue, World, Loop, LaneStep, Reply, Relabel, Retitle, PullEnds, Reopen, RetryButton,
         PlanTask, PollPulls, Dialog, Start, LaneFails, TriageDone, ReadReplies, ListingFails, Verdict, Ask, Ready, PatchParks,
         MultiParks, Parks, RecordPark, PatchCommits, MultiCommits, Commits, CreatePull, RecordPull, ClearLabels,
         PatchFails, Crash
<1>3. /\ open' \in {open, TRUE, FALSE} /\ title' \in {title, title + 1} /\ replies' \in {replies, replies + 1}
  BY <1>0 DEF Next, vars, forge, issue, World, Loop, LaneStep, Reply, Relabel, Retitle, PullEnds, Reopen,
     RetryButton,
         PlanTask, PollPulls, Dialog, Start, LaneFails, TriageDone, ReadReplies, ListingFails, Verdict, Ask, Ready, PatchParks,
         MultiParks, Parks, RecordPark, PatchCommits, MultiCommits, Commits, CreatePull, RecordPull, ClearLabels,
         PatchFails, Crash
<1>4. mayAsk' \in BOOLEAN
  BY <1>0 DEF Next, vars, hist, World, Loop, LaneStep, Reply, Relabel, Retitle, PullEnds, Reopen, RetryButton,
         PlanTask, PollPulls, Dialog, Start, LaneFails, TriageDone, ReadReplies, ListingFails, Verdict, Ask, Ready, PatchParks,
         MultiParks, Parks, RecordPark, PatchCommits, MultiCommits, Commits, CreatePull, RecordPull, ClearLabels,
         PatchFails, Crash
<1>5. title' \in Nat /\ title <= title' /\ replies' \in Nat
  BY <1>0, <1>3
<1>6. labels' \subseteq Labels
  BY <1>0, <1>2
<1>7. open' \in BOOLEAN
  BY <1>0, <1>3
<1> QED BY <1>1, <1>4, <1>5, <1>6, <1>7

\* The turn, and what the lane carries through it.
LEMMA WorkStep ==
  ASSUME Typed, [Next]_vars
  PROVE  pc' \in Turns /\ awaits' \in BOOLEAN /\ status' \in BranchStatuses
<1>0. pc \in Turns /\ awaits \in BOOLEAN /\ status \in BranchStatuses
  BY DEF Typed
<1>1. CASE LaneEnds
  BY <1>1, Ending
<1>2. CASE Start
  <2>1. \/ pc' \in {"triage", "feedback", "agent"} /\ status' = status /\ awaits' = ("answer" \in labels)
        \/ LaneEnds
    BY <1>2, StartFacts
  <2>2. CASE pc' \in {"triage", "feedback", "agent"} /\ status' = status /\ awaits' = ("answer" \in labels)
    <3>1. awaits' \in BOOLEAN
      BY <2>2
    <3>2. pc' \in Turns /\ status' \in BranchStatuses
      BY <1>0, <2>2 DEF Turns
    <3> QED BY <3>1, <3>2
  <2> QED BY <1>1, <2>1, <2>2
<1>3. CASE Parks
  BY <1>0, <1>3 DEF Parks, Goes, Turns, BranchStatuses
<1>4. CASE ~(LaneEnds \/ Start \/ Parks)
  <2>1. UNCHANGED <<awaits, status>> /\ (pc' = pc \/ pc' \in {"analyst", "ready", "ask", "create", "record", "clear"})
    BY <1>4 DEF Next, vars, work, World, Loop, LaneStep, Reply, Relabel, Retitle, PullEnds, Reopen, RetryButton,
             PlanTask, PollPulls, Dialog, LaneFails, TriageDone, ReadReplies, ListingFails, Verdict, Ask, Ready, PatchParks,
             MultiParks, RecordPark, PatchCommits, MultiCommits, Commits, CreatePull, RecordPull, ClearLabels,
             PatchFails, Crash, Goes
  <2> QED BY <1>0, <2>1 DEF Turns
<1> QED BY <1>1, <1>2, <1>3, <1>4

LEMMA DecisionStep ==
  ASSUME Typed, [Next]_vars
  PROVE  decision' \in [state : {"none", "asks", "ready", "patch", "review"}, asked : Nat]
<1>1. decision' \in {decision, [state |-> "review", asked |-> 0], [state |-> "ready", asked |-> 0],
                     [state |-> "asks", asked |-> replies], [state |-> "asks", asked |-> 0],
                     [state |-> "patch", asked |-> 0]}
  BY DEF Next, vars, rows, World, Loop, LaneStep, Reply, Relabel, Retitle, PullEnds, Reopen, RetryButton,
         PlanTask, PollPulls, Dialog, Start, LaneFails, TriageDone, ReadReplies, ListingFails, Verdict, Ask, Ready, PatchParks,
         MultiParks, Parks, RecordPark, PatchCommits, MultiCommits, Commits, CreatePull, RecordPull, ClearLabels,
         PatchFails, Crash
<1>2. replies \in Nat /\ decision \in [state : {"none", "asks", "ready", "patch", "review"}, asked : Nat]
  BY DEF Typed
<1> QED BY <1>1, <1>2

LEMMA TypedStep ==
  ASSUME Typed, InOrder, LaneBranch, RowTells, [Next]_vars
  PROVE  Typed'
<1>1. table' \in Seq(Row)
  BY TouchStep, WriteStep DEF Touched, WrittenAt
<1> QED BY <1>1, BranchStep, PullsStep, ScalarsStep, WorkStep, DecisionStep DEF Typed

-----------------------------------------------------------------------------
(* The order of the branches *)

LEMMA InOrderStep ==
  ASSUME Typed, InOrder, LaneBranch, RowTells, [Next]_vars
  PROVE  InOrder'
<1>0. /\ Len(table) \in Nat /\ \A i \in 1 .. Len(table) : table[i].branch \in Branch
      /\ branch \in Branch
  BY Rows, Columns DEF Typed
<1>1. CASE ~Recording
  <2>1. Touched(table', table) /\ title \in Nat /\ title' \in Nat /\ title <= title'
    BY <1>1, TouchStep, ScalarsStep DEF Typed
  <2>2. \A i \in 1 .. Len(table) : table[i].branch.title <= title'
    BY <1>0, <2>1 DEF InOrder, Branch
  <2> QED BY <2>1, <2>2 DEF InOrder, Touched
<1>2. CASE Recording
  <2> DEFINE k == Len(table')
  <2>1. pc \in Patching /\ title' = title
    BY <1>2, WriteStep DEF forge, issue
  <2>2. PICK number \in Nat, s \in BranchStatuses : WrittenAt(table', table, k, branch, number, s)
    BY <1>2, WriteStep
  <2>3. table'[k].branch = branch /\ k \in Nat
        /\ \A i \in 1 .. k : i # k => i \in 1 .. Len(table) /\ table'[i] = table[i]
    BY <1>0, <2>2 DEF WrittenAt
  <2>4. \A i \in 1 .. k : i # k => table[i].branch # branch
    <3> SUFFICES ASSUME NEW i \in 1 .. k, i # k, table[i].branch = branch PROVE FALSE
      OBVIOUS
    <3>1. i \in 1 .. Len(table) /\ i = Len(table)
      BY <2>1, <2>3, OwnRow
    <3> QED BY <2>2, <3>1 DEF WrittenAt
  <2> HIDE DEF k
  <2>5. \A i, j \in 1 .. k : i <= j => Before(table'[i].branch, table'[j].branch)
    <3> SUFFICES ASSUME NEW i \in 1 .. k, NEW j \in 1 .. k, i <= j
                 PROVE  Before(table'[i].branch, table'[j].branch)
      OBVIOUS
    <3>1. CASE i = k
      <4>1. j = k
        BY <2>3, <3>1
      <4>2. Before(branch, branch)
        BY <1>0 DEF Before, Branch
      <4> QED BY <2>3, <3>1, <4>1, <4>2
    <3>2. CASE i # k /\ j = k
      BY <2>1, <2>3, <3>2 DEF LaneBranch
    <3>3. CASE i # k /\ j # k
      BY <2>3, <3>3 DEF InOrder
    <3> QED BY <3>1, <3>2, <3>3
  <2>6. \A i, j \in 1 .. k : table'[i].branch = table'[j].branch => i = j
    <3> SUFFICES ASSUME NEW i \in 1 .. k, NEW j \in 1 .. k, table'[i].branch = table'[j].branch, i # j
                 PROVE  FALSE
      OBVIOUS
    <3>1. CASE i = k \/ j = k
      BY <2>3, <2>4, <3>1
    <3>2. CASE i # k /\ j # k
      BY <2>3, <3>2 DEF InOrder
    <3> QED BY <3>1, <3>2
  <2>7. \A i \in 1 .. k : table'[i].branch.title <= title'
    BY <2>1, <2>3 DEF InOrder, LaneBranch
  <2> QED BY <2>5, <2>6, <2>7 DEF InOrder, k
<1> QED BY <1>1, <1>2

\* What was closed elsewhere than in the row of the lane stays so.
LEMMA ClosedStep ==
  ASSUME Typed, InOrder, LaneBranch, RowTells, [Next]_vars
  PROVE  /\ IsFiniteSet(Closed') /\ DOMAIN table = 1 .. Len(table) /\ DOMAIN table' = 1 .. Len(table')
         /\ ~Recording => Closed \subseteq Closed'
<1>1. Typed'
  BY TypedStep
<1>2. table \in Seq(Row) /\ table' \in Seq(Row)
  BY <1>1 DEF Typed
<1>3. DOMAIN table = 1 .. Len(table) /\ DOMAIN table' = 1 .. Len(table') /\ Len(table') \in Nat
  BY <1>2
<1>4. IsFiniteSet(Closed')
  <2>1. IsFiniteSet(1 .. Len(table')) /\ Closed' \subseteq 1 .. Len(table')
    BY <1>3, FS_Interval DEF Closed
  <2> QED BY <2>1, FS_Subset
<1>5. ~Recording => Closed \subseteq Closed'
  BY <1>3, TouchStep DEF Touched, Closed
<1> QED BY <1>3, <1>4, <1>5

LEMMA RoundsStep ==
  ASSUME Typed, InOrder, LaneBranch, RowTells, Rounds, [Next]_vars
  PROVE  Rounds'
<1>0. /\ Len(table) \in Nat /\ \A i \in 1 .. Len(table) : table[i].branch.round \in Nat
      /\ branch.round \in Nat /\ table' \in Seq(Row)
      /\ configured' = configured
  <2>1. table' \in Seq(Row)
    BY TypedStep DEF Typed
  <2> QED BY <2>1, Rows, Columns, ScalarsStep DEF Typed, Branch
<1>1. CASE ~Recording
  <2> DEFINE n == Len(table)
  <2>1. Touched(table', table) /\ Closed \subseteq Closed' /\ Len(table') = n
    BY <1>1, TouchStep, ClosedStep DEF Touched
  <2>2. Closed \ {n} \subseteq Closed' \ {n} /\ IsFiniteSet(Closed' \ {n})
    BY <2>1, ClosedStep, FS_Subset
  <2>3. Cardinality(Closed \ {n}) \in Nat /\ Cardinality(Closed' \ {n}) \in Nat
        /\ Cardinality(Closed \ {n}) <= Cardinality(Closed' \ {n})
    BY <2>2, Fewer
  <2>4. table' # <<>> => table # <<>> /\ n \in 1 .. n
    BY <1>0, <2>1
  <2>5. table' # <<>> => table'[n].branch.round <= Cardinality(Closed' \ {n}) + 1
    <3> SUFFICES ASSUME table' # <<>> PROVE table'[n].branch.round <= Cardinality(Closed' \ {n}) + 1
      OBVIOUS
    <3>1. table'[n].branch.round = table[n].branch.round /\ table[n].branch.round \in Nat
      BY <1>0, <2>1, <2>4 DEF Touched
    <3>2. table[n].branch.round <= Cardinality(Closed \ {n}) + 1
      BY <2>4 DEF Rounds
    <3> QED BY <2>3, <3>1, <3>2
  <2>6. configured' = "patch_multi" => \A i \in 1 .. Len(table') : table'[i].branch.round = 1
    BY <1>0, <2>1 DEF Rounds, Touched
  <2> QED BY <2>1, <2>5, <2>6 DEF Rounds
<1>2. CASE Recording
  <2> DEFINE k == Len(table')
             Others == {i \in Closed : table[i].branch # branch}
  <2>1. pc \in Patching
    BY <1>2, WriteStep
  <2>2. PICK number \in Nat, s \in BranchStatuses : WrittenAt(table', table, k, branch, number, s)
    BY <1>2, WriteStep
  <2>3. /\ table'[k].branch = branch /\ (k = Len(table) => table[k].branch = branch)
        /\ k = Len(table) \/ k = Len(table) + 1
        /\ \A i \in 1 .. k : i # k => i \in 1 .. Len(table) /\ table'[i] = table[i]
    BY <2>2 DEF WrittenAt
  <2>4. Others \subseteq Closed' \ {k}
    <3> SUFFICES ASSUME NEW i \in Others PROVE i \in Closed' /\ i # k
      OBVIOUS
    <3>1. i \in 1 .. Len(table) /\ table[i].status = "closed" /\ table[i].branch # branch
      BY ClosedStep DEF Closed
    <3>2. i # k /\ i \in 1 .. k
      BY <1>0, <2>3, <3>1
    <3> QED BY <2>3, <3>1, <3>2, ClosedStep DEF Closed
  <2>5. Cardinality(Others) \in Nat /\ Cardinality(Closed' \ {k}) \in Nat
        /\ Cardinality(Others) <= Cardinality(Closed' \ {k})
    <3>1. IsFiniteSet(Closed' \ {k})
      BY ClosedStep, FS_Subset
    <3> QED BY <2>4, <3>1, Fewer
  <2>6. branch.round <= Cardinality(Others) + 1
    BY <2>1 DEF LaneBranch
  <2>7. table'[k].branch.round <= Cardinality(Closed' \ {k}) + 1
    BY <1>0, <2>3, <2>5, <2>6
  <2>8. configured' = "patch_multi" => \A i \in 1 .. k : table'[i].branch.round = 1
    BY <1>0, <2>1, <2>3 DEF Rounds, LaneBranch
  <2> QED BY <2>7, <2>8 DEF Rounds
<1> QED BY <1>1, <1>2

\* No closed row has the branch that lane patch would begin with: its round is beyond theirs.
LEMMA FreshRound ==
  ASSUME Typed, InOrder, Rounds
  PROVE  /\ \A i \in 1 .. Len(table) : table[i].branch.round <= Cardinality(Closed) + 1
         /\ \A i \in Closed : table[i].branch # PatchBranch
<1> DEFINE n == Len(table)
<1>0. /\ n \in Nat /\ DOMAIN table = 1 .. n
      /\ \A i \in 1 .. n : /\ table[i].branch \in Branch
                           /\ table[i].branch.round \in Nat /\ table[i].branch.title \in Nat
      /\ title \in Nat
  BY Rows, Columns DEF Typed
<1>1. PatchBranch.title = title /\ PatchBranch.round = Cardinality(Closed) + 1
  BY DEF PatchBranch, Closed
<1>2. CASE n = 0
  BY <1>0, <1>2 DEF Closed
<1>3. CASE n # 0
  <2>1. n \in 1 .. n /\ table # <<>>
    BY <1>0, <1>3
  <2>2. table[n].branch.round <= Cardinality(Closed \ {n}) + 1
    BY <2>1 DEF Rounds
  <2>3. /\ IsFiniteSet(Closed) /\ Cardinality(Closed \ {n}) \in Nat /\ Cardinality(Closed) \in Nat
        /\ Cardinality(Closed \ {n}) <= Cardinality(Closed)
    BY ClosedFinite, Fewer
  <2>4. \A i \in 1 .. n : /\ table[i].branch.round <= table[n].branch.round
                          /\ table[i].branch.title <= table[n].branch.title
    BY <1>0, <2>1 DEF InOrder, Before
  <2>5. \A i \in 1 .. n : table[i].branch.round <= Cardinality(Closed) + 1
    BY <1>0, <2>1, <2>2, <2>3, <2>4
  <2>6. ASSUME NEW i \in Closed, table[i].branch = PatchBranch PROVE FALSE
    <3>1. i \in 1 .. n
      BY <1>0 DEF Closed
    <3>2. table[n].branch.title <= title
      BY <2>1 DEF InOrder
    <3>3. table[i].branch.title = title /\ table[i].branch.round = Cardinality(Closed) + 1
      BY <1>1, <2>6
    <3>4. table[n].branch.title = title /\ table[n].branch.round = Cardinality(Closed) + 1
          /\ Cardinality(Closed \ {n}) = Cardinality(Closed)
      BY <1>0, <2>1, <2>2, <2>3, <2>4, <3>1, <3>2, <3>3, SMTT(30)
    <3>5. table[i].branch = table[n].branch
      BY <1>0, <2>1, <3>1, <3>3, <3>4 DEF Branch
    <3>6. i = n
      BY <2>1, <3>1, <3>5 DEF InOrder
    <3>7. Closed \ {n} = Closed
      BY <2>3, <3>4, FS_Subset
    <3> QED BY <3>6, <3>7
  <2> QED BY <2>5, <2>6
<1> QED BY <1>2, <1>3

LEMMA LaneBranchStep ==
  ASSUME Typed, InOrder, LaneBranch, RowTells, Rounds, [Next]_vars
  PROVE  LaneBranch'
<1>0. /\ Len(table) \in Nat /\ DOMAIN table = 1 .. Len(table) /\ title \in Nat
      /\ \A i \in 1 .. Len(table) : /\ table[i].branch \in Branch
                                    /\ table[i].branch.round \in Nat /\ table[i].branch.title \in Nat
  BY Rows, Columns DEF Typed
<1>1. CASE pc' \notin Patching
  BY <1>1 DEF LaneBranch
<1>2. ASSUME Start, pc' = "agent" PROVE LaneBranch'
  <2>1. /\ branch' = IF configured = "patch" THEN PatchBranch ELSE MultiBranch
        /\ table' = table /\ title' = title /\ configured' = configured
    BY <1>2, StartFacts DEF LaneEnds, rows, forge, issue
  <2>2. Closed' = Closed
    BY <2>1 DEF Closed
  <2>3. CASE configured = "patch"
    <3>1. branch' = PatchBranch
      BY <2>1, <2>3
    <3>2. PatchBranch.title = title /\ PatchBranch.round = Cardinality(Closed) + 1
      BY DEF PatchBranch, Closed
    <3>3. branch'.title <= title' /\ \A i \in 1 .. Len(table') : Before(table'[i].branch, branch')
      BY <1>0, <2>1, <3>1, <3>2, FreshRound DEF Before, InOrder
    <3>4. {i \in Closed' : table'[i].branch # branch'} = Closed
      BY <2>1, <2>2, <3>1, FreshRound
    <3>5. branch'.round <= Cardinality({i \in Closed' : table'[i].branch # branch'}) + 1
      <4>1. branch'.round = Cardinality(Closed) + 1
        BY <3>1, <3>2
      <4>2. Cardinality({i \in Closed' : table'[i].branch # branch'}) = Cardinality(Closed)
        BY <3>4
      <4> QED BY <4>1, <4>2, ClosedFinite
    <3>6. configured' # "patch_multi"
      BY <2>1, <2>3
    <3> QED BY <3>3, <3>5, <3>6 DEF LaneBranch
  <2>4. CASE configured = "patch_multi"
    <3>1. branch'.title = title /\ branch'.round = 1
      BY <2>1, <2>4 DEF MultiBranch
    <3>2. branch'.title <= title' /\ \A i \in 1 .. Len(table') : Before(table'[i].branch, branch')
      BY <1>0, <2>1, <2>4, <3>1 DEF Before, InOrder, Rounds
    <3>3. Cardinality({i \in Closed' : table'[i].branch # branch'}) \in Nat
      BY <2>2, ClosedFinite, Fewer
    <3>4. branch'.round <= Cardinality({i \in Closed' : table'[i].branch # branch'}) + 1
      BY <3>1, <3>3
    <3> QED BY <3>1, <3>2, <3>4 DEF LaneBranch
  <2> QED BY <2>3, <2>4 DEF Typed
<1>3. CASE pc \in Patching /\ branch' = branch /\ ~Recording
  <2> DEFINE Before0 == {i \in Closed : table[i].branch # branch}
             After0 == {i \in Closed' : table'[i].branch # branch'}
  <2>1. Touched(table', table) /\ title' \in Nat /\ title <= title' /\ configured' = configured /\ branch \in Branch
    BY <1>3, TouchStep, ScalarsStep DEF Typed
  <2>2. branch'.title <= title'
    BY <1>0, <1>3, <2>1 DEF LaneBranch, Branch
  <2>3. \A i \in 1 .. Len(table') : Before(table'[i].branch, branch')
    BY <1>3, <2>1 DEF LaneBranch, Touched
  <2>4. Before0 \subseteq After0
    BY <1>0, <1>3, <2>1, ClosedStep DEF Touched, Closed
  <2>5. Cardinality(Before0) \in Nat /\ Cardinality(After0) \in Nat /\ Cardinality(Before0) <= Cardinality(After0)
    <3>1. IsFiniteSet(After0)
      BY ClosedStep, FS_Subset
    <3> QED BY <2>4, <3>1, Fewer
  <2>6. branch.round <= Cardinality(Before0) + 1 /\ branch.round \in Nat
    BY <1>3, <2>1 DEF LaneBranch, Branch
  <2>7. branch'.round <= Cardinality(After0) + 1
    BY <1>3, <2>5, <2>6
  <2>8. configured' = "patch_multi" => branch'.round = 1
    BY <1>3, <2>1 DEF LaneBranch
  <2> QED BY <2>2, <2>3, <2>7, <2>8 DEF LaneBranch
<1>4. CASE Recording
  BY <1>1, <1>4, WriteStep
<1>5. ASSUME Start, pc' # "agent" PROVE LaneBranch'
  BY <1>1, <1>5, StartFacts DEF LaneEnds, Patching
<1>6. CASE ~Start /\ ~Recording
  <2>1. pc' \notin Patching \/ (pc \in Patching /\ branch' = branch)
    BY <1>6 DEF Next, vars, work, Patching, Recording, World, Loop, LaneStep, Reply, Relabel, Retitle, PullEnds,
             Reopen, RetryButton, LaneEnds, Goes,
             PlanTask, PollPulls, Dialog, LaneFails, TriageDone, ReadReplies, ListingFails, Verdict, Ask, Ready, PatchParks,
             MultiParks, Parks, PatchCommits, MultiCommits, Commits, CreatePull, ClearLabels, Crash
  <2> QED BY <1>1, <1>3, <1>6, <2>1
<1> QED BY <1>2, <1>4, <1>5, <1>6

-----------------------------------------------------------------------------
(* The requests *)

\* What is released or orphaned stays so, and a request that is closed too.
LEMMA RequestStep ==
  ASSUME Typed, [Next]_vars
  PROVE  /\ released \subseteq released' /\ orphans \subseteq orphans'
         /\ Len(pulls) \in Nat /\ Len(pulls') \in Nat /\ Len(pulls) <= Len(pulls')
         /\ \A p \in 1 .. Len(pulls) : (pulls[p].state = "closed" => pulls'[p].state = "closed")
                                       /\ (Known(p)' => Known(p))
<1>1. released \subseteq released'
  BY DEF Next, vars, hist, World, Loop, LaneStep, Reply, Relabel, Retitle, PullEnds, Reopen, RetryButton,
         PlanTask, PollPulls, Dialog, Start, LaneFails, TriageDone, ReadReplies, ListingFails, Verdict, Ask, Ready, PatchParks,
         MultiParks, Parks, RecordPark, PatchCommits, MultiCommits, Commits, CreatePull, RecordPull, ClearLabels,
         PatchFails, Crash
<1>2. orphans \subseteq orphans'
  BY DEF Next, vars, hist, World, Loop, LaneStep, Reply, Relabel, Retitle, PullEnds, Reopen, RetryButton,
         PlanTask, PollPulls, Dialog, Start, LaneFails, TriageDone, ReadReplies, ListingFails, Verdict, Ask, Ready, PatchParks,
         MultiParks, Parks, RecordPark, PatchCommits, MultiCommits, Commits, CreatePull, RecordPull, ClearLabels,
         PatchFails, Crash
<1>3. Len(pulls) \in Nat /\ Len(pulls') \in Nat /\ Len(pulls) <= Len(pulls')
  BY PullsStep
<1>4. \A p \in 1 .. Len(pulls) : pulls'[p].state = "open" => pulls[p].state = "open"
  BY PullsStep
<1>5. \A p \in 1 .. Len(pulls) : pulls[p] \in Pull /\ pulls'[p] \in Pull
  <2>1. pulls \in Seq(Pull) /\ pulls' \in Seq(Pull)
    BY PullsStep DEF Typed
  <2>2. \A p \in 1 .. Len(pulls) : p \in 1 .. Len(pulls')
    BY <1>3
  <2> QED BY <2>1, <2>2
<1>6. \A p \in 1 .. Len(pulls) : pulls[p].state = "closed" => pulls'[p].state = "closed"
  BY <1>4, <1>5 DEF Pull
<1>7. ASSUME NEW p \in 1 .. Len(pulls), Known(p)' PROVE Known(p)
  BY <1>1, <1>2, <1>4, <1>7 DEF Known
<1> QED BY <1>1, <1>2, <1>3, <1>6, <1>7

LEMMA RowTellsStep ==
  ASSUME Typed, InOrder, LaneBranch, RowTells, [Next]_vars
  PROVE  RowTells'
<1> DEFINE Tells(row) ==
             row.pr # NoPr =>
               /\ row.pr <= Len(pulls')
               /\ row.status \in {"open", "needs_human", "guardrail_blocked", "cancelled", "closed"}
               /\ row.status = "closed" => pulls'[row.pr].state = "closed"
               /\ row.status = "cancelled" => row.pr \in released'
<1>0. /\ table \in Seq(Row) /\ Len(table) \in Nat /\ DOMAIN table = 1 .. Len(table)
      /\ \A i \in 1 .. Len(table) : table[i].pr \in Nat
      /\ released \subseteq released' /\ Len(pulls) \in Nat /\ Len(pulls') \in Nat /\ Len(pulls) <= Len(pulls')
      /\ \A p \in 1 .. Len(pulls) : pulls[p].state = "closed" => pulls'[p].state = "closed"
  BY Rows, Columns, RequestStep DEF Typed
<1>1. \A i \in 1 .. Len(table) : table[i].pr # NoPr => table[i].pr \in 1 .. Len(pulls)
  BY <1>0 DEF RowTells, NoPr
<1>2. \A i \in 1 .. Len(table) : Tells(table[i])
  <2> SUFFICES ASSUME NEW i \in 1 .. Len(table), table[i].pr # NoPr PROVE Tells(table[i])
    OBVIOUS
  <2>1. table[i].pr \in 1 .. Len(pulls) /\ table[i].pr <= Len(pulls')
    BY <1>0, <1>1
  <2> QED BY <1>0, <2>1 DEF RowTells
<1>3. CASE table' = table
  BY <1>2, <1>3 DEF RowTells
<1>4. CASE Reply
  <2>1. table' = table \/ table' = CancelRows(table, Task, {"error", "dirty"}, Now)
    BY <1>4 DEF Reply, Hook, liftTransientPark
  <2>2. CASE table' = CancelRows(table, Task, {"error", "dirty"}, Now)
    <3>1. "closed" \notin {"error", "dirty"}
      OBVIOUS
    <3>2. /\ Touched(table', table)
          /\ \A j \in 1 .. Len(table) : table[j].status \notin {"error", "dirty"} => table'[j] = table[j]
      BY <1>0, <2>2, <3>1, CancelTouches
    <3>3. \A j \in 1 .. Len(table) : table[j].pr # NoPr => table'[j] = table[j]
      BY <3>2 DEF RowTells
    <3> QED BY <1>2, <3>2, <3>3 DEF RowTells, Touched
  <2> QED BY <1>3, <2>1, <2>2
<1>5. CASE RetryButton \/ PlanTask
  <2>1. table' = CancelRows(table, Task, {"guardrail_blocked"}, Now) /\ released' = released \cup BlockedPulls
    BY <1>5 DEF RetryButton, PlanTask, Release, CancelBlocked
  <2>2. "closed" \notin {"guardrail_blocked"}
    OBVIOUS
  <2>3. /\ Touched(table', table)
        /\ \A j \in 1 .. Len(table) : IF table[j].status = "guardrail_blocked"
                                        THEN table'[j].status = "cancelled" ELSE table'[j] = table[j]
    BY <1>0, <2>1, <2>2, CancelTouches
  <2>4. ASSUME NEW j \in 1 .. Len(table) PROVE Tells(table'[j])
    <3>1. CASE table[j].status = "guardrail_blocked"
      <4>1. table'[j].status = "cancelled" /\ table'[j].pr = table[j].pr
        BY <2>3, <3>1 DEF Touched
      <4>2. table[j].pr \in released'
        BY <1>0, <2>1, <3>1 DEF BlockedPulls
      <4> QED BY <1>0, <1>2, <3>1, <4>1, <4>2
    <3>2. CASE table[j].status # "guardrail_blocked"
      BY <1>2, <2>3, <3>2
    <3> QED BY <3>1, <3>2
  <2> QED BY <2>3, <2>4 DEF RowTells, Touched
<1>6. CASE PollPulls \/ Dialog
  <2>1. PICK i \in 1 .. Len(table), s \in {"closed", "open", "needs_human", "guardrail_blocked"} :
          /\ table[i].pr # NoPr /\ table[i].status # "closed" /\ table' = SetStatus(table, i, s, Now)
          /\ s = "closed" => pulls[table[i].pr].state = "closed"
    BY <1>0, <1>6 DEF PollPulls, Dialog
  <2>2. s \in BranchStatuses
    BY DEF BranchStatuses
  <2>3. /\ Touched(table', table) /\ table'[i].status = s
        /\ \A j \in 1 .. Len(table) : j # i => table'[j] = table[j]
    BY <1>0, <2>1, <2>2, SetStatusTouches
  <2>4. Tells(table'[i])
    <3>1. table'[i].pr = table[i].pr /\ table[i].pr \in 1 .. Len(pulls) /\ table[i].pr <= Len(pulls')
      BY <1>0, <1>1, <2>1, <2>3 DEF Touched
    <3> QED BY <1>0, <2>1, <2>3, <3>1
  <2> QED BY <1>2, <2>3, <2>4 DEF RowTells, Touched
<1>7. CASE Recording
  <2> DEFINE k == Len(table')
  <2>1. PICK number \in Nat, s \in BranchStatuses :
          /\ WrittenAt(table', table, k, branch, number, s)
          /\ number = NoPr \/ (number = Len(pulls) /\ s = "open")
    BY <1>7, WriteStep
  <2>2. /\ table'[k].pr = number /\ table'[k].status = s
        /\ \A i \in 1 .. k : i # k => i \in 1 .. Len(table) /\ table'[i] = table[i]
    BY <2>1 DEF WrittenAt
  <2>3. Tells(table'[k])
    BY <1>0, <2>1, <2>2
  <2> QED BY <1>2, <2>2, <2>3 DEF RowTells
<1>8. CASE ~(Reply \/ RetryButton \/ PlanTask \/ PollPulls \/ Dialog \/ Recording)
  <2>1. table' = table
    BY <1>8 DEF Next, vars, rows, Recording, World, Loop, LaneStep, Relabel, Retitle, PullEnds, Reopen,
             Start, LaneFails, TriageDone, ReadReplies, ListingFails, Verdict, Ask, Ready, PatchParks, MultiParks, Parks,
             PatchCommits, MultiCommits, Commits, CreatePull, ClearLabels, Crash
  <2> QED BY <1>3, <2>1
<1> QED BY <1>4, <1>5, <1>6, <1>7, <1>8

\* The newest row is the last one, if it is among those that are asked for.
LEMMA LastIsNewest ==
  ASSUME NEW n \in Nat \ {0}, NEW ids \in SUBSET (1 .. n), n \in ids
  PROVE  Newest(ids) = n
<1>1. ids # {} /\ \A j \in ids : j \in Nat /\ j <= n
  OBVIOUS
<1>2. ASSUME NEW i \in ids, \A j \in ids : j <= i PROVE i = n
  <2>1. i \in Nat /\ i <= n /\ n <= i
    BY <1>1, <1>2
  <2> QED BY <2>1
<1> QED BY <1>1, <1>2 DEF Newest

LEMMA NewestFacts ==
  ASSUME Typed, table # <<>>
  PROVE  /\ Len(table) \in Nat \ {0} /\ Len(table) \in 1 .. Len(table) /\ DOMAIN table = 1 .. Len(table)
         /\ getPrBranchByTask(table, Task) = Len(table)
         /\ table[Len(table)].status \in {"created", "open"} => ActiveRow(table, Task) = Len(table)
<1> DEFINE n == Len(table)
           all == {i \in DOMAIN table : table[i].task = Task}
           active == {i \in DOMAIN table : table[i].task = Task /\ table[i].status \in {"created", "open"}}
<1>1. n \in Nat \ {0} /\ n \in 1 .. n /\ DOMAIN table = 1 .. n /\ table[n].task = Task
  BY Rows, Columns DEF Typed
<1>2. Newest(all) = n
  BY <1>1, LastIsNewest
<1>3. table[n].status \in {"created", "open"} => Newest(active) = n
  <2> SUFFICES ASSUME table[n].status \in {"created", "open"} PROVE Newest(active) = n
    OBVIOUS
  <2>1. active \in SUBSET (1 .. n) /\ n \in active
    BY <1>1
  <2> QED BY <1>1, <2>1, LastIsNewest
<1> QED BY <1>1, <1>2, <1>3 DEF getPrBranchByTask, ActiveRow

\* An agent is set to work only where the service knows of no request.
LEMMA StartQuiet ==
  ASSUME Typed, RowTells, KnownFits, PullsWatched, Start, pc' = "agent"
  PROVE  \A p \in 1 .. Len(pulls) : ~Known(p)
<1> SUFFICES ASSUME NEW p \in 1 .. Len(pulls), Known(p) PROVE FALSE
  OBVIOUS
<1>1. pc = "idle" /\ ~Parked /\ ActiveRow(table, Task) = 0
  BY StartFacts DEF LaneEnds
<1>2. PICK i \in 1 .. Len(table) : table[i].pr = p
  <2>1. p \in DOMAIN pulls /\ DOMAIN table = 1 .. Len(table)
    BY Rows DEF Typed
  <2> QED BY <1>1, <2>1 DEF PullsWatched, Known
<1>3. Len(pulls) \in Nat /\ p # NoPr /\ table # <<>>
  <2>1. Len(pulls) \in Nat /\ Len(table) \in Nat
    BY Rows DEF Typed
  <2> QED BY <1>2, <2>1 DEF NoPr
<1>4. i = Len(table)
  BY <1>2, <1>3 DEF KnownFits
<1>5. table[i].status \in {"open", "needs_human", "guardrail_blocked"}
  BY <1>2, <1>3 DEF RowTells, Known
<1>6. CASE table[i].status = "open"
  BY <1>1, <1>3, <1>4, <1>6, NewestFacts
<1>7. CASE table[i].status # "open"
  BY <1>1, <1>3, <1>4, <1>5, <1>7, NewestFacts DEF Parked, TERMINAL_BRANCH_STATUSES
<1> QED BY <1>6, <1>7

LEMMA KnownFitsStep ==
  ASSUME Typed, InOrder, LaneBranch, RowTells, KnownFits, PullsWatched, [Next]_vars
  PROVE  KnownFits'
<1> DEFINE n == Len(pulls)
           None(k) == \A p \in 1 .. k : ~Known(p)
<1>0. /\ Len(table) \in Nat /\ DOMAIN table = 1 .. Len(table)
      /\ \A i \in 1 .. Len(table) : table[i].pr \in Nat
      /\ n \in Nat /\ Len(pulls') \in Nat /\ n <= Len(pulls')
  BY Rows, Columns, RequestStep DEF Typed
<1>1. \A p \in 1 .. n : Known(p)' => Known(p)
  BY RequestStep
<1>2. \A i \in 1 .. Len(table) : table[i].pr # NoPr => table[i].pr \in 1 .. n
  BY <1>0 DEF RowTells, NoPr
<1>3. Len(pulls') # n => CreatePull /\ Len(pulls') = n + 1
  BY PullsStep
<1>4. pc' \in {"agent", "park", "create"} => \A p \in 1 .. Len(pulls') : ~Known(p)'
  <2> SUFFICES ASSUME pc' \in {"agent", "park", "create"}, NEW p \in 1 .. Len(pulls'), Known(p)'
               PROVE  FALSE
    OBVIOUS
  <2>1. ~CreatePull
    BY DEF CreatePull, Goes
  <2>2. p \in 1 .. n /\ Known(p)
    BY <1>1, <1>3, <2>1
  <2>3. pc \in {"agent", "park", "create"} \/ (Start /\ pc' = "agent")
    <3>1. CASE Start
      BY <3>1, StartFacts DEF LaneEnds
    <3>2. CASE ~Start
      BY <3>2 DEF Next, vars, work, World, Loop, LaneStep, Reply, Relabel, Retitle, PullEnds,
               Reopen, RetryButton, LaneEnds, Goes,
               PlanTask, PollPulls, Dialog, LaneFails, TriageDone, ReadReplies, ListingFails, Verdict, Ask, Ready, PatchParks,
               MultiParks, Parks, RecordPark, PatchCommits, MultiCommits, Commits, CreatePull, RecordPull,
               ClearLabels, PatchFails, Crash
    <3> QED BY <3>1, <3>2
  <2> QED BY <2>2, <2>3, StartQuiet DEF KnownFits
<1>5. pc' = "record" => CreatePull \/ (pc = "record" /\ ~Recording /\ Len(pulls') = n)
  <2>1. CASE Start
    BY <2>1, StartFacts DEF LaneEnds
  <2>2. CASE ~Start
    <3>1. pc' = "record" => CreatePull \/ (pc = "record" /\ ~Recording)
      BY <2>2 DEF Next, vars, work, World, Loop, LaneStep, Reply, Relabel, Retitle, PullEnds,
               Reopen, RetryButton, LaneEnds, Goes, Recording,
               PlanTask, PollPulls, Dialog, LaneFails, TriageDone, ReadReplies, ListingFails, Verdict, Ask, Ready, PatchParks,
               MultiParks, Parks, RecordPark, PatchCommits, MultiCommits, Commits, CreatePull, RecordPull,
               ClearLabels, PatchFails, Crash
    <3> QED BY <1>3, <3>1
  <2> QED BY <2>1, <2>2
<1>6. pc' = "record" => /\ \A p \in 1 .. Len(pulls') : Known(p)' => p = Len(pulls')
                        /\ \A i \in 1 .. Len(table') : table'[i].pr # Len(pulls')
  <2>1. CASE pc' = "record" /\ CreatePull
    <3>1. pc = "create" /\ table' = table /\ Len(pulls') = n + 1
      BY <2>1, PullsStep DEF CreatePull, rows
    <3>2. \A p \in 1 .. n : ~Known(p)
      BY <3>1 DEF KnownFits
    <3>3. \A p \in 1 .. Len(pulls') : Known(p)' => p = Len(pulls')
      <4> SUFFICES ASSUME NEW p \in 1 .. Len(pulls'), Known(p)', p # Len(pulls') PROVE FALSE
        OBVIOUS
      <4>1. p \in 1 .. n
        BY <1>0, <3>1
      <4> QED BY <1>1, <3>2, <4>1
    <3>4. \A i \in 1 .. Len(table) : table[i].pr # n + 1
      <4> SUFFICES ASSUME NEW i \in 1 .. Len(table), table[i].pr = n + 1 PROVE FALSE
        OBVIOUS
      <4>1. n + 1 # NoPr /\ n + 1 \notin 1 .. n
        BY <1>0 DEF NoPr
      <4> QED BY <1>2, <4>1
    <3> QED BY <3>1, <3>3, <3>4
  <2>2. CASE pc' = "record" /\ pc = "record" /\ ~Recording /\ Len(pulls') = n
    <3>1. Touched(table', table)
      BY <2>2, TouchStep
    <3>2. \A p \in 1 .. Len(pulls') : Known(p)' => p = Len(pulls')
      BY <1>1, <2>2 DEF KnownFits
    <3>3. \A i \in 1 .. Len(table) : table[i].pr # n
      BY <2>2 DEF KnownFits
    <3>4. \A i \in 1 .. Len(table') : table'[i].pr # Len(pulls')
      BY <2>2, <3>1, <3>3 DEF Touched
    <3> QED BY <3>2, <3>4
  <2> QED BY <1>5, <2>1, <2>2
<1>7. ASSUME NEW i \in 1 .. Len(table'), NEW p \in Nat, p = table'[i].pr, p # NoPr, Known(p)'
      PROVE  i = Len(table')
  <2>1. CASE ~Recording
    <3>1. Touched(table', table)
      BY <2>1, TouchStep
    <3>2. i \in 1 .. Len(table) /\ table[i].pr = p /\ Len(table') = Len(table)
      BY <1>7, <3>1 DEF Touched
    <3>3. Known(p)
      BY <1>1, <1>2, <1>7, <3>2
    <3> QED BY <1>7, <3>2, <3>3 DEF KnownFits
  <2>2. CASE Recording
    <3> DEFINE k == Len(table')
    <3>1. PICK number \in Nat, s \in BranchStatuses : WrittenAt(table', table, k, branch, number, s)
      BY <2>2, WriteStep
    <3>2. pc \in Patching /\ ~CreatePull
      BY <2>2, WriteStep DEF Patching, Recording, RecordPark, RecordPull, PatchFails, CreatePull,
                           LaneEnds, Goes
    <3> SUFFICES ASSUME i # k PROVE FALSE
      OBVIOUS
    <3>3. i \in 1 .. Len(table) /\ table[i].pr = p
      BY <1>7, <3>1 DEF WrittenAt
    <3>4. p \in 1 .. n /\ Known(p)
      BY <1>1, <1>2, <1>7, <3>3
    <3>5. CASE pc \in {"agent", "park", "create"}
      BY <3>4, <3>5 DEF KnownFits
    <3>6. CASE pc = "record"
      BY <3>3, <3>4, <3>6 DEF KnownFits
    <3> QED BY <3>2, <3>5, <3>6 DEF Patching
  <2> QED BY <2>1, <2>2
<1>8. \A i \in 1 .. Len(table') : table'[i].pr \in Nat
  <2>1. table' \in Seq(Row)
    BY TypedStep DEF Typed
  <2> QED BY <2>1, Rows, Columns
<1>9. \A i \in 1 .. Len(table') : \A p \in Nat : p = table'[i].pr /\ p # NoPr /\ Known(p)' => i = Len(table')
  BY <1>7
<1> QED BY <1>4, <1>6, <1>8, <1>9 DEF KnownFits, Known

LEMMA PullsWatchedStep ==
  ASSUME Typed, InOrder, LaneBranch, RowTells, KnownFits, PullsWatched, [Next]_vars
  PROVE  PullsWatched'
<1> DEFINE n == Len(pulls)
<1>0. /\ Len(table) \in Nat /\ DOMAIN table = 1 .. Len(table) /\ DOMAIN pulls = 1 .. n
      /\ pulls' \in Seq(Pull) /\ DOMAIN pulls' = 1 .. Len(pulls') /\ DOMAIN table' = 1 .. Len(table')
      /\ n \in Nat /\ Len(pulls') \in Nat /\ n <= Len(pulls')
  BY Rows, RequestStep, PullsStep, ClosedStep DEF Typed
<1> SUFFICES ASSUME NEW p \in 1 .. Len(pulls'),
                    pulls'[p].state = "open", p \notin orphans' \cup released',
                    ~(p = Len(pulls') /\ pc' = "record")
             PROVE  \E i \in 1 .. Len(table') : table'[i].pr = p
  <2>0. pulls' \in Seq(Pull)
    BY <1>0
  <2>1. \A p \in 1 .. Len(pulls') : pulls'[p] \in Pull
    BY <2>0
  <2>2. \A p \in 1 .. Len(pulls') : pulls'[p].state = "closed" \/ pulls'[p].state = "open"
    BY <2>1 DEF Pull
  <2> QED BY <1>0, <2>2 DEF PullsWatched
<1>1. p \in 1 .. n
  <2>1. CASE CreatePull
    <3>1. pc' = "record" /\ Len(pulls') = n + 1
      BY <2>1, PullsStep DEF CreatePull, Goes
    <3>2. p # n + 1
      BY <3>1
    <3> QED BY <1>0, <3>1, <3>2
  <2>2. CASE ~CreatePull
    <3>1. Len(pulls') = n
      BY <2>2, PullsStep
    <3> QED BY <3>1
  <2> QED BY <2>1, <2>2
<1>2. Known(p)
  <2>1. Known(p)'
    BY DEF Known
  <2> QED BY <1>1, <2>1, RequestStep
<1>3. CASE p = n /\ pc = "record"
  <2>1. ~CreatePull /\ Len(pulls') = n
    BY <1>3, PullsStep DEF CreatePull
  <2>2. pc' # "record"
    BY <1>3, <2>1
  <2>3. n \notin orphans'
    BY <1>3
  <2>4. RecordPull
    BY <1>3, <2>2, <2>3 DEF Next, vars, work, World, Loop, LaneStep, Reply, Relabel, Retitle, PullEnds,
             Reopen, RetryButton, LaneEnds, Goes, Start,
             PlanTask, PollPulls, Dialog, LaneFails, TriageDone, ReadReplies, ListingFails, Verdict, Ask, Ready, PatchParks,
             MultiParks, Parks, RecordPark, PatchCommits, MultiCommits, Commits, CreatePull,
             ClearLabels, PatchFails, Crash
  <2>5. ~RecordPark /\ ~PatchFails
    BY <2>4 DEF RecordPull, RecordPark, PatchFails, LaneEnds, Goes
  <2>6. WrittenAt(table', table, Len(table'), branch, n, "open")
    BY <2>4, <2>5, WriteStep DEF Recording
  <2> QED BY <1>3, <2>6 DEF WrittenAt
<1>4. CASE ~(p = n /\ pc = "record")
  <2>1. PICK i \in 1 .. Len(table) : table[i].pr = p
    <3>1. pulls[p].state # "closed" /\ p \notin orphans \cup released
      BY <1>2 DEF Known
    <3> QED BY <1>0, <1>1, <1>4, <3>1 DEF PullsWatched
  <2>2. CASE ~Recording
    <3>1. Touched(table', table)
      BY <2>2, TouchStep
    <3> QED BY <2>1, <3>1 DEF Touched
  <2>3. CASE Recording
    <3>1. pc \in Patching
      BY <2>3, WriteStep
    <3>2. CASE pc \in {"agent", "park", "create"}
      BY <1>1, <1>2, <3>2 DEF KnownFits
    <3>3. CASE pc = "record"
      BY <1>1, <1>2, <1>4, <3>3 DEF KnownFits
    <3> QED BY <3>1, <3>2, <3>3 DEF Patching
  <2> QED BY <2>2, <2>3
<1> QED BY <1>3, <1>4

-----------------------------------------------------------------------------
(* Parks and questions *)

LEMMA ParkFitsStep ==
  ASSUME Typed, InOrder, LaneBranch, RowTells, ParkFits, [Next]_vars
  PROVE  ParkFits'
<1> DEFINE n == Len(table)
           Fits(t) == t # <<>> /\ t[Len(t)].status = park' /\ t[Len(t)].pr = NoPr
<1>0. table \in Seq(Row) /\ n \in Nat /\ DOMAIN table = 1 .. n
  BY Rows DEF Typed
<1> SUFFICES ASSUME park' \in TERMINAL_BRANCH_STATUSES PROVE Fits(table')
  BY DEF ParkFits
<1>1. CASE Recording
  <2> DEFINE k == Len(table')
  <2>1. RecordPark
    BY <1>1 DEF Recording, RecordPull, PatchFails, TERMINAL_BRANCH_STATUSES
  <2>2. ~RecordPull /\ ~PatchFails
    BY <2>1 DEF RecordPull, RecordPark, PatchFails, LaneEnds, Goes
  <2>3. WrittenAt(table', table, k, branch, NoPr, status)
    BY <1>1, <2>2, WriteStep
  <2>4. park' = status
    BY <2>1 DEF RecordPark
  <2>5. table' # <<>>
    <3>1. k \in 1 .. k
      BY <2>3 DEF WrittenAt
    <3> QED BY <3>1
  <2> QED BY <2>3, <2>4, <2>5 DEF WrittenAt
<1>2. CASE ~Recording
  <2>1. park = park'
    BY <1>2 DEF Recording, TERMINAL_BRANCH_STATUSES, Next, vars, hist, World, Loop, LaneStep,
             Reply, Relabel, Retitle, PullEnds, Reopen, RetryButton,
             PlanTask, PollPulls, Dialog, Start, LaneFails, TriageDone, ReadReplies, ListingFails, Verdict, Ask, Ready,
             PatchParks, MultiParks, Parks, PatchCommits, MultiCommits, Commits, CreatePull, ClearLabels, Crash
  <2>2. table # <<>> /\ table[n].status = park /\ table[n].pr = NoPr
    BY <2>1 DEF ParkFits
  <2>3. n \in 1 .. n
    BY <1>0, <2>2
  <2>4. Touched(table', table)
    BY <1>2, TouchStep
  <2>5. table'[n].status = park => Fits(table')
    BY <1>0, <2>1, <2>2, <2>3, <2>4 DEF Touched
  <2>6. CASE table' = table
    BY <2>1, <2>2, <2>6
  <2>7. CASE Reply
    <3>1. table' = table \/ table' = CancelRows(table, Task, {"error", "dirty"}, Now)
      BY <2>7 DEF Reply, Hook, liftTransientPark
    <3>2. CASE table' = CancelRows(table, Task, {"error", "dirty"}, Now)
      <4>1. "closed" \notin {"error", "dirty"}
        OBVIOUS
      <4>2. table[n].status \notin {"error", "dirty"}
        BY <2>1, <2>2 DEF TERMINAL_BRANCH_STATUSES
      <4>3. table'[n] = table[n]
        BY <1>0, <2>3, <3>2, <4>1, <4>2, CancelTouches
      <4> QED BY <2>2, <2>5, <4>3
    <3> QED BY <2>6, <3>1, <3>2
  <2>8. CASE RetryButton \/ PlanTask
    <3>1. table' = CancelRows(table, Task, {"guardrail_blocked"}, Now)
      BY <2>8 DEF RetryButton, PlanTask, Release, CancelBlocked
    <3>2. "closed" \notin {"guardrail_blocked"}
      OBVIOUS
    <3>3. park # "guardrail_blocked"
      BY <2>1, <2>8 DEF RetryButton, PlanTask
    <3>4. table'[n] = table[n]
      BY <1>0, <2>2, <2>3, <3>1, <3>2, <3>3, CancelTouches
    <3> QED BY <2>2, <2>5, <3>4
  <2>9. CASE PollPulls \/ Dialog
    <3>1. PICK i \in 1 .. n, s \in {"closed", "open", "needs_human", "guardrail_blocked"} :
            table[i].pr # NoPr /\ table[i].status # "closed" /\ table' = SetStatus(table, i, s, Now)
      BY <1>0, <2>9 DEF PollPulls, Dialog
    <3>2. s \in BranchStatuses
      BY DEF BranchStatuses
    <3>3. table'[n] = table[n]
      BY <1>0, <2>2, <2>3, <3>1, <3>2, SetStatusTouches
    <3> QED BY <2>2, <2>5, <3>3
  <2>10. CASE ~(Reply \/ RetryButton \/ PlanTask \/ PollPulls \/ Dialog)
    <3>1. table' = table
      BY <1>2, <2>10 DEF Next, vars, rows, Recording, World, Loop, LaneStep, Relabel, Retitle, PullEnds, Reopen,
               Start, LaneFails, TriageDone, ReadReplies, ListingFails, Verdict, Ask, Ready, PatchParks, MultiParks, Parks,
               PatchCommits, MultiCommits, Commits, CreatePull, ClearLabels, Crash
    <3> QED BY <2>6, <3>1
  <2> QED BY <2>7, <2>8, <2>9, <2>10
<1> QED BY <1>1, <1>2

LEMMA AskFitsStep ==
  ASSUME Typed, AskFits, [Next]_vars
  PROVE  AskFits'
<1> DEFINE Asking == {"feedback", "analyst", "ask", "ready"}
           Waits == /\ Analyze /\ Labels \subseteq labels
                    /\ decision.state = "asks" /\ replies <= decision.asked
                    /\ pc \in {"idle", "feedback"} /\ (pc = "feedback" => awaits)
<1>0. /\ labels \subseteq Labels /\ "trigger" \in Labels /\ "answer" \in Labels /\ Labels = {"trigger", "answer"}
      /\ replies \in Nat /\ decision.asked \in Nat /\ mayAsk \in BOOLEAN /\ Analyze \in BOOLEAN
  BY PatchLanesConstants DEF Typed, Labels
<1>1. pc' \in Asking => Analyze
  <2>1. CASE Start
    BY <2>1, StartFacts DEF LaneEnds
  <2>2. CASE ~Start
    <3>1. pc' \in Asking => pc \in Asking
      BY <2>2 DEF Next, vars, work, World, Loop, LaneStep, Reply, Relabel, Retitle, PullEnds,
               Reopen, RetryButton, LaneEnds, Goes,
               PlanTask, PollPulls, Dialog, LaneFails, TriageDone, ReadReplies, ListingFails, Verdict, Ask, Ready, PatchParks,
               MultiParks, Parks, RecordPark, PatchCommits, MultiCommits, Commits, CreatePull, RecordPull,
               ClearLabels, PatchFails, Crash
    <3> QED BY <3>1 DEF AskFits
  <2> QED BY <2>1, <2>2
<1>2. pc' = "ask" => decision'.state = "asks"
  <2>1. CASE Start
    BY <2>1, StartFacts DEF LaneEnds
  <2>2. CASE Verdict
    BY <2>2 DEF Verdict, Goes
  <2>3. CASE ~Start /\ ~Verdict
    <3>1. pc' = "ask" => pc = "ask" /\ decision' = decision
      BY <2>3 DEF Next, vars, work, rows, World, Loop, LaneStep, Reply, Relabel, Retitle, PullEnds,
               Reopen, RetryButton, LaneEnds, Goes,
               PlanTask, PollPulls, Dialog, LaneFails, TriageDone, ReadReplies, ListingFails, Ask, Ready, PatchParks,
               MultiParks, Parks, RecordPark, PatchCommits, MultiCommits, Commits, CreatePull, RecordPull,
               ClearLabels, PatchFails, Crash
    <3> QED BY <3>1 DEF AskFits
  <2> QED BY <2>1, <2>2, <2>3
<1>3. ASSUME ~mayAsk' PROVE Waits'
  <2>1. CASE Ask
    <3>1. PICK labelled \in BOOLEAN :
            /\ labels' = IF labelled THEN labels \cup {"answer"} ELSE labels
            /\ mayAsk' = (~labelled \/ "trigger" \notin labels \/ replies > decision.asked)
      BY <2>1 DEF Ask
    <3>2. labelled /\ "trigger" \in labels /\ ~(replies > decision.asked)
      BY <1>3, <3>1
    <3>3. Labels \subseteq labels'
      BY <1>0, <3>1, <3>2
    <3>4. replies <= decision.asked
      BY <1>0, <3>2
    <3>5. Analyze /\ decision.state = "asks" /\ pc' = "idle" /\ decision' = decision /\ replies' = replies
      BY <2>1 DEF Ask, AskFits, LaneEnds, rows
    <3> QED BY <3>3, <3>4, <3>5
  <2>2. CASE ~Ask
    <3>1. ~mayAsk /\ ~Reply
      BY <1>0, <1>3, <2>2 DEF Next, vars, hist, World, Loop, LaneStep, Reply, Relabel, Retitle, PullEnds,
               Reopen, RetryButton,
               PlanTask, PollPulls, Dialog, LaneFails, TriageDone, ReadReplies, ListingFails, Verdict, Ready, PatchParks,
               MultiParks, Parks, RecordPark, PatchCommits, MultiCommits, Commits, CreatePull, RecordPull,
               ClearLabels, PatchFails, Crash, Start
    <3>2. /\ Analyze /\ Labels \subseteq labels /\ decision.state = "asks" /\ replies <= decision.asked
          /\ pc \in {"idle", "feedback"} /\ (pc = "feedback" => awaits)
      BY <3>1 DEF AskFits
    <3>3. CASE Relabel
      <4>1. labels \subseteq labels' /\ UNCHANGED <<replies, decision, pc, awaits>>
        BY <1>3, <3>3 DEF Relabel, rows, work
      <4> QED BY <3>2, <4>1
    <3>4. CASE Start
      <4>1. UNCHANGED <<labels, replies, decision>> /\ "trigger" \in labels /\ "answer" \in labels
        BY <1>0, <3>2, <3>4, StartFacts DEF forge, issue, rows
      <4>2. pc' = "idle" \/ (pc' = "feedback" /\ awaits')
        BY <3>2, <3>4, <4>1, StartFacts DEF LaneEnds
      <4> QED BY <3>2, <4>1, <4>2
    <3>5. CASE ReadReplies
      <4>1. pc = "feedback" /\ awaits /\ replies <= decision.asked
        BY <3>2, <3>5 DEF ReadReplies
      <4>2. LaneEnds /\ UNCHANGED <<labels, replies, decision>>
        BY <3>2, <3>5, <4>1 DEF ReadReplies, rows
      <4> QED BY <3>2, <4>2 DEF LaneEnds
    <3>6. CASE ~(Relabel \/ Start \/ ReadReplies)
      <4>1. UNCHANGED <<labels, replies, decision>> /\ (LaneEnds \/ UNCHANGED <<pc, awaits>>)
        BY <2>2, <3>1, <3>2, <3>6 DEF Next, vars, forge, issue, rows, work, World, Loop, LaneStep, Retitle,
           PullEnds,
                 Reopen, RetryButton,
                 PlanTask, PollPulls, Dialog, LaneFails, TriageDone, ListingFails, Verdict, Ready, PatchParks,
                 MultiParks, Parks, RecordPark, PatchCommits, MultiCommits, Commits, CreatePull, RecordPull,
                 ClearLabels, PatchFails, Crash
      <4> QED BY <3>2, <4>1 DEF LaneEnds
    <3> QED BY <3>3, <3>4, <3>5, <3>6
  <2> QED BY <2>1, <2>2
<1> QED BY <1>1, <1>2, <1>3 DEF AskFits

-----------------------------------------------------------------------------
(* The invariant, and what it says *)

Watch == Typed /\ InOrder /\ Rounds /\ LaneBranch /\ RowTells /\ KnownFits /\ PullsWatched

Wait == Typed /\ InOrder /\ LaneBranch /\ RowTells /\ ParkFits /\ AskFits

LEMMA InitWatch == Init => Watch /\ Wait
<1> SUFFICES ASSUME Init PROVE Watch /\ Wait
  OBVIOUS
<1>1. /\ table = <<>> /\ pulls = <<>> /\ pc = "idle" /\ park = "none" /\ mayAsk = TRUE
      /\ Len(table) = 0 /\ Len(pulls) = 0 /\ DOMAIN pulls = {} /\ 1 .. 0 = {}
  BY DEF Init
<1>2. Typed
  BY InitTyped
<1>3. InOrder /\ Rounds /\ RowTells /\ PullsWatched
  BY <1>1 DEF InOrder, Rounds, RowTells, PullsWatched
<1>4. LaneBranch /\ KnownFits
  BY <1>1 DEF LaneBranch, Patching, KnownFits
<1>5. ParkFits /\ AskFits
  BY <1>1 DEF ParkFits, AskFits, TERMINAL_BRANCH_STATUSES
<1> QED BY <1>2, <1>3, <1>4, <1>5 DEF Watch, Wait

LEMMA WatchIsInvariant == Spec => []Watch
<1>1. Init => Watch
  BY InitWatch
<1>2. Watch /\ [Next]_vars => Watch'
  BY TypedStep, InOrderStep, RoundsStep, LaneBranchStep, RowTellsStep, KnownFitsStep, PullsWatchedStep DEF Watch
<1> QED BY <1>1, <1>2, PTL DEF Spec

LEMMA WaitIsInvariant == Spec => []AskFits /\ []ParkFits
<1>1. Init => Wait
  BY InitWatch
<1>2. Watch /\ Wait /\ [Next]_vars => Wait'
  BY TypedStep, InOrderStep, LaneBranchStep, RowTellsStep, ParkFitsStep, AskFitsStep DEF Watch, Wait
<1>3. Wait => AskFits /\ ParkFits
  BY DEF Wait
<1> QED BY <1>1, <1>2, <1>3, WatchIsInvariant, PTL DEF Spec

\* The service does not forget a request that it opened for the issue (recordPrBranch replaces the row of
\* the branch, planTask and the Retry button cancel rows): while the request is open some row has its
\* number, unless the service died or the creation failed before it was recorded, or the row was cancelled.
THEOREM PullsAreWatched == Spec => []PullsWatched
<1>1. Watch => PullsWatched
  BY DEF Watch
<1> QED BY <1>1, WatchIsInvariant, PTL

\* pickLane and the active row of the lanes keep the agent from the issue while a request for it is open
\* that the service knows of.
THEOREM OneRequestAtATime == Spec => OneAtATime
<1>1. Watch /\ [Next]_vars =>
        [pc = "idle" /\ pc' = "agent" =>
           \A p \in DOMAIN pulls : pulls[p].state = "open" => p \in orphans \cup released]_vars
  <2> SUFFICES ASSUME Watch, [Next]_vars, pc = "idle", pc' = "agent"
               PROVE  \A p \in DOMAIN pulls : pulls[p].state = "open" => p \in orphans \cup released
    OBVIOUS
  <2>1. Start
    BY DEF Next, vars, work, World, Loop, LaneStep, Reply, Relabel, Retitle, PullEnds,
           Reopen, RetryButton, LaneEnds, Goes,
           PlanTask, PollPulls, Dialog, LaneFails, TriageDone, ReadReplies, ListingFails, Verdict, Ask, Ready, PatchParks,
           MultiParks, Parks, RecordPark, PatchCommits, MultiCommits, Commits, CreatePull, RecordPull,
           ClearLabels, PatchFails, Crash
  <2>2. \A p \in 1 .. Len(pulls) : ~Known(p)
    BY <2>1, StartQuiet DEF Watch
  <2>3. DOMAIN pulls = 1 .. Len(pulls)
    BY DEF Watch, Typed
  <2> QED BY <2>2, <2>3 DEF Known
<1> QED BY <1>1, WatchIsInvariant, PTL DEF Spec, OneAtATime

\* A park for a human (TERMINAL_BRANCH_STATUSES of worker.ts) holds: whatever comments, titles, webhooks and
\* crashes come in, no lane is engaged for the issue until the label is off or Retry is pressed.
THEOREM ParksHold == Spec => ParkHolds
<1>1. Watch /\ ParkFits /\ [Next]_vars =>
        [pc = "idle" /\ pc' \in {"agent", "feedback"} => park \notin TERMINAL_BRANCH_STATUSES]_vars
  <2> SUFFICES ASSUME Watch, ParkFits, [Next]_vars, pc = "idle", pc' \in {"agent", "feedback"},
                      park \in TERMINAL_BRANCH_STATUSES
               PROVE  FALSE
    OBVIOUS
  <2>1. Start
    BY DEF Next, vars, work, World, Loop, LaneStep, Reply, Relabel, Retitle, PullEnds,
           Reopen, RetryButton, LaneEnds, Goes,
           PlanTask, PollPulls, Dialog, LaneFails, TriageDone, ReadReplies, ListingFails, Verdict, Ask, Ready, PatchParks,
           MultiParks, Parks, RecordPark, PatchCommits, MultiCommits, Commits, CreatePull, RecordPull,
           ClearLabels, PatchFails, Crash
  <2>2. Typed /\ table # <<>> /\ table[Len(table)].status = park
    BY DEF Watch, ParkFits
  <2>3. Parked
    BY <2>2, NewestFacts DEF Parked
  <2>4. ~Parked
    BY <2>1, <2>2, StartFacts DEF LaneEnds
  <2> QED BY <2>3, <2>4
<1> QED BY <1>1, WatchIsInvariant, WaitIsInvariant, PTL DEF Spec, ParkHolds

\* The analyze lane (lanes/analyze.ts) does not ask again before somebody has answered: where it posts questions a
\* reply has come since the last ones, or a label that stands for them is missing.
THEOREM QuestionsAreAskedOnce == Spec => AsksOnce
<1>1. AskFits /\ [Next]_vars => [pc = "ask" /\ pc' = "idle" /\ crashes' = crashes => mayAsk]_vars
  BY DEF AskFits
<1> QED BY <1>1, WaitIsInvariant, PTL DEF Spec, AsksOnce

-----------------------------------------------------------------------------
(* The types of the module: the rounds stay within the requests there may be *)

\* Every closed row is of a request, and no two rows are of the same one.
OwnRequest ==
  /\ \A i \in Closed : table[i].pr # NoPr
  /\ \A i, j \in 1 .. Len(table) : table[i].pr = table[j].pr /\ table[i].pr # NoPr => i = j
  /\ status # "closed"

Bounded ==
  /\ configured \in PatchLaneNames
  /\ title \in 1 .. MaxTitles /\ replies <= MaxReplies /\ decision.asked <= MaxReplies
  /\ Len(pulls) <= MaxPulls
  /\ \A p \in 1 .. Len(pulls) : pulls[p].branch \in Branches
  /\ \A i \in 1 .. Len(table) : table[i].branch \in Branches
  /\ branch \in Branches
  /\ park \in BranchStatuses \cup {"none"}

\* A row that becomes closed is of a request (pollOurPrs).
LEMMA ClosingStep ==
  ASSUME Typed, OwnRequest, RowTells, [Next]_vars, ~Recording, NEW i \in Closed'
  PROVE  i \in 1 .. Len(table) /\ table[i].pr # NoPr
<1>0. /\ table \in Seq(Row) /\ DOMAIN table = 1 .. Len(table) /\ Touched(table', table)
      /\ i \in DOMAIN table' /\ table'[i].status = "closed"
  BY Rows, TouchStep DEF Typed, Closed
<1>1. i \in 1 .. Len(table)
  <2>1. DOMAIN table' = 1 .. Len(table')
    BY <1>0, Rows DEF Touched
  <2> QED BY <1>0, <2>1 DEF Touched
<1>2. CASE table'[i].status = table[i].status
  BY <1>0, <1>1, <1>2 DEF Closed, OwnRequest
<1>3. CASE Reply \/ RetryButton \/ PlanTask
  <2>1. PICK statuses \in {{"error", "dirty"}, {"guardrail_blocked"}} :
          table' = table \/ table' = CancelRows(table, Task, statuses, Now)
    BY <1>3 DEF Reply, Hook, liftTransientPark, RetryButton, PlanTask, Release, CancelBlocked
  <2>2. "closed" \notin statuses
    OBVIOUS
  <2>3. CASE table' = CancelRows(table, Task, statuses, Now)
    <3>1. IF table[i].status \in statuses THEN table'[i].status = "cancelled" ELSE table'[i] = table[i]
      BY <1>0, <1>1, <2>2, <2>3, CancelTouches
    <3> QED BY <1>0, <1>2, <1>1, <3>1
  <2> QED BY <1>2, <2>1, <2>3
<1>4. CASE PollPulls \/ Dialog
  <2>1. PICK k \in 1 .. Len(table), s \in {"closed", "open", "needs_human", "guardrail_blocked"} :
          table[k].pr # NoPr /\ table[k].status # "closed" /\ table' = SetStatus(table, k, s, Now)
    BY <1>0, <1>4 DEF PollPulls, Dialog
  <2>2. s \in BranchStatuses
    BY DEF BranchStatuses
  <2>3. \A j \in 1 .. Len(table) : j # k => table'[j] = table[j]
    BY <1>0, <2>1, <2>2, SetStatusTouches
  <2> QED BY <1>1, <1>2, <2>1, <2>3
<1>5. CASE ~(Reply \/ RetryButton \/ PlanTask \/ PollPulls \/ Dialog)
  <2>1. table' = table
    BY <1>5 DEF Next, vars, rows, Recording, World, Loop, LaneStep, Relabel, Retitle, PullEnds, Reopen,
             Start, LaneFails, TriageDone, ReadReplies, ListingFails, Verdict, Ask, Ready, PatchParks, MultiParks, Parks,
             PatchCommits, MultiCommits, Commits, CreatePull, ClearLabels, Crash
  <2> QED BY <1>2, <2>1
<1> QED BY <1>1, <1>3, <1>4, <1>5

LEMMA OwnRequestStep ==
  ASSUME Typed, InOrder, LaneBranch, RowTells, KnownFits, OwnRequest, [Next]_vars
  PROVE  OwnRequest'
<1>0. table \in Seq(Row) /\ DOMAIN table = 1 .. Len(table) /\ Len(table) \in Nat
  BY Rows DEF Typed
<1>0a. status' # "closed"
  BY DEF OwnRequest, Next, vars, work, World, Loop, LaneStep, Reply, Relabel, Retitle, PullEnds, Reopen,
     RetryButton,
         PlanTask, PollPulls, Dialog, Start, StartPatch, LaneFails, TriageDone, ReadReplies, ListingFails, Verdict, Ask, Ready,
         PatchParks, MultiParks, Parks, RecordPark, PatchCommits, MultiCommits, Commits, CreatePull, RecordPull,
         ClearLabels, PatchFails, Crash, LaneEnds
<1>1. CASE ~Recording
  <2>1. Touched(table', table)
    BY <1>1, TouchStep
  <2>2. \A i \in 1 .. Len(table') : i \in 1 .. Len(table) /\ table'[i].pr = table[i].pr
    BY <2>1 DEF Touched
  <2>3. ASSUME NEW i \in Closed' PROVE table'[i].pr # NoPr
    BY <1>1, <2>1, <2>3, ClosingStep DEF Touched
  <2>4. \A i, j \in 1 .. Len(table') : table'[i].pr = table'[j].pr /\ table'[i].pr # NoPr => i = j
    BY <2>2 DEF OwnRequest
  <2> QED BY <1>0a, <2>3, <2>4 DEF OwnRequest
<1>2. CASE Recording
  <2> DEFINE k == Len(table')
  <2>1. PICK number \in Nat, s \in BranchStatuses :
          /\ WrittenAt(table', table, k, branch, number, s)
          /\ \/ RecordPark /\ number = NoPr /\ s = status
             \/ RecordPull /\ number = Len(pulls) /\ s = "open"
             \/ PatchFails /\ number = NoPr /\ s = "error"
    BY <1>2, WriteStep
  <2>2. /\ table'[k].pr = number /\ table'[k].status = s /\ DOMAIN table' = 1 .. k
        /\ \A i \in 1 .. k : i # k => i \in 1 .. Len(table) /\ table'[i] = table[i]
    BY <2>1, Rows DEF WrittenAt
  <2>3. number = NoPr \/ \A i \in 1 .. Len(table) : table[i].pr # number
    BY <2>1 DEF RecordPull, KnownFits
  <2>4. s # "closed"
    BY <2>1 DEF OwnRequest
  <2>5. \A i \in Closed' : i \in 1 .. k /\ i # k
    BY <2>1, <2>2, <2>4 DEF Closed
  <2>6. ASSUME NEW i \in Closed' PROVE table'[i].pr # NoPr
    <3>1. i \in 1 .. Len(table) /\ table'[i] = table[i] /\ table'[i].status = "closed"
      BY <2>2, <2>5 DEF Closed
    <3> QED BY <1>0, <3>1 DEF OwnRequest, Closed
  <2>7. \A i, j \in 1 .. k : table'[i].pr = table'[j].pr /\ table'[i].pr # NoPr => i = j
    BY <2>2, <2>3 DEF OwnRequest
  <2> QED BY <1>0a, <2>6, <2>7 DEF OwnRequest
<1> QED BY <1>1, <1>2

\* So there are no more closed rows than requests.
LEMMA ClosedFew ==
  ASSUME Typed, RowTells, OwnRequest
  PROVE  Cardinality(Closed) <= Len(pulls)
<1> DEFINE f == [i \in Closed |-> table[i].pr]
           T == 1 .. Len(pulls)
<1>1. Len(pulls) \in Nat /\ IsFiniteSet(T) /\ Cardinality(T) = Len(pulls)
  <2>1. Len(pulls) \in Nat
    BY DEF Typed
  <2>2. IsFiniteSet(T) /\ Cardinality(T) = IF 1 > Len(pulls) THEN 0 ELSE Len(pulls) - 1 + 1
    BY <2>1, FS_Interval
  <2> HIDE DEF T
  <2> QED BY <2>1, <2>2
<1>2. \A i \in Closed : i \in 1 .. Len(table) /\ table[i].pr \in Nat
  BY ClosedFinite, Rows, Columns DEF Typed
<1>3. \A i \in Closed : table[i].pr \in T
  BY <1>1, <1>2 DEF RowTells, OwnRequest, NoPr
<1>4. f \in [Closed -> T] /\ \A i, j \in Closed : f[i] = f[j] => i = j
  BY <1>2, <1>3 DEF OwnRequest
<1>5. f \in Injection(Closed, T)
  BY <1>4 DEF Injection, IsInjective
<1> HIDE DEF f, T
<1> QED BY <1>1, <1>5, FS_Injection

LEMMA BoundedBranch ==
  ASSUME Typed, RowTells, OwnRequest, Bounded, [Next]_vars
  PROVE  branch' \in Branches
<1>0. /\ MaxTitles \in Nat \ {0} /\ MaxPulls \in Nat \ {0} /\ title \in 1 .. MaxTitles
      /\ Len(pulls) \in Nat /\ Len(pulls) <= MaxPulls
  BY PatchLanesConstants, PullsStep DEF Bounded
<1>1. CASE branch' = branch \/ LaneEnds
  <2>1. NoBranch \in Branches
    BY <1>0 DEF NoBranch, Branches
  <2> QED BY <1>1, <2>1 DEF Bounded, LaneEnds
<1>2. CASE Start
  <2>1. Cardinality(Closed) \in Nat /\ Cardinality(Closed) <= MaxPulls
    BY <1>0, ClosedFew, ClosedFinite
  <2>2. PatchBranch = [title |-> title, round |-> Cardinality(Closed) + 1]
    BY DEF PatchBranch, Closed
  <2>3. PatchBranch \in Branches
    BY <1>0, <2>1, <2>2 DEF Branches
  <2>4. MultiBranch \in Branches
    BY <1>0 DEF MultiBranch, Branches
  <2> QED BY <1>1, <1>2, <2>3, <2>4, StartFacts
<1>3. CASE ~Start
  <2>1. branch' = branch \/ LaneEnds
    BY <1>3 DEF Next, vars, work, World, Loop, LaneStep, Reply, Relabel, Retitle, PullEnds, Reopen, RetryButton,
             PlanTask, PollPulls, Dialog, LaneFails, TriageDone, ReadReplies, ListingFails, Verdict, Ask, Ready, PatchParks,
             MultiParks, Parks, RecordPark, PatchCommits, MultiCommits, Commits, CreatePull, RecordPull, ClearLabels,
             PatchFails, Crash
  <2> QED BY <1>1, <2>1
<1> QED BY <1>2, <1>3

LEMMA BoundedPulls ==
  ASSUME Typed, Bounded, [Next]_vars
  PROVE  Len(pulls') <= MaxPulls /\ \A p \in 1 .. Len(pulls') : pulls'[p].branch \in Branches
<1>0. /\ pulls \in Seq(Pull) /\ Len(pulls) \in Nat /\ DOMAIN pulls = 1 .. Len(pulls) /\ MaxPulls \in Nat
      /\ branch \in Branch
  BY PatchLanesConstants DEF Typed
<1>1. CASE CreatePull
  <2> DEFINE new == [branch |-> branch, state |-> "open"]
  <2>1. new \in Pull /\ new.branch = branch /\ pulls' = Append(pulls, new) /\ Len(pulls) < MaxPulls
    BY <1>0, <1>1 DEF CreatePull, Pull
  <2> HIDE DEF new
  <2>2. /\ Len(pulls') = Len(pulls) + 1 /\ pulls'[Len(pulls) + 1] = new
        /\ \A p \in 1 .. Len(pulls) : pulls'[p] = pulls[p]
    BY <1>0, <2>1, Appended
  <2>3. \A p \in 1 .. Len(pulls') : p = Len(pulls) + 1 \/ p \in 1 .. Len(pulls)
    BY <1>0, <2>2
  <2> QED BY <1>0, <2>1, <2>2, <2>3 DEF Bounded
<1>2. CASE PullEnds
  <2>1. PICK p \in 1 .. Len(pulls) : pulls' = [pulls EXCEPT ![p].state = "closed"]
    BY <1>0, <1>2 DEF PullEnds
  <2> DEFINE r == [pulls[p] EXCEPT !.state = "closed"]
  <2>2. pulls[p] \in Pull
    BY <1>0
  <2>3. r.branch = pulls[p].branch
    BY <2>2 DEF Pull
  <2>4. pulls' = [q \in 1 .. Len(pulls) |-> IF q = p THEN r ELSE pulls[q]]
    BY <1>0, <2>1
  <2> HIDE DEF r
  <2>5. Len(pulls') = Len(pulls) /\ \A q \in 1 .. Len(pulls) : pulls'[q].branch = pulls[q].branch
    BY <1>0, <2>3, <2>4
  <2> QED BY <2>5 DEF Bounded
<1>3. CASE ~PullEnds /\ ~CreatePull
  <2>1. pulls' = pulls
    BY <1>3 DEF Next, vars, forge, World, Loop, LaneStep, Reply, Relabel, Retitle, Reopen, RetryButton,
             PlanTask, PollPulls, Dialog, Start, LaneFails, TriageDone, ReadReplies, ListingFails, Verdict, Ask, Ready, PatchParks,
             MultiParks, Parks, RecordPark, PatchCommits, MultiCommits, Commits, RecordPull, ClearLabels,
             PatchFails, Crash
  <2> QED BY <2>1 DEF Bounded
<1> QED BY <1>1, <1>2, <1>3

LEMMA BoundedRows ==
  ASSUME Typed, InOrder, LaneBranch, RowTells, Bounded, [Next]_vars
  PROVE  \A i \in 1 .. Len(table') : table'[i].branch \in Branches
<1>1. CASE ~Recording
  BY <1>1, TouchStep DEF Touched, Bounded
<1>2. CASE Recording
  <2>1. PICK number \in Nat, s \in BranchStatuses : WrittenAt(table', table, Len(table'), branch, number, s)
    BY <1>2, WriteStep
  <2>2. /\ table'[Len(table')].branch = branch
        /\ \A i \in 1 .. Len(table') : i # Len(table') => i \in 1 .. Len(table) /\ table'[i] = table[i]
    BY <2>1 DEF WrittenAt
  <2> QED BY <2>2 DEF Bounded
<1> QED BY <1>1, <1>2

LEMMA BoundedStep ==
  ASSUME Typed, InOrder, LaneBranch, RowTells, OwnRequest, Bounded, [Next]_vars
  PROVE  Bounded'
<1>0. /\ title \in Nat /\ replies \in Nat /\ MaxTitles \in Nat /\ MaxReplies \in Nat
      /\ decision.asked <= MaxReplies /\ title \in 1 .. MaxTitles /\ replies <= MaxReplies
      /\ park \in BranchStatuses \cup {"none"} /\ status \in BranchStatuses
  BY PatchLanesConstants DEF Typed, Bounded
<1>1. configured' \in PatchLaneNames
  BY ScalarsStep DEF Bounded
<1>2. title' = title \/ (title < MaxTitles /\ title' = title + 1)
  BY DEF Next, vars, forge, issue, World, Loop, LaneStep, Reply, Relabel, Retitle, PullEnds, Reopen, RetryButton,
         PlanTask, PollPulls, Dialog, Start, LaneFails, TriageDone, ReadReplies, ListingFails, Verdict, Ask, Ready, PatchParks,
         MultiParks, Parks, RecordPark, PatchCommits, MultiCommits, Commits, CreatePull, RecordPull, ClearLabels,
         PatchFails, Crash
<1>3. replies' = replies \/ (replies < MaxReplies /\ replies' = replies + 1)
  BY DEF Next, vars, forge, issue, World, Loop, LaneStep, Reply, Relabel, Retitle, PullEnds, Reopen, RetryButton,
         PlanTask, PollPulls, Dialog, Start, LaneFails, TriageDone, ReadReplies, ListingFails, Verdict, Ask, Ready, PatchParks,
         MultiParks, Parks, RecordPark, PatchCommits, MultiCommits, Commits, CreatePull, RecordPull, ClearLabels,
         PatchFails, Crash
<1>4. decision' = decision \/ \E s \in {"review", "ready", "asks", "patch"}, n \in {0, replies} :
                                  decision' = [state |-> s, asked |-> n]
  BY DEF Next, vars, rows, World, Loop, LaneStep, Reply, Relabel, Retitle, PullEnds, Reopen, RetryButton,
         PlanTask, PollPulls, Dialog, Start, LaneFails, TriageDone, ReadReplies, ListingFails, Verdict, Ask, Ready, PatchParks,
         MultiParks, Parks, RecordPark, PatchCommits, MultiCommits, Commits, CreatePull, RecordPull, ClearLabels,
         PatchFails, Crash
<1>5. park' \in {park, "none", "error", status}
  BY DEF Next, vars, hist, World, Loop, LaneStep, Reply, Relabel, Retitle, PullEnds, Reopen, RetryButton,
         PlanTask, PollPulls, Dialog, Start, LaneFails, TriageDone, ReadReplies, ListingFails, Verdict, Ask, Ready, PatchParks,
         MultiParks, Parks, RecordPark, PatchCommits, MultiCommits, Commits, CreatePull, RecordPull, ClearLabels,
         PatchFails, Crash
<1>6. title' \in 1 .. MaxTitles
  BY <1>0, <1>2
<1>7. replies' <= MaxReplies
  BY <1>0, <1>3
<1>8. decision'.asked <= MaxReplies
  BY <1>0, <1>4
<1>9. park' \in BranchStatuses \cup {"none"}
  BY <1>0, <1>5 DEF BranchStatuses
<1> QED BY <1>1, <1>6, <1>7, <1>8, <1>9, BoundedBranch, BoundedPulls, BoundedRows DEF Bounded

\* Every variable keeps its type: the lanes number the branches of an issue no further than the requests
\* that were opened for it, because every closed row is of a request of its own (lanes/patch.ts names the
\* branch after the rows that are closed).
THEOREM TypeCorrect == Spec => []TypeOK
<1>1. Init => OwnRequest /\ Bounded
  <2> SUFFICES ASSUME Init PROVE OwnRequest /\ Bounded
    OBVIOUS
  <2>1. /\ table = <<>> /\ pulls = <<>> /\ Len(table) = 0 /\ Len(pulls) = 0 /\ DOMAIN table = {} /\ 1 .. 0 = {}
        /\ {MaxTitles, MaxPulls} \subseteq Nat \ {0} /\ MaxReplies \in Nat
    BY PatchLanesConstants DEF Init
  <2>2. branch \in Branches
    BY <2>1 DEF Init, NoBranch, Branches
  <2>3. decision.asked <= MaxReplies
    BY <2>1 DEF Init, Undecided
  <2> QED BY <2>1, <2>2, <2>3 DEF Init, OwnRequest, Closed, Bounded, BranchStatuses
<1>2. Watch /\ OwnRequest /\ Bounded /\ [Next]_vars => (OwnRequest /\ Bounded)'
  BY OwnRequestStep, BoundedStep DEF Watch
<1>3. Watch /\ Bounded => TypeOK
  <2> SUFFICES ASSUME Watch, Bounded PROVE TypeOK
    OBVIOUS
  <2>1. /\ Typed /\ InOrder /\ RowTells /\ pulls \in Seq(Pull) /\ table \in Seq(Row)
        /\ DOMAIN pulls = 1 .. Len(pulls) /\ DOMAIN table = 1 .. Len(table) /\ Len(pulls) \in Nat
    BY DEF Watch, Typed
  <2>2. \A p \in DOMAIN pulls : pulls[p] \in [branch : Branches, state : {"open", "closed"}]
    <3> SUFFICES ASSUME NEW p \in 1 .. Len(pulls)
                 PROVE  pulls[p] \in [branch : Branches, state : {"open", "closed"}]
      BY <2>1
    <3>1. pulls[p] \in Pull
      BY <2>1
    <3>2. pulls[p].branch \in Branches
      BY DEF Bounded
    <3> QED BY <3>1, <3>2 DEF Pull
  <2>3. \A i \in DOMAIN table : /\ table[i].branch \in Branches /\ table[i].status \in BranchStatuses
                                /\ table[i].pr \in 0 .. Len(pulls)
    <3> SUFFICES ASSUME NEW i \in 1 .. Len(table)
                 PROVE  /\ table[i].branch \in Branches /\ table[i].status \in BranchStatuses
                        /\ table[i].pr \in 0 .. Len(pulls)
      BY <2>1
    <3>1. table[i].pr \in Nat /\ table[i].status \in BranchStatuses
      BY <2>1, Rows, Columns
    <3>2. table[i].pr \in 0 .. Len(pulls)
      BY <2>1, <3>1 DEF RowTells, NoPr
    <3> QED BY <3>1, <3>2 DEF Bounded
  <2>4. decision \in [state : {"none", "asks", "ready", "patch", "review"}, asked : 0 .. MaxReplies]
    BY <2>1, PatchLanesConstants DEF Typed, Bounded
  <2>5. replies \in 0 .. MaxReplies
    BY <2>1, PatchLanesConstants DEF Typed, Bounded
  <2> QED BY <2>1, <2>2, <2>3, <2>4, <2>5 DEF TypeOK, Typed, Bounded, InOrder
<1> QED BY <1>1, <1>2, <1>3, WatchIsInvariant, PTL DEF Spec
=============================================================================
