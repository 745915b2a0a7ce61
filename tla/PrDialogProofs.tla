--------------------------- MODULE PrDialogProofs ---------------------------
(***************************************************************************)
(* What holds of the life of a pull request for every configuration and    *)
(* any number of comments, pushes, moves of the base and crashes: the      *)
(* types, that a rebase never takes a human's commit away, that a rebased  *)
(* request is merged green, that the attempts at its conflicts are         *)
(* bounded, and that no comment is passed over.                            *)
(***************************************************************************)
EXTENDS PrDialog, TLAPS

Tasks == {IssueTask, PrTask}

Row == [task : Tasks, branch : {Branch}, pr : {Number}, status : BranchStatuses,
        iterations : Nat, conflicts : Nat, seen : Nat]

\* A table of the request: the row of the issue, and perhaps one under the request's own task.
Fits(t, now) ==
  /\ t \in Seq(Row) /\ Len(t) \in {1, 2}
  /\ \A i \in 1 .. Len(t) : t[i].seen <= now /\ t[i].task = IF i = 1 THEN IssueTask ELSE PrTask

\* The conflict resolutions that its rows count.
Counted(t) == IF Len(t) = 1 THEN t[1].conflicts ELSE t[1].conflicts + t[2].conflicts

\* The lane before the attempt at the conflicts is counted, during it, and with the agent engaged.
Uncounted == {"feedback", "agent", "push", "refetch", "force", "pushed", "gate", "setup",
              "rebase", "resolve", "lease", "rebased"}
Resolving == {"setup", "rebase", "resolve", "lease", "rebased"}
Engaged   == {"resolve", "lease", "rebased"}

\* The inductive invariant behind the types.
Typed ==
  /\ comments \in 0 .. MaxComments /\ Fits(table, comments)
  /\ queued \in BOOLEAN /\ draft \in BOOLEAN /\ conflict \in BOOLEAN
  /\ state \in {"open", "merged", "closed"}
  /\ head \in [id : Nat, by : {"bot", "rebase", "human"}, humans : SUBSET (1 .. MaxHumanPushes)]
  /\ ci \in CiStates /\ threads \subseteq 1 .. comments
  /\ pc \in Turns
  /\ my \in [id : Nat, task : Tasks, iterations : Nat, conflicts : Nat, seen : Nat]
  /\ my.id <= Len(table) /\ (pc # "idle" => my.id # 0)
  /\ fresh \subseteq 1 .. comments
  /\ wd \in [base : Nat, humans : SUBSET (1 .. MaxHumanPushes), moves : 0 .. MaxBaseMoves]
  /\ just \in BOOLEAN /\ lease \in Nat /\ pr \in Nat /\ steps \in 0 .. MaxSteps
  /\ moves \in 0 .. MaxBaseMoves /\ humans \in 0 .. MaxHumanPushes
  /\ attempts \in Nat /\ crashes \in Nat
  /\ taken \subseteq 1 .. comments /\ idle \subseteq 1 .. comments /\ passed \subseteq 1 .. comments
  /\ mergedAs \in [ci : CiStates, by : {"none", "bot", "rebase", "human"}, just : BOOLEAN]

\* As long as the branch is where the lease says, the clone has all the humans' commits.
LeaseFits ==
  pc \in {"rebase", "resolve", "lease"} =>
    /\ lease <= head.id
    /\ lease = head.id => wd.humans = head.humans

\* After a rebase the gate looks at the checks of the rebased head, unless a human pushed since.
CheckedHead ==
  /\ just => pc \in {"threads", "checks", "merge", "merged"}
  /\ pc \in {"threads", "checks"} /\ just /\ head.by = "rebase" => pr = head.id
  /\ pc = "merge" /\ just /\ head.by = "rebase" /\ RequireChecks => ci = "success"

\* Every attempt is counted on a row, but for the one under way and those that died with the process.
AttemptsCounted ==
  /\ \A i \in 1 .. Len(table) : table[i].conflicts <= MaxConflicts
  /\ pc \in Uncounted => table[my.id].conflicts = my.conflicts
  /\ pc \in Resolving => my.conflicts < MaxConflicts
  /\ attempts <= Counted(table) + crashes + (IF pc \in Engaged THEN 1 ELSE 0)

\* Comments from before the lane woke that no agent has seen yet.
Waiting == idle \ (taken \cup passed)

\* They are in the lane's hands until an agent has run, after which there is none.
InHand ==
  /\ pc \in {"feedback", "agent"} => \A c \in Waiting : my.seen < c
  /\ pc = "agent" => Waiting \subseteq fresh
  /\ pc \notin {"idle", "feedback", "agent"} => Waiting = {}

-----------------------------------------------------------------------------
(* The statements on the table *)

LEMMA Shape ==
  ASSUME NEW t, NEW now \in Nat, Fits(t, now)
  PROVE  /\ Len(t) \in {1, 2} /\ DOMAIN t = 1 .. Len(t)
         /\ \A i \in 1 .. Len(t) : t[i] \in Row /\ t[i].conflicts \in Nat /\ t[i].seen \in Nat
<1>1. t \in Seq(Row) /\ Len(t) \in {1, 2}
  BY DEF Fits
<1>2. \A i \in 1 .. Len(t) : t[i] \in Row
  BY <1>1
<1>3. \A r \in Row : r.conflicts \in Nat /\ r.seen \in Nat
  BY DEF Row
<1> QED BY <1>1, <1>2, <1>3

\* A sequence with other rows of the same tasks in the places of those there were.
LEMMA Rewritten ==
  ASSUME NEW t, NEW now \in Nat, Fits(t, now), NEW u,
         u = [i \in 1 .. Len(t) |-> u[i]],
         \A i \in 1 .. Len(t) : u[i] \in Row /\ u[i].task = t[i].task /\ u[i].seen <= now
  PROVE  Fits(u, now) /\ Len(u) = Len(t)
<1>1. Len(t) \in Nat /\ Len(t) \in {1, 2}
  BY Shape
<1>2. u \in Seq(Row) /\ Len(u) = Len(t)
  BY <1>1
<1>3. \A i \in 1 .. Len(u) : u[i].seen <= now /\ u[i].task = IF i = 1 THEN IssueTask ELSE PrTask
  BY <1>2 DEF Fits
<1> QED BY <1>1, <1>2, <1>3 DEF Fits

\* One row replaced by another of the same task.
LEMMA RowReplaced ==
  ASSUME NEW t, NEW now \in Nat, Fits(t, now), NEW i \in 1 .. Len(t), NEW r \in Row,
         r.task = t[i].task, r.seen = now,
         NEW u, u = [j \in 1 .. Len(t) |-> IF j = i THEN r ELSE t[j]]
  PROVE  /\ Fits(u, now) /\ Len(u) = Len(t) /\ u[i] = r
         /\ \A j \in 1 .. Len(t) : j # i => u[j] = t[j]
<1>1. \A j \in 1 .. Len(t) : t[j] \in Row /\ t[j].seen <= now
  BY Shape DEF Fits
<1>2. \A j \in 1 .. Len(t) : u[j] = IF j = i THEN r ELSE t[j]
  OBVIOUS
<1>3. \A j \in 1 .. Len(t) : u[j] \in Row /\ u[j].task = t[j].task /\ u[j].seen <= now
  BY <1>1, <1>2
<1>4. u = [j \in 1 .. Len(t) |-> u[j]]
  BY <1>2
<1>5. Fits(u, now) /\ Len(u) = Len(t)
  BY <1>3, <1>4, Rewritten
<1> QED BY <1>2, <1>5

\* What the statements on one row change, and what they do not.
LEMMA SetStatusFits ==
  ASSUME NEW t, NEW now \in Nat, Fits(t, now), NEW i \in 1 .. Len(t), NEW status \in BranchStatuses
  PROVE  LET u == SetStatus(t, i, status, now) IN
         /\ Fits(u, now) /\ Len(u) = Len(t)
         /\ \A j \in 1 .. Len(t) : u[j].conflicts = t[j].conflicts
<1> DEFINE u == SetStatus(t, i, status, now)
           r == [t[i] EXCEPT !.status = status, !.seen = now]
<1>1. DOMAIN t = 1 .. Len(t) /\ t[i] \in Row
  BY Shape
<1>2. r \in Row /\ r.task = t[i].task /\ r.seen = now /\ r.conflicts = t[i].conflicts
  BY <1>1 DEF Row
<1>3. u = [j \in 1 .. Len(t) |-> IF j = i THEN r ELSE t[j]]
  BY <1>1 DEF SetStatus
<1> HIDE DEF r, u
<1>4. Fits(u, now) /\ Len(u) = Len(t) /\ u[i] = r /\ \A j \in 1 .. Len(t) : j # i => u[j] = t[j]
  BY <1>2, <1>3, RowReplaced
<1>5. \A j \in 1 .. Len(t) : u[j].conflicts = t[j].conflicts
  BY <1>2, <1>4
<1> QED BY <1>4, <1>5 DEF u

LEMMA BumpIterationFits ==
  ASSUME NEW t, NEW now \in Nat, Fits(t, now), NEW i \in 1 .. Len(t)
  PROVE  LET u == bumpIteration(t, i, now) IN
         /\ Fits(u, now) /\ Len(u) = Len(t)
         /\ \A j \in 1 .. Len(t) : u[j].conflicts = t[j].conflicts
<1> DEFINE u == bumpIteration(t, i, now)
           n == t[i].iterations + 1
           r == [t[i] EXCEPT !.iterations = n, !.seen = now]
<1>1. DOMAIN t = 1 .. Len(t) /\ t[i] \in Row /\ n \in Nat
  BY Shape DEF Row
<1>2. u = [j \in 1 .. Len(t) |-> IF j = i THEN r ELSE t[j]]
  BY <1>1 DEF bumpIteration
<1> HIDE DEF n
<1>3. r \in Row /\ r.task = t[i].task /\ r.seen = now /\ r.conflicts = t[i].conflicts
  BY <1>1 DEF Row
<1> HIDE DEF r, u
<1>4. Fits(u, now) /\ Len(u) = Len(t) /\ u[i] = r /\ \A j \in 1 .. Len(t) : j # i => u[j] = t[j]
  BY <1>2, <1>3, RowReplaced
<1>5. \A j \in 1 .. Len(t) : u[j].conflicts = t[j].conflicts
  BY <1>3, <1>4
<1> QED BY <1>4, <1>5 DEF u

LEMMA BumpConflictsFits ==
  ASSUME NEW t, NEW now \in Nat, Fits(t, now), NEW i \in 1 .. Len(t)
  PROVE  LET u == bumpConflictResolutions(t, i, now) IN
         /\ Fits(u, now) /\ Len(u) = Len(t)
         /\ \A j \in 1 .. Len(t) : u[j].conflicts = IF j = i THEN t[j].conflicts + 1 ELSE t[j].conflicts
<1> DEFINE u == bumpConflictResolutions(t, i, now)
           n == t[i].conflicts + 1
           r == [t[i] EXCEPT !.conflicts = n, !.seen = now]
<1>1. DOMAIN t = 1 .. Len(t) /\ t[i] \in Row /\ n \in Nat
  BY Shape DEF Row
<1>2. u = [j \in 1 .. Len(t) |-> IF j = i THEN r ELSE t[j]]
  BY <1>1 DEF bumpConflictResolutions
<1> HIDE DEF n
<1>3. r \in Row /\ r.task = t[i].task /\ r.seen = now /\ r.conflicts = n
  BY <1>1 DEF Row
<1> HIDE DEF r, u
<1> USE DEF n
<1>4. Fits(u, now) /\ Len(u) = Len(t) /\ u[i] = r /\ \A j \in 1 .. Len(t) : j # i => u[j] = t[j]
  BY <1>2, <1>3, RowReplaced
<1>5. \A j \in 1 .. Len(t) : u[j].conflicts = IF j = i THEN t[j].conflicts + 1 ELSE t[j].conflicts
  BY <1>3, <1>4
<1> QED BY <1>4, <1>5 DEF u

LEMMA HeadShaFits ==
  ASSUME NEW t, NEW now \in Nat, Fits(t, now), NEW i \in 1 .. Len(t)
  PROVE  LET u == updateBranchHeadSha(t, i, now) IN
         /\ Fits(u, now) /\ Len(u) = Len(t)
         /\ \A j \in 1 .. Len(t) : u[j].conflicts = t[j].conflicts
<1> DEFINE u == updateBranchHeadSha(t, i, now)
           r == [t[i] EXCEPT !.seen = now]
<1>1. DOMAIN t = 1 .. Len(t) /\ t[i] \in Row
  BY Shape
<1>2. r \in Row /\ r.task = t[i].task /\ r.seen = now /\ r.conflicts = t[i].conflicts
  BY <1>1 DEF Row
<1>3. u = [j \in 1 .. Len(t) |-> IF j = i THEN r ELSE t[j]]
  BY <1>1 DEF updateBranchHeadSha
<1> HIDE DEF r, u
<1>4. Fits(u, now) /\ Len(u) = Len(t) /\ u[i] = r /\ \A j \in 1 .. Len(t) : j # i => u[j] = t[j]
  BY <1>2, <1>3, RowReplaced
<1>5. \A j \in 1 .. Len(t) : u[j].conflicts = t[j].conflicts
  BY <1>2, <1>4
<1> QED BY <1>4, <1>5 DEF u

\* A cancelling statement changes some rows of the task; recordPrBranch adds a row at most.
LEMMA CancelFits ==
  ASSUME NEW t, NEW now \in Nat, Fits(t, now), NEW task, NEW statuses
  PROVE  LET u == CancelRows(t, task, statuses, now) IN
         /\ Fits(u, now) /\ Len(u) = Len(t)
         /\ \A j \in 1 .. Len(t) : u[j].conflicts = t[j].conflicts
<1> DEFINE u == CancelRows(t, task, statuses, now)
           r(j) == [t[j] EXCEPT !.status = "cancelled", !.seen = now]
           hit(j) == t[j].task = task /\ t[j].status \in statuses
<1>1. DOMAIN t = 1 .. Len(t) /\ \A j \in 1 .. Len(t) : t[j] \in Row /\ t[j].seen <= now
  BY Shape DEF Fits
<1>2. \A j \in 1 .. Len(t) : r(j) \in Row /\ r(j).task = t[j].task /\ r(j).seen = now /\ r(j).conflicts = t[j].conflicts
  BY <1>1 DEF Row, BranchStatuses
<1>3. u = [j \in 1 .. Len(t) |-> IF hit(j) THEN r(j) ELSE t[j]]
  BY <1>1 DEF CancelRows
<1> HIDE DEF r, hit, u
<1>4. \A j \in 1 .. Len(t) : u[j] = r(j) \/ u[j] = t[j]
  BY <1>3
<1>5. \A j \in 1 .. Len(t) : u[j] \in Row /\ u[j].task = t[j].task /\ u[j].seen <= now
                             /\ u[j].conflicts = t[j].conflicts
  BY <1>1, <1>2, <1>4
<1>6. u = [j \in 1 .. Len(t) |-> u[j]]
  BY <1>3
<1>7. Fits(u, now) /\ Len(u) = Len(t)
  BY <1>5, <1>6, Rewritten
<1> QED BY <1>5, <1>7 DEF u

LEMMA Appended ==
  ASSUME NEW S, NEW s \in Seq(S), NEW e \in S
  PROVE  /\ Append(s, e) \in Seq(S)
         /\ Len(Append(s, e)) = Len(s) + 1
         /\ \A i \in 1 .. Len(s) : Append(s, e)[i] = s[i]
         /\ Append(s, e)[Len(s) + 1] = e
OBVIOUS

LEMMA RecordFits ==
  ASSUME NEW t, NEW now \in Nat, Fits(t, now), NEW task \in Tasks, NEW status \in BranchStatuses
  PROVE  LET u == recordPrBranch(t, task, Branch, Number, status, now) IN
         /\ Fits(u, now) /\ Len(t) <= Len(u)
         /\ \A j \in 1 .. Len(t) : u[j].conflicts = t[j].conflicts
         /\ \A j \in 1 .. Len(u) : j > Len(t) => u[j].conflicts = 0
<1> DEFINE u == recordPrBranch(t, task, Branch, Number, status, now)
           r(j) == [t[j] EXCEPT !.pr = Number, !.status = status, !.seen = now]
           hit(j) == t[j].task = task /\ t[j].branch = Branch
           new == BranchRow(task, Branch, Number, status, now)
<1>1. /\ DOMAIN t = 1 .. Len(t) /\ Len(t) \in {1, 2} /\ t \in Seq(Row)
      /\ \A j \in 1 .. Len(t) : t[j] \in Row /\ t[j].seen <= now /\ t[j].branch = Branch
      /\ \A j \in 1 .. Len(t) : t[j].task = IF j = 1 THEN IssueTask ELSE PrTask
  <2>1. \A s \in Row : s.branch = Branch
    BY DEF Row
  <2> QED BY <2>1, Shape DEF Fits
<1>2. \A j \in 1 .. Len(t) : r(j) \in Row /\ r(j).task = t[j].task /\ r(j).seen = now /\ r(j).conflicts = t[j].conflicts
  BY <1>1, ZenonT(30) DEF Row
<1>3. new \in Row /\ new.task = task /\ new.seen = now /\ new.conflicts = 0
  BY DEF BranchRow, Row
<1>4. u = IF \E j \in 1 .. Len(t) : hit(j)
            THEN [j \in 1 .. Len(t) |-> IF hit(j) THEN r(j) ELSE t[j]]
            ELSE Append(t, new)
  BY <1>1 DEF recordPrBranch
<1>5. \A j \in 1 .. Len(t) : hit(j) <=> t[j].task = task
  BY <1>1
<1> HIDE DEF r, hit, u, new
<1>6. CASE \E j \in 1 .. Len(t) : hit(j)
  <2>1. u = [j \in 1 .. Len(t) |-> IF hit(j) THEN r(j) ELSE t[j]]
    BY <1>4, <1>6
  <2>2. \A j \in 1 .. Len(t) : u[j] = r(j) \/ u[j] = t[j]
    BY <2>1
  <2>3. \A j \in 1 .. Len(t) : u[j] \in Row /\ u[j].task = t[j].task /\ u[j].seen <= now
                               /\ u[j].conflicts = t[j].conflicts
    BY <1>1, <1>2, <2>2
  <2>4. u = [j \in 1 .. Len(t) |-> u[j]]
    BY <2>1
  <2>5. Fits(u, now) /\ Len(u) = Len(t)
    BY <2>3, <2>4, Rewritten
  <2>6. Len(t) <= Len(u) /\ \A j \in 1 .. Len(u) : ~(j > Len(t))
    BY <1>1, <2>5
  <2> QED BY <2>3, <2>5, <2>6 DEF u
<1>7. CASE ~\E j \in 1 .. Len(t) : hit(j)
  <2>1. Len(t) = 1 /\ task = PrTask
    BY <1>1, <1>5, <1>7 DEF Tasks
  <2>2. /\ u \in Seq(Row) /\ Len(u) = 2 /\ u[1] = t[1] /\ u[2] = new
    <3>1. u = Append(t, new) /\ t \in Seq(Row) /\ new \in Row
      BY <1>1, <1>3, <1>4, <1>7
    <3>2. Len(t) + 1 = 2 /\ 1 \in 1 .. Len(t)
      BY <2>1
    <3> QED BY <3>1, <3>2, Appended
  <2>3. Fits(u, now)
    BY <1>1, <1>3, <2>1, <2>2 DEF Fits
  <2>4. \A j \in 1 .. Len(t) : u[j].conflicts = t[j].conflicts
    BY <2>1, <2>2
  <2>5. Len(t) <= Len(u) /\ \A j \in 1 .. Len(u) : j > Len(t) => u[j].conflicts = 0
    BY <1>3, <2>1, <2>2
  <2> QED BY <2>3, <2>4, <2>5 DEF u
<1> QED BY <1>6, <1>7

\* The newest row of the request is the last one.
LEMMA NewestRow ==
  ASSUME NEW t, NEW now \in Nat, Fits(t, now)
  PROVE  getPrBranchByPrNumber(t, Number) = Len(t) /\ Len(t) \in 1 .. Len(t) /\ Len(t) # 0
<1> DEFINE ids == {i \in DOMAIN t : t[i].pr = Number}
<1>1. Len(t) \in {1, 2} /\ DOMAIN t = 1 .. Len(t) /\ \A i \in 1 .. Len(t) : t[i].pr = Number
  <2>1. \A s \in Row : s.pr = Number
    BY DEF Row
  <2> QED BY <2>1, Shape
<1>2. ids = 1 .. Len(t)
  BY <1>1
<1> HIDE DEF ids
<1>3. Len(t) \in ids /\ ids # {} /\ \A j \in ids : j <= Len(t)
  BY <1>1, <1>2
<1>4. ASSUME NEW i \in ids, \A j \in ids : j <= i PROVE i = Len(t)
  <2>1. Len(t) <= i /\ i <= Len(t) /\ i \in Nat /\ Len(t) \in Nat
    BY <1>1, <1>2, <1>3, <1>4
  <2> QED BY <2>1
<1>5. Newest(ids) = Len(t)
  BY <1>3, <1>4 DEF Newest
<1>6. getPrBranchByPrNumber(t, Number) = Newest(ids)
  BY DEF getPrBranchByPrNumber, ids
<1>7. Len(t) \in 1 .. Len(t) /\ Len(t) # 0
  BY <1>1
<1> QED BY <1>5, <1>6, <1>7

LEMMA CountedSame ==
  ASSUME NEW t, NEW now \in Nat, Fits(t, now), NEW u, NEW later \in Nat, Fits(u, later), Len(t) <= Len(u),
         \A j \in 1 .. Len(t) : u[j].conflicts = t[j].conflicts,
         \A j \in 1 .. Len(u) : j > Len(t) => u[j].conflicts = 0
  PROVE  Counted(u) = Counted(t) /\ Counted(t) \in Nat
<1>1. /\ Len(t) \in {1, 2} /\ Len(u) \in {1, 2}
      /\ \A i \in 1 .. Len(t) : t[i].conflicts \in Nat
      /\ \A i \in 1 .. Len(u) : u[i].conflicts \in Nat
  BY Shape
<1> QED BY <1>1, SMTT(30) DEF Counted

LEMMA CountedMore ==
  ASSUME NEW t, NEW now \in Nat, Fits(t, now), NEW i \in 1 .. Len(t), NEW u, Fits(u, now), Len(u) = Len(t),
         \A j \in 1 .. Len(t) : u[j].conflicts = IF j = i THEN t[j].conflicts + 1 ELSE t[j].conflicts
  PROVE  Counted(u) = Counted(t) + 1 /\ Counted(t) \in Nat
<1>1. Len(t) \in {1, 2} /\ \A j \in 1 .. Len(t) : t[j].conflicts \in Nat
  BY Shape
<1> QED BY <1>1, SMTT(30) DEF Counted

-----------------------------------------------------------------------------
(* The table along a behaviour *)

\* No row is lost or counts otherwise, and a new one begins with 0; or one row counts one more.
Kept(u, t) ==
  /\ Len(t) <= Len(u)
  /\ \A j \in 1 .. Len(t) : u[j].conflicts = t[j].conflicts
  /\ \A j \in 1 .. Len(u) : j > Len(t) => u[j].conflicts = 0

Bumped(u, t, i) ==
  /\ Len(u) = Len(t)
  /\ \A j \in 1 .. Len(t) : u[j].conflicts = IF j = i THEN t[j].conflicts + 1 ELSE t[j].conflicts

LEMMA SameKept ==
  ASSUME NEW t, NEW now \in Nat, Fits(t, now), NEW u, Len(u) = Len(t),
         \A j \in 1 .. Len(t) : u[j].conflicts = t[j].conflicts
  PROVE  Kept(u, t)
<1>1. Len(t) \in Nat
  BY Shape
<1> QED BY <1>1 DEF Kept

LEMMA TableNumbers ==
  ASSUME Typed
  PROVE  /\ comments \in Nat /\ Fits(table, comments) /\ DOMAIN table = 1 .. Len(table) /\ Len(table) \in Nat
         /\ getPrBranchByPrNumber(table, Number) = Len(table) /\ Len(table) \in 1 .. Len(table)
         /\ pc # "idle" => my.id \in 1 .. Len(table)
         /\ my.task \in Tasks
<1>1. /\ comments \in Nat /\ Fits(table, comments) /\ my.id \in Nat /\ my.id <= Len(table)
      /\ (pc # "idle" => my.id # 0) /\ my.task \in Tasks
  BY PrDialogConstants DEF Typed
<1>2. DOMAIN table = 1 .. Len(table) /\ Len(table) \in Nat
  BY <1>1, Shape
<1> QED BY <1>1, <1>2, NewestRow

LEMMA TableStep ==
  ASSUME Typed, [Next]_vars
  PROVE  /\ Fits(table', comments')
         /\ IF ResolveFails \/ RecordRebase THEN Bumped(table', table, my.id) ELSE Kept(table', table)
<1> DEFINE Keeps == Fits(table', comments') /\ Kept(table', table)
           Bumps == Fits(table', comments') /\ Bumped(table', table, my.id)
<1>0. /\ comments \in Nat /\ Fits(table, comments) /\ DOMAIN table = 1 .. Len(table) /\ Len(table) \in Nat
      /\ getPrBranchByPrNumber(table, Number) = Len(table) /\ Len(table) \in 1 .. Len(table)
      /\ pc # "idle" => my.id \in 1 .. Len(table)
      /\ my.task \in Tasks
  BY TableNumbers
<1>1. ASSUME UNCHANGED table /\ UNCHANGED comments PROVE Keeps
  BY <1>0, <1>1, SameKept
<1>2. ASSUME Comment PROVE Keeps
  <2>1. table' = table /\ comments' = comments + 1
    BY <1>2 DEF Comment
  <2>2. \A i \in 1 .. Len(table) : table[i].seen \in Nat /\ table[i].seen <= comments
    BY <1>0, Shape DEF Fits
  <2>3. Fits(table, comments')
    BY <1>0, <2>1, <2>2 DEF Fits
  <2> QED BY <1>0, <2>1, <2>3, SameKept
<1>3. ASSUME comments' = comments, NEW i \in 1 .. Len(table), NEW status \in BranchStatuses,
             table' = SetStatus(table, i, status, comments)
      PROVE  Keeps
  <2>1. /\ Fits(table', comments) /\ Len(table') = Len(table)
        /\ \A j \in 1 .. Len(table) : table'[j].conflicts = table[j].conflicts
    BY <1>0, <1>3, SetStatusFits
  <2> QED BY <1>0, <1>3, <2>1, SameKept
<1>4. ASSUME Poll PROVE Keeps
  <2>1. PICK i \in DOMAIN table : PollRow(i)
    BY <1>4 DEF Poll
  <2>2. comments' = comments /\ (table' = table \/ table' = SetStatus(table, i, "closed", comments))
    BY <2>1 DEF PollRow, forge
  <2>3. "closed" \in BranchStatuses
    BY DEF BranchStatuses
  <2> QED BY <1>0, <1>1, <1>3, <2>2, <2>3
<1>5. ASSUME PlanIssue PROVE Keeps
  <2>1. table' = CancelRows(table, IssueTask, {"guardrail_blocked"}, comments) /\ comments' = comments
    BY <1>5 DEF PlanIssue, CancelBlocked, forge
  <2>2. /\ Fits(table', comments) /\ Len(table') = Len(table)
        /\ \A j \in 1 .. Len(table) : table'[j].conflicts = table[j].conflicts
    BY <1>0, <2>1, CancelFits
  <2> QED BY <1>0, <2>1, <2>2, SameKept
<1>6. ASSUME Wake PROVE Keeps
  <2>1. comments' = comments /\ (table' = table \/ table' = SetStatus(table, Len(table), "closed", comments))
    BY <1>0, <1>6 DEF Wake, forge
  <2>2. "closed" \in BranchStatuses
    BY DEF BranchStatuses
  <2> QED BY <1>0, <1>1, <1>3, <2>1, <2>2
<1>7. ASSUME AgentDirty \/ AgentDeclines PROVE Keeps
  <2>1. PICK task \in Tasks, status \in BranchStatuses :
          table' = recordPrBranch(table, task, Branch, Number, status, comments)
    <3>1. PrTask \in Tasks /\ {"dirty", "needs_human", "guardrail_blocked"} \subseteq BranchStatuses
      BY DEF Tasks, BranchStatuses
    <3> QED BY <1>0, <1>7, <3>1 DEF AgentDirty, AgentDeclines
  <2>2. comments' = comments
    BY <1>7 DEF AgentDirty, AgentDeclines, forge
  <2>3. /\ Fits(table', comments) /\ Len(table) <= Len(table')
        /\ \A j \in 1 .. Len(table) : table'[j].conflicts = table[j].conflicts
        /\ \A j \in 1 .. Len(table') : j > Len(table) => table'[j].conflicts = 0
    <3> DEFINE u == recordPrBranch(table, task, Branch, Number, status, comments)
    <3>1. /\ Fits(u, comments) /\ Len(table) <= Len(u)
          /\ \A j \in 1 .. Len(table) : u[j].conflicts = table[j].conflicts
          /\ \A j \in 1 .. Len(u) : j > Len(table) => u[j].conflicts = 0
      BY <1>0, RecordFits, SMTT(30)
    <3>2. table' = u
      BY <2>1
    <3> HIDE DEF u
    <3> QED BY <3>1, <3>2
  <2>4. Kept(table', table)
    BY <2>3 DEF Kept
  <2> QED BY <2>2, <2>3, <2>4
<1>8. ASSUME RecordPush PROVE Keeps
  <2> DEFINE t == bumpIteration(table, my.id, comments)
  <2>1. /\ my.id \in 1 .. Len(table) /\ comments' = comments /\ "open" \in BranchStatuses
        /\ table' = recordPrBranch(t, my.task, Branch, Number, "open", comments)
    BY <1>0, <1>8 DEF RecordPush, BranchStatuses
  <2>2. /\ Fits(t, comments) /\ Len(t) = Len(table)
        /\ \A j \in 1 .. Len(table) : t[j].conflicts = table[j].conflicts
    BY <1>0, <2>1, BumpIterationFits
  <2> HIDE DEF t
  <2>3. Fits(table', comments) /\ Kept(table', t)
    BY <1>0, <2>1, <2>2, RecordFits DEF Kept
  <2>4. Kept(table', table)
    BY <2>2, <2>3 DEF Kept
  <2> QED BY <2>1, <2>3, <2>4
<1>9. ASSUME ResolveFails PROVE Bumps
  <2>1. my.id \in 1 .. Len(table) /\ comments' = comments /\ table' = bumpConflictResolutions(table, my.id, comments)
    BY <1>0, <1>9 DEF ResolveFails, forge
  <2>2. Fits(table', comments) /\ Bumped(table', table, my.id)
    BY <1>0, <2>1, BumpConflictsFits DEF Bumped
  <2> QED BY <1>9, <2>1, <2>2
<1>10. ASSUME RecordRebase PROVE Bumps
  <2> DEFINE t == bumpConflictResolutions(table, my.id, comments)
  <2>1. my.id \in 1 .. Len(table) /\ comments' = comments /\ table' = updateBranchHeadSha(t, my.id, comments)
    BY <1>0, <1>10 DEF RecordRebase, forge
  <2>2. /\ Fits(t, comments) /\ Bumped(t, table, my.id) /\ Len(t) = Len(table)
    BY <1>0, <2>1, BumpConflictsFits DEF Bumped
  <2> HIDE DEF t
  <2>3. /\ Fits(table', comments) /\ Len(table') = Len(t)
        /\ \A j \in 1 .. Len(t) : table'[j].conflicts = t[j].conflicts
    BY <1>0, <2>1, <2>2, HeadShaFits
  <2>4. Bumped(table', table, my.id)
    BY <2>2, <2>3 DEF Bumped
  <2> QED BY <1>10, <2>1, <2>3, <2>4
<1>11. ASSUME RecordMerge PROVE Keeps
  <2>1. /\ my.id \in 1 .. Len(table) /\ comments' = comments /\ table' = SetStatus(table, my.id, "closed", comments)
        /\ "closed" \in BranchStatuses
    BY <1>0, <1>11 DEF RecordMerge, forge, BranchStatuses
  <2> QED BY <1>3, <2>1
<1>12. ASSUME ~(Comment \/ Poll \/ PlanIssue \/ Wake \/ AgentDirty \/ AgentDeclines \/ RecordPush
                \/ ResolveFails \/ RecordRebase \/ RecordMerge)
       PROVE  Keeps
  <2>1. UNCHANGED table /\ UNCHANGED comments
    BY <1>12 DEF Next, vars, forge, World, Loop, LaneStep, ResolveThread, HumanPush, BaseMoves, CiAdvances,
       HumanEnds,
                 ReadFeedback, NothingNew, LaneFails, AgentCommits, Push, RefetchLease, ForcePush, GateStops,
                 ReadRequest, SyncToRemote, StartRebase, ResolveBatch, PushRebased, CheckThreads, CheckCi, Merge,
                 Crash
  <2> QED BY <1>1, <2>1
<1> QED BY <1>2, <1>4, <1>5, <1>6, <1>7, <1>8, <1>9, <1>10, <1>11, <1>12

-----------------------------------------------------------------------------
(* The types *)

LEMMA InitTyped == Init => Typed /\ LeaseFits /\ CheckedHead /\ AttemptsCounted /\ InHand
<1> SUFFICES ASSUME Init PROVE Typed /\ LeaseFits /\ CheckedHead /\ AttemptsCounted /\ InHand
  OBVIOUS
<1> DEFINE r == BranchRow(IssueTask, Branch, Number, "open", 0)
<1>1. r \in Row /\ r.task = IssueTask /\ r.seen = 0 /\ r.conflicts = 0
  BY DEF BranchRow, Row, Tasks, BranchStatuses
<1>2. table = <<r>> /\ comments = 0
  BY DEF Init
<1> HIDE DEF r
<1>3. table \in Seq(Row) /\ Len(table) = 1 /\ table[1] = r
  BY <1>1, <1>2
<1>4. Fits(table, comments)
  BY <1>1, <1>2, <1>3 DEF Fits
<1>5. comments \in 0 .. MaxComments /\ MaxSteps \in Nat /\ MaxBaseMoves \in Nat /\ MaxHumanPushes \in Nat
      /\ MaxConflicts \in Nat
  BY <1>2, PrDialogConstants
<1>6. Typed
  <2>1. /\ my \in [id : Nat, task : Tasks, iterations : Nat, conflicts : Nat, seen : Nat]
        /\ my.id <= Len(table) /\ pc = "idle"
    BY <1>3 DEF Init, NoRow, Tasks
  <2>2. /\ head \in [id : Nat, by : {"bot", "rebase", "human"}, humans : SUBSET (1 .. MaxHumanPushes)]
        /\ wd \in [base : Nat, humans : SUBSET (1 .. MaxHumanPushes), moves : 0 .. MaxBaseMoves]
        /\ mergedAs \in [ci : CiStates, by : {"none", "bot", "rebase", "human"}, just : BOOLEAN]
    BY <1>5 DEF Init, NoDir, Unmerged, CiStates
  <2>3. /\ queued \in BOOLEAN /\ draft \in BOOLEAN /\ conflict \in BOOLEAN /\ just \in BOOLEAN
        /\ state \in {"open", "merged", "closed"} /\ ci \in CiStates /\ pc \in Turns
    BY DEF Init, CiStates, Turns
  <2>4. /\ threads = {} /\ fresh = {} /\ taken = {} /\ idle = {} /\ passed = {}
        /\ lease = 0 /\ pr = 0 /\ steps = 0 /\ moves = 0 /\ humans = 0 /\ attempts = 0 /\ crashes = 0
    BY DEF Init
  <2> QED BY <1>4, <1>5, <2>1, <2>2, <2>3, <2>4 DEF Typed
<1>7. AttemptsCounted
  BY <1>1, <1>3, <1>5 DEF Init, AttemptsCounted, Uncounted, Resolving, Engaged, Counted
<1>8. LeaseFits /\ CheckedHead /\ InHand
  BY DEF Init, LeaseFits, CheckedHead, InHand, Waiting
<1> QED BY <1>6, <1>7, <1>8

\* What does not concern the table.
Shaped ==
  /\ comments \in 0 .. MaxComments
  /\ queued \in BOOLEAN /\ draft \in BOOLEAN /\ conflict \in BOOLEAN
  /\ state \in {"open", "merged", "closed"}
  /\ head \in [id : Nat, by : {"bot", "rebase", "human"}, humans : SUBSET (1 .. MaxHumanPushes)]
  /\ ci \in CiStates /\ threads \subseteq 1 .. comments
  /\ pc \in Turns
  /\ fresh \subseteq 1 .. comments
  /\ wd \in [base : Nat, humans : SUBSET (1 .. MaxHumanPushes), moves : 0 .. MaxBaseMoves]
  /\ just \in BOOLEAN /\ lease \in Nat /\ pr \in Nat /\ steps \in 0 .. MaxSteps
  /\ moves \in 0 .. MaxBaseMoves /\ humans \in 0 .. MaxHumanPushes
  /\ attempts \in Nat /\ crashes \in Nat
  /\ taken \subseteq 1 .. comments /\ idle \subseteq 1 .. comments /\ passed \subseteq 1 .. comments
  /\ mergedAs \in [ci : CiStates, by : {"none", "bot", "rebase", "human"}, just : BOOLEAN]

MyFits ==
  /\ my \in [id : Nat, task : Tasks, iterations : Nat, conflicts : Nat, seen : Nat]
  /\ my.id <= Len(table) /\ (pc # "idle" => my.id # 0)

LEMMA MyFitsStep ==
  ASSUME Typed, [Next]_vars
  PROVE  MyFits'
<1>0. /\ Len(table) \in Nat /\ Len(table') \in Nat /\ Len(table) <= Len(table')
      /\ Fits(table, comments) /\ comments \in Nat /\ Len(table) \in 1 .. Len(table)
      /\ getPrBranchByPrNumber(table, Number) = Len(table)
  <2>1. Len(table) \in Nat /\ Fits(table, comments) /\ comments \in Nat /\ Len(table) \in 1 .. Len(table)
        /\ getPrBranchByPrNumber(table, Number) = Len(table)
    BY TableNumbers
  <2>2. comments' \in Nat
    <3>1. comments' = comments \/ comments' = comments + 1
      BY DEF Next, vars, forge, World, Loop, LaneStep, Comment, ResolveThread, HumanPush, BaseMoves, CiAdvances,
             HumanEnds, Poll, PollRow, PlanIssue, Wake,
             ReadFeedback, NothingNew, LaneFails, AgentDirty, AgentDeclines, AgentCommits, Push, RefetchLease,
             ForcePush, RecordPush, GateStops, ReadRequest, ResolveFails, SyncToRemote, StartRebase, ResolveBatch,
             PushRebased, RecordRebase, CheckThreads, CheckCi, Merge, RecordMerge, Crash
    <3> QED BY <2>1, <3>1
  <2>3. Len(table') \in {1, 2}
    BY <2>2, TableStep, Shape
  <2>4. Len(table) <= Len(table')
    BY <2>1, TableStep DEF Kept, Bumped
  <2> QED BY <2>1, <2>3, <2>4
<1>1. CASE my' = my /\ (pc' = "idle" \/ pc # "idle")
  BY <1>0, <1>1, SMTT(30) DEF Typed, MyFits
<1>2. CASE my' = NoRow /\ pc' = "idle"
  BY <1>0, <1>2 DEF NoRow, MyFits, Tasks
<1>3. ASSUME Wake, pc' # "idle" PROVE MyFits'
  <2> DEFINE r == table[Len(table)]
  <2>1. my' = [id |-> Len(table), task |-> r.task, iterations |-> r.iterations,
               conflicts |-> r.conflicts, seen |-> r.seen]
    BY <1>0, <1>3 DEF Wake, LaneEnds
  <2>2. r \in Row
    BY <1>0, Shape
  <2> HIDE DEF r
  <2>3. my' \in [id : Nat, task : Tasks, iterations : Nat, conflicts : Nat, seen : Nat] /\ my'.id = Len(table)
    BY <1>0, <2>1, <2>2 DEF Row
  <2> QED BY <1>0, <2>3 DEF MyFits
<1>4. CASE ~(Wake /\ pc' # "idle")
  <2>1. (my' = my /\ (pc' = "idle" \/ pc # "idle")) \/ (my' = NoRow /\ pc' = "idle")
    BY <1>4 DEF Next, vars, lane, World, Loop, LaneStep, Comment, ResolveThread, HumanPush, BaseMoves, CiAdvances,
             HumanEnds, Poll, PollRow, PlanIssue, Wake, LaneEnds, Goes,
             ReadFeedback, NothingNew, LaneFails, AgentDirty, AgentDeclines, AgentCommits, Push, RefetchLease,
             ForcePush, RecordPush, GateStops, ReadRequest, ResolveFails, SyncToRemote, StartRebase, ResolveBatch,
             PushRebased, RecordRebase, CheckThreads, CheckCi, Merge, RecordMerge, Crash
  <2> QED BY <1>1, <1>2, <2>1
<1> QED BY <1>3, <1>4

\* What the lane leaves when it ends.
Blank ==
  /\ pc \in Turns /\ just \in BOOLEAN /\ lease \in Nat /\ pr \in Nat /\ steps \in 0 .. MaxSteps
  /\ fresh = {}
  /\ wd \in [base : Nat, humans : SUBSET (1 .. MaxHumanPushes), moves : 0 .. MaxBaseMoves]

LEMMA LaneEndsBlank ==
  ASSUME LaneEnds \/ Crash
  PROVE  Blank'
<1>1. 0 \in 0 .. MaxSteps /\ NoDir \in [base : Nat, humans : SUBSET (1 .. MaxHumanPushes), moves : 0 .. MaxBaseMoves]
  BY PrDialogConstants DEF NoDir
<1>2. /\ pc' = "idle" /\ fresh' = {} /\ wd' = NoDir /\ lease' = 0
      /\ pr' = 0 /\ just' = FALSE /\ steps' = 0
  BY DEF LaneEnds, Crash
<1> QED BY <1>1, <1>2 DEF Blank, Turns

LEMMA ShapedStep ==
  ASSUME Typed, [Next]_vars
  PROVE  Shaped'
<1>0. Shaped /\ {MaxIterations, MaxConflicts, MaxSteps} \subseteq Nat \ {0}
      /\ {MaxComments, MaxHumanPushes, MaxBaseMoves} \subseteq Nat
  BY PrDialogConstants DEF Typed, Shaped
<1>1. CASE UNCHANGED vars
  BY <1>0, <1>1 DEF Shaped, vars, forge, lane, hist
<1>2. CASE Comment
  BY <1>0, <1>2 DEF Shaped, Comment, lane
<1>3. CASE ResolveThread
  BY <1>0, <1>3 DEF Shaped, ResolveThread, lane, hist
<1>4. CASE HumanPush
  BY <1>0, <1>4 DEF Shaped, HumanPush, NewHead, CiStates, lane
<1>5. CASE BaseMoves
  BY <1>0, <1>5 DEF Shaped, BaseMoves, lane
<1>6. CASE CiAdvances
  BY <1>0, <1>6 DEF Shaped, CiAdvances, CiStates, lane, hist
<1>7. CASE HumanEnds
  BY <1>0, <1>7 DEF Shaped, HumanEnds, lane, hist
<1>8. CASE Poll
  BY <1>0, <1>8, ZenonT(30) DEF Shaped, Poll, PollRow, forge, lane, hist
<1>9. CASE PlanIssue
  BY <1>0, <1>9, ZenonT(30) DEF Shaped, PlanIssue, forge, lane
<1>10. CASE Wake
  <2>1. LaneEnds \/ (Goes("feedback") /\ UNCHANGED <<fresh, wd, lease, pr, just, steps>>)
    BY <1>10 DEF Wake, Goes
  <2>2. CASE LaneEnds
    BY <1>0, <1>10, <2>2, LaneEndsBlank, ZenonT(30) DEF Shaped, Blank, Wake, LaneEnds, forge, hist
  <2>3. CASE Goes("feedback") /\ UNCHANGED <<fresh, wd, lease, pr, just, steps>>
    BY <1>0, <1>10, <2>3 DEF Shaped, Wake, Goes, Turns, forge, hist
  <2> QED BY <2>1, <2>2, <2>3
<1>11. CASE ReadFeedback
  BY <1>0, <1>11 DEF Shaped, ReadFeedback, NewFeedback, listAllPrFeedback, Checkout, Goes, Turns, forge, hist
<1>12. CASE NothingNew
  <2>1. LaneEnds \/ (Goes("gate") /\ UNCHANGED <<fresh, wd, lease, pr, just, steps>>)
    BY <1>12 DEF NothingNew, Goes
  <2>2. CASE LaneEnds
    BY <1>0, <1>12, <2>2, LaneEndsBlank, ZenonT(30) DEF Shaped, Blank, NothingNew, LaneEnds, forge, hist
  <2>3. CASE Goes("gate") /\ UNCHANGED <<fresh, wd, lease, pr, just, steps>>
    BY <1>0, <1>12, <2>3 DEF Shaped, NothingNew, Goes, Turns, forge, hist
  <2> QED BY <2>1, <2>2, <2>3
<1>13. CASE LaneFails
  <2>1. Blank' /\ queued' \in BOOLEAN
    BY <1>13, LaneEndsBlank DEF LaneFails, LaneEnds
  <2> QED BY <1>0, <1>13, <2>1 DEF Shaped, Blank, LaneFails, forge, hist
<1>14. CASE AgentDirty \/ AgentDeclines
  <2>1. Blank' /\ queued' \in BOOLEAN
    BY <1>14, LaneEndsBlank DEF AgentDirty, AgentDeclines, LaneEnds
  <2> QED BY <1>0, <1>14, <2>1, ZenonT(30) DEF Shaped, Blank, AgentDirty, AgentDeclines, forge
<1>15. CASE AgentCommits
  BY <1>0, <1>15 DEF Shaped, AgentCommits, Goes, Turns, forge, lane
<1>16. CASE Push
  BY <1>0, <1>16 DEF Shaped, Push, NewHead, Goes, Turns, CiStates, lane
<1>17. CASE RefetchLease
  BY <1>0, <1>17 DEF Shaped, RefetchLease, Goes, Turns, forge, hist
<1>18. CASE ForcePush
  BY <1>0, <1>18 DEF Shaped, ForcePush, NewHead, Goes, Turns, CiStates, lane
<1>19. CASE RecordPush
  <2>1. LaneEnds \/ (Goes("gate") /\ fresh' = {} /\ wd' = NoDir /\ lease' = 0 /\ UNCHANGED <<pr, just, steps>>)
    BY <1>19 DEF RecordPush, Goes
  <2>2. CASE LaneEnds
    BY <1>0, <1>19, <2>2, LaneEndsBlank, ZenonT(30) DEF Shaped, Blank, RecordPush, LaneEnds, hist
  <2>3. CASE Goes("gate") /\ fresh' = {} /\ wd' = NoDir /\ lease' = 0 /\ UNCHANGED <<pr, just, steps>>
    <3>1. /\ pc' \in Turns /\ fresh' = {}
          /\ wd' \in [base : Nat, humans : SUBSET (1 .. MaxHumanPushes), moves : 0 .. MaxBaseMoves]
      BY <1>0, <2>3 DEF Goes, Turns, NoDir
    <3> QED BY <1>0, <1>19, <2>3, <3>1, ZenonT(30) DEF Shaped, RecordPush, Goes, hist
  <2> QED BY <2>1, <2>2, <2>3
<1>20. CASE GateStops
  <2>1. Blank' /\ queued' \in BOOLEAN
    BY <1>20, LaneEndsBlank DEF GateStops, LaneEnds
  <2> QED BY <1>0, <1>20, <2>1 DEF Shaped, Blank, GateStops, forge, hist
<1>21. CASE ReadRequest
  BY <1>0, <1>21, ZenonT(30) DEF Shaped, ReadRequest, Goes, Turns, hist
<1>22. CASE ResolveFails
  <2>1. Blank' /\ queued' \in BOOLEAN
    BY <1>22, LaneEndsBlank DEF ResolveFails, LaneEnds
  <2> QED BY <1>0, <1>22, <2>1 DEF Shaped, Blank, ResolveFails, forge, hist
<1>23. CASE SyncToRemote
  BY <1>0, <1>23 DEF Shaped, SyncToRemote, Checkout, Goes, Turns, forge, hist
<1>24. CASE StartRebase
  BY <1>0, <1>24 DEF Shaped, StartRebase, Goes, Turns, NoDir, forge
<1>25. CASE ResolveBatch
  BY <1>0, <1>25 DEF Shaped, ResolveBatch, Goes, Turns, forge, hist
<1>26. CASE PushRebased
  BY <1>0, <1>26 DEF Shaped, PushRebased, NewHead, Goes, Turns, CiStates, NoDir, hist
<1>27. CASE RecordRebase
  BY <1>0, <1>27 DEF Shaped, RecordRebase, Goes, Turns, forge, hist
<1>28. CASE CheckThreads \/ CheckCi
  BY <1>0, <1>28, ZenonT(30) DEF Shaped, CheckThreads, CheckCi, Goes, Turns, forge, lane, hist
<1>29. CASE Merge
  BY <1>0, <1>29 DEF Shaped, Merge, mergePullRequest, Goes, Turns, CiStates, lane
<1>30. CASE RecordMerge
  <2>1. Blank' /\ queued' \in BOOLEAN
    BY <1>30, LaneEndsBlank DEF RecordMerge, LaneEnds
  <2> QED BY <1>0, <1>30, <2>1 DEF Shaped, Blank, RecordMerge, forge, hist
<1>31. CASE Crash
  <2>1. Blank' /\ queued' \in BOOLEAN
    BY <1>31, LaneEndsBlank DEF Crash, LaneEnds
  <2> QED BY <1>0, <1>31, <2>1 DEF Shaped, Blank, Crash, forge
<1> QED BY <1>1, <1>2, <1>3, <1>4, <1>5, <1>6, <1>7, <1>8, <1>9, <1>10, <1>11, <1>12, <1>13, <1>14, <1>15, <1>16,
           <1>17, <1>18, <1>19, <1>20, <1>21, <1>22, <1>23, <1>24, <1>25, <1>26, <1>27, <1>28, <1>29, <1>30, <1>31
        DEF Next, World, Loop, LaneStep

LEMMA TypedStep == Typed /\ [Next]_vars => Typed'
<1> SUFFICES ASSUME Typed, [Next]_vars PROVE Typed'
  OBVIOUS
<1>1. Fits(table', comments') /\ MyFits' /\ Shaped'
  BY TableStep, MyFitsStep, ShapedStep
<1> QED BY <1>1 DEF Typed, MyFits, Shaped

\* The types hold throughout, and what each row says never is from the future.
THEOREM TypeCorrect == Spec => []TypeOK
<1>1. Typed => TypeOK
  <2> SUFFICES ASSUME Typed PROVE TypeOK
    OBVIOUS
  <2>1. DOMAIN table = 1 .. Len(table) /\ \A i \in 1 .. Len(table) : table[i] \in Row /\ table[i].seen \in Nat
    BY TableNumbers, Shape
  <2>2. \A r \in Row : r.status \in BranchStatuses
    BY DEF Row
  <2>3. \A i \in 1 .. Len(table) : table[i].status \in BranchStatuses /\ table[i].seen \in 0 .. comments
    BY TableNumbers, <2>1, <2>2 DEF Fits
  <2>4. my.id \in 0 .. Len(table)
    BY TableNumbers DEF Typed
  <2> QED BY <2>1, <2>3, <2>4 DEF Typed, TypeOK
<1> QED BY <1>1, InitTyped, TypedStep, PTL DEF Spec

-----------------------------------------------------------------------------
(* Rebases *)

LEMMA LeaseFitsStep == Typed /\ LeaseFits /\ [Next]_vars => LeaseFits'
<1> SUFFICES ASSUME Typed, LeaseFits, [Next]_vars PROVE LeaseFits'
  OBVIOUS
<1>0. head.id \in Nat /\ lease \in Nat
  BY DEF Typed
<1>1. CASE SyncToRemote
  BY <1>0, <1>1 DEF LeaseFits, SyncToRemote, Checkout, forge
<1>2. CASE HumanPush
  <2>1. head'.id = head.id + 1 /\ pc' = pc /\ lease' = lease
    BY <1>2 DEF HumanPush, NewHead, lane
  <2> QED BY <1>0, <2>1 DEF LeaseFits
<1>3. CASE StartRebase \/ ResolveBatch
  BY <1>3 DEF LeaseFits, StartRebase, ResolveBatch, Goes, forge
<1>4. CASE pc' \notin {"rebase", "resolve", "lease"}
  BY <1>4 DEF LeaseFits
<1>5. CASE pc' = pc /\ UNCHANGED <<lease, head, wd>>
  BY <1>5 DEF LeaseFits
<1>6. CASE ~(SyncToRemote \/ HumanPush \/ StartRebase \/ ResolveBatch)
  <2>1. pc' \notin {"rebase", "resolve", "lease"} \/ (pc' = pc /\ UNCHANGED <<lease, head, wd>>)
    BY <1>6 DEF Next, vars, forge, lane, hist, World, Loop, LaneStep, Comment, ResolveThread, BaseMoves,
       CiAdvances,
             HumanEnds, Poll, PollRow, PlanIssue, Wake, LaneEnds, Goes,
             ReadFeedback, NothingNew, LaneFails, AgentDirty, AgentDeclines, AgentCommits, Push, RefetchLease,
             ForcePush, RecordPush, GateStops, ReadRequest, ResolveFails,
             PushRebased, RecordRebase, CheckThreads, CheckCi, Merge, RecordMerge, Crash
  <2> QED BY <1>4, <1>5, <2>1
<1> QED BY <1>1, <1>2, <1>3, <1>6

\* RebaseKeepsHumans: a push that ends a conflict resolution keeps every commit of a human that is on
\* the branch at that moment, whenever it was pushed.
THEOREM RebasesKeepHumans == Spec => RebaseKeepsHumans
<1>1. Typed /\ LeaseFits /\ [Next]_vars =>
        (head' # head /\ head'.by = "rebase" => head.humans \subseteq head'.humans)
  <2> SUFFICES ASSUME Typed, LeaseFits, [Next]_vars, head' # head, head'.by = "rebase"
               PROVE  head.humans \subseteq head'.humans
    OBVIOUS
  <2>1. PushRebased
    <3>1. CASE HumanPush \/ Push \/ ForcePush
      BY <3>1 DEF HumanPush, Push, ForcePush, NewHead
    <3>2. CASE ~(HumanPush \/ Push \/ ForcePush)
      BY <3>2 DEF Next, vars, forge, World, Loop, LaneStep, Comment, ResolveThread, BaseMoves, CiAdvances,
             HumanEnds, Poll, PollRow, PlanIssue, Wake,
             ReadFeedback, NothingNew, LaneFails, AgentDirty, AgentDeclines, AgentCommits, RefetchLease,
             RecordPush, GateStops, ReadRequest, ResolveFails, SyncToRemote, StartRebase, ResolveBatch,
             RecordRebase, CheckThreads, CheckCi, Merge, RecordMerge, Crash
    <3> QED BY <3>1, <3>2
  <2>2. wd.humans = head.humans
    BY <2>1 DEF LeaseFits, PushRebased, LeaseHolds
  <2> QED BY <2>1, <2>2 DEF PushRebased, NewHead
<1> QED BY <1>1, InitTyped, TypedStep, LeaseFitsStep, PTL DEF Spec, RebaseKeepsHumans

LEMMA CheckedHeadStep == Typed /\ CheckedHead /\ [Next]_vars => CheckedHead'
<1> SUFFICES ASSUME Typed, CheckedHead, [Next]_vars PROVE CheckedHead'
  OBVIOUS
<1>1. CASE HumanPush
  BY <1>1 DEF CheckedHead, HumanPush, NewHead, lane
<1>2. CASE CiAdvances
  BY <1>2 DEF CheckedHead, CiAdvances, lane
<1>3. CASE RecordRebase
  BY <1>3 DEF CheckedHead, RecordRebase, Goes, forge
<1>4. CASE CheckThreads
  BY <1>4 DEF CheckedHead, CheckThreads, Goes, lane, forge
<1>5. CASE CheckCi
  BY <1>5 DEF CheckedHead, CheckCi, getCombinedStatus, Goes, lane, forge
<1>6. CASE Merge
  BY <1>6 DEF CheckedHead, Merge, Goes, lane
<1>7. CASE just' = FALSE
  BY <1>7 DEF CheckedHead
<1>8. CASE UNCHANGED <<pc, just, pr, head, ci>>
  BY <1>8 DEF CheckedHead
<1>9. CASE ~just /\ just' = just
  BY <1>9 DEF CheckedHead
<1>10. CASE ~(HumanPush \/ CiAdvances \/ RecordRebase \/ CheckThreads \/ CheckCi \/ Merge)
  <2>1. just' = FALSE \/ UNCHANGED <<pc, just, pr, head, ci>> \/ (~just /\ just' = just)
    BY <1>10 DEF Next, vars, forge, lane, hist, World, Loop, LaneStep, Comment, ResolveThread, BaseMoves,
             HumanEnds, Poll, PollRow, PlanIssue, Wake, LaneEnds, Goes, CheckedHead,
             ReadFeedback, NothingNew, LaneFails, AgentDirty, AgentDeclines, AgentCommits, Push, RefetchLease,
             ForcePush, RecordPush, GateStops, ReadRequest, ResolveFails, SyncToRemote, StartRebase, ResolveBatch,
             PushRebased, RecordMerge, Crash
  <2> QED BY <1>7, <1>8, <1>9, <2>1
<1> QED BY <1>1, <1>2, <1>3, <1>4, <1>5, <1>6, <1>10

\* RebasedIsGreen: what a call rebased and merged had passed its checks as it was merged.
THEOREM RebasedRequestsAreGreen == Spec => []RebasedIsGreen
<1>1. Init => RebasedIsGreen
  BY DEF Init, RebasedIsGreen, Unmerged
<1>2. CheckedHead /\ RebasedIsGreen /\ [Next]_vars => RebasedIsGreen'
  <2> SUFFICES ASSUME CheckedHead, RebasedIsGreen, [Next]_vars PROVE RebasedIsGreen'
    OBVIOUS
  <2>1. CASE Merge
    BY <2>1 DEF CheckedHead, RebasedIsGreen, Merge
  <2>2. CASE ~Merge
    <3>1. mergedAs' = mergedAs
      BY <2>2 DEF Next, vars, hist, World, Loop, LaneStep, Comment, ResolveThread, HumanPush, BaseMoves,
         CiAdvances,
             HumanEnds, Poll, PollRow, PlanIssue, Wake,
             ReadFeedback, NothingNew, LaneFails, AgentDirty, AgentDeclines, AgentCommits, Push, RefetchLease,
             ForcePush, RecordPush, GateStops, ReadRequest, ResolveFails, SyncToRemote, StartRebase, ResolveBatch,
             PushRebased, RecordRebase, CheckThreads, CheckCi, RecordMerge, Crash
    <3> QED BY <3>1 DEF RebasedIsGreen
  <2> QED BY <2>1, <2>2
<1> QED BY <1>1, <1>2, InitTyped, TypedStep, CheckedHeadStep, PTL DEF Spec

-----------------------------------------------------------------------------
(* Attempts at conflicts *)

\* The counts of the rows in use.
LEMMA Counts ==
  ASSUME Typed
  PROVE  /\ Counted(table) \in Nat /\ attempts \in Nat /\ crashes \in Nat /\ MaxConflicts \in Nat \ {0}
         /\ my.conflicts \in Nat /\ \A i \in 1 .. Len(table) : table[i].conflicts \in Nat
<1>1. Len(table) \in {1, 2} /\ \A i \in 1 .. Len(table) : table[i].conflicts \in Nat
  BY TableNumbers, Shape
<1>2. Counted(table) \in Nat
  BY <1>1 DEF Counted
<1>3. attempts \in Nat /\ crashes \in Nat /\ MaxConflicts \in Nat \ {0}
  BY PrDialogConstants DEF Typed
<1>4. my.conflicts \in Nat
  BY DEF Typed
<1> QED BY <1>1, <1>2, <1>3, <1>4

\* How a step relates to an attempt: it is counted at its end, or died with the process.
LEMMA AttemptStep ==
  ASSUME [Next]_vars, ~(ResolveFails \/ RecordRebase)
  PROVE  \/ attempts' = attempts /\ crashes' = crashes /\ (pc \in Engaged => pc' \in Engaged)
         \/ attempts' = attempts + 1 /\ crashes' = crashes /\ pc \notin Engaged /\ pc' \in Engaged
         \/ attempts' = attempts /\ crashes' = crashes + 1
BY DEF Engaged, Next, vars, hist, World, Loop, LaneStep, Comment, ResolveThread, HumanPush, BaseMoves, CiAdvances,
       HumanEnds, Poll, PollRow, PlanIssue, Wake, LaneEnds, Goes,
       ReadFeedback, NothingNew, LaneFails, AgentDirty, AgentDeclines, AgentCommits, Push, RefetchLease,
       ForcePush, RecordPush, GateStops, ReadRequest, SyncToRemote, StartRebase, ResolveBatch,
       PushRebased, CheckThreads, CheckCi, Merge, RecordMerge, Crash

\* The row read at the start stays the one worked with until the attempt is counted.
LEMMA TurnStep ==
  ASSUME [Next]_vars
  PROVE  /\ \/ pc' \notin Uncounted
            \/ Wake /\ pc' = "feedback" /\ table' = table
            \/ my' = my /\ pc \in Uncounted /\ ~(ResolveFails \/ RecordRebase)
         /\ pc' \in Resolving => my' = my /\ (pc \in Resolving \/ my.conflicts < MaxConflicts)
BY DEF Uncounted, Resolving, Next, vars, lane, World, Loop, LaneStep, Comment, ResolveThread, HumanPush,
   BaseMoves,
       CiAdvances, HumanEnds, Poll, PollRow, PlanIssue, Wake, LaneEnds, Goes,
       ReadFeedback, NothingNew, LaneFails, AgentDirty, AgentDeclines, AgentCommits, Push, RefetchLease,
       ForcePush, RecordPush, GateStops, ReadRequest, ResolveFails, SyncToRemote, StartRebase, ResolveBatch,
       PushRebased, RecordRebase, CheckThreads, CheckCi, Merge, RecordMerge, Crash

LEMMA AttemptsCountedStep == Typed /\ AttemptsCounted /\ [Next]_vars => AttemptsCounted'
<1> SUFFICES ASSUME Typed, AttemptsCounted, [Next]_vars PROVE AttemptsCounted'
  OBVIOUS
<1>0. /\ Counted(table) \in Nat /\ attempts \in Nat /\ crashes \in Nat /\ MaxConflicts \in Nat \ {0}
      /\ my.conflicts \in Nat /\ \A i \in 1 .. Len(table) : table[i].conflicts \in Nat
      /\ comments \in Nat /\ Fits(table, comments) /\ Len(table) \in Nat
      /\ pc # "idle" => my.id \in 1 .. Len(table)
  BY Counts, TableNumbers
<1>a. comments' \in Nat /\ Fits(table', comments') /\ Len(table') \in Nat
      /\ attempts' \in Nat /\ crashes' \in Nat
  <2>1. Typed'
    BY TypedStep
  <2>2. comments' \in Nat /\ attempts' \in Nat /\ crashes' \in Nat
    BY <2>1, PrDialogConstants DEF Typed
  <2>3. Fits(table', comments')
    BY TableStep
  <2> QED BY <2>2, <2>3, Shape
<1>1. pc' \in Resolving => my'.conflicts < MaxConflicts
  BY TurnStep DEF AttemptsCounted
<1>2. CASE Kept(table', table) /\ ~(ResolveFails \/ RecordRebase)
  <2>1. \A i \in 1 .. Len(table') : table'[i].conflicts <= MaxConflicts
    <3> SUFFICES ASSUME NEW i \in 1 .. Len(table') PROVE table'[i].conflicts <= MaxConflicts
      OBVIOUS
    <3>1. CASE i > Len(table)
      BY <1>0, <1>2, <3>1 DEF Kept
    <3>2. CASE ~(i > Len(table))
      <4>1. i \in 1 .. Len(table)
        BY <1>0, <1>a, <3>2
      <4> QED BY <1>2, <4>1 DEF Kept, AttemptsCounted
    <3> QED BY <3>1, <3>2
  <2>2. pc' \in Uncounted => table'[my'.id].conflicts = my'.conflicts
    <3>1. CASE Wake /\ pc' = "feedback" /\ table' = table
      <4>1. my'.id = Len(table) /\ my'.conflicts = table[Len(table)].conflicts
        BY <3>1, TableNumbers DEF Wake, LaneEnds
      <4> QED BY <3>1, <4>1
    <3>2. CASE my' = my /\ pc \in Uncounted
      <4>1. my.id \in 1 .. Len(table) /\ table[my.id].conflicts = my.conflicts
        BY <1>0, <3>2 DEF AttemptsCounted, Uncounted
      <4> QED BY <1>2, <3>2, <4>1 DEF Kept
    <3> QED BY <3>1, <3>2, TurnStep
  <2>3. Counted(table') = Counted(table)
    BY <1>0, <1>2, <1>a, CountedSame DEF Kept
  <2>4. attempts' <= Counted(table') + crashes' + (IF pc' \in Engaged THEN 1 ELSE 0)
    BY <1>0, <1>2, <1>a, <2>3, AttemptStep, SMTT(30) DEF AttemptsCounted
  <2> QED BY <1>1, <2>1, <2>2, <2>4 DEF AttemptsCounted
<1>3. CASE (ResolveFails \/ RecordRebase) /\ Bumped(table', table, my.id)
  <2>1. /\ pc \in Resolving /\ pc' \in {"idle", "threads"} /\ UNCHANGED <<attempts, crashes, comments>>
    BY <1>3 DEF ResolveFails, RecordRebase, LaneEnds, Goes, Resolving, hist, forge
  <2>2. my.id \in 1 .. Len(table) /\ table[my.id].conflicts = my.conflicts /\ my.conflicts < MaxConflicts
    BY <1>0, <2>1 DEF AttemptsCounted, Uncounted, Resolving
  <2>3. \A i \in 1 .. Len(table') : table'[i].conflicts <= MaxConflicts
    <3> SUFFICES ASSUME NEW i \in 1 .. Len(table) PROVE table'[i].conflicts <= MaxConflicts
      BY <1>3 DEF Bumped
    <3>1. table'[i].conflicts = IF i = my.id THEN table[i].conflicts + 1 ELSE table[i].conflicts
      BY <1>3 DEF Bumped
    <3>2. CASE i = my.id
      BY <1>0, <2>2, <3>1, <3>2
    <3>3. CASE i # my.id
      BY <3>1, <3>3 DEF AttemptsCounted
    <3> QED BY <3>2, <3>3
  <2>4. Counted(table') = Counted(table) + 1
    BY <1>0, <1>3, <1>a, <2>1, <2>2, CountedMore, ZenonT(30) DEF Bumped
  <2>5. pc' \notin Uncounted /\ pc' \notin Engaged
    BY <2>1 DEF Uncounted, Engaged
  <2>6. attempts' <= Counted(table') + crashes' + (IF pc' \in Engaged THEN 1 ELSE 0)
    BY <1>0, <2>1, <2>4, <2>5 DEF AttemptsCounted
  <2> QED BY <1>1, <2>3, <2>5, <2>6 DEF AttemptsCounted
<1> QED BY <1>2, <1>3, TableStep

\* AttemptsBounded: the agent is engaged for conflicts at most MaxConflicts times per row, and once more
\* per crash.
THEOREM AttemptsAreBounded == Spec => []AttemptsBounded
<1>1. Typed /\ AttemptsCounted => AttemptsBounded
  <2> SUFFICES ASSUME Typed, AttemptsCounted PROVE AttemptsBounded
    OBVIOUS
  <2>0. /\ Len(table) \in {1, 2} /\ attempts \in Nat /\ crashes \in Nat /\ MaxConflicts \in Nat \ {0}
        /\ my.conflicts \in Nat /\ \A i \in 1 .. Len(table) : table[i].conflicts \in Nat
        /\ (pc # "idle" => my.id \in 1 .. Len(table))
    BY Counts, TableNumbers, Shape
  <2>1. pc \in Engaged => my.id \in 1 .. Len(table) /\ table[my.id].conflicts < MaxConflicts
    BY <2>0 DEF AttemptsCounted, Engaged, Resolving, Uncounted
  <2>2. CASE Len(table) = 1
    <3>1. table[1].conflicts \in Nat /\ table[1].conflicts <= MaxConflicts
      BY <2>0, <2>2 DEF AttemptsCounted
    <3>2. pc \in Engaged => table[1].conflicts < MaxConflicts
      BY <2>1, <2>2
    <3>3. attempts <= table[1].conflicts + crashes + (IF pc \in Engaged THEN 1 ELSE 0)
      BY <2>2 DEF AttemptsCounted, Counted
    <3>4. attempts <= MaxConflicts + crashes
      BY <2>0, <3>1, <3>2, <3>3
    <3>5. Len(table) * MaxConflicts = MaxConflicts
      BY <2>0, <2>2
    <3> QED BY <3>4, <3>5 DEF AttemptsBounded
  <2>3. CASE Len(table) = 2
    <3>1. /\ table[1].conflicts \in Nat /\ table[1].conflicts <= MaxConflicts
          /\ table[2].conflicts \in Nat /\ table[2].conflicts <= MaxConflicts
      BY <2>0, <2>3 DEF AttemptsCounted
    <3>2. pc \in Engaged => table[1].conflicts < MaxConflicts \/ table[2].conflicts < MaxConflicts
      BY <2>1, <2>3
    <3>3. attempts <= table[1].conflicts + table[2].conflicts + crashes + (IF pc \in Engaged THEN 1 ELSE 0)
      BY <2>3 DEF AttemptsCounted, Counted
    <3>4. attempts <= MaxConflicts + MaxConflicts + crashes
      BY <2>0, <3>1, <3>2, <3>3, SMTT(30)
    <3>5. Len(table) * MaxConflicts = MaxConflicts + MaxConflicts
      BY <2>0, <2>3
    <3> QED BY <3>4, <3>5 DEF AttemptsBounded
  <2> QED BY <2>0, <2>2, <2>3
<1> QED BY <1>1, InitTyped, TypedStep, AttemptsCountedStep, PTL DEF Spec

-----------------------------------------------------------------------------
(* Comments *)

LEMMA InHandStep == Typed /\ InHand /\ IdleFeedbackKept /\ [Next]_vars => InHand'
<1> SUFFICES ASSUME Typed, InHand, IdleFeedbackKept, [Next]_vars PROVE InHand'
  OBVIOUS
<1>0. /\ idle \subseteq 1 .. comments /\ comments \in Nat /\ Len(table) \in 1 .. Len(table)
      /\ getPrBranchByPrNumber(table, Number) = Len(table)
  BY TableNumbers DEF Typed
<1>1. CASE pc' = "idle"
  BY <1>1 DEF InHand
<1>2. ASSUME Wake, pc' # "idle" PROVE InHand'
  <2>1. /\ pc' = "feedback" /\ state = "open" /\ my'.seen = table[Len(table)].seen
        /\ UNCHANGED <<idle, taken, passed>>
    <3>1. state = "open" /\ pc' = "feedback" /\ UNCHANGED <<idle, taken, passed>>
      BY <1>2 DEF Wake, LaneEnds, Goes, hist
    <3>2. my'.seen = table[Len(table)].seen
      BY <1>0, <1>2 DEF Wake, LaneEnds
    <3> QED BY <3>1, <3>2
  <2>2. \A c \in Waiting : table[Len(table)].seen < c
    BY <1>0, <2>1 DEF IdleFeedbackKept, Waiting
  <2> QED BY <2>1, <2>2 DEF InHand, Waiting
<1>3. CASE ReadFeedback
  <2>1. /\ pc = "feedback" /\ pc' = "agent" /\ fresh' = NewFeedback /\ my' = my
        /\ UNCHANGED <<idle, taken, passed>>
    BY <1>3 DEF ReadFeedback, Goes, hist
  <2>2. Waiting \subseteq NewFeedback
    BY <1>0, <2>1 DEF InHand, Waiting, NewFeedback, listAllPrFeedback
  <2> QED BY <2>1, <2>2 DEF InHand, Waiting
<1>4. ASSUME NothingNew, pc' # "idle" PROVE InHand'
  <2>1. /\ pc = "feedback" /\ pc' = "gate" /\ NewFeedback = {}
        /\ UNCHANGED <<idle, taken, passed>>
    BY <1>4 DEF NothingNew, LaneEnds, Goes, hist
  <2>2. Waiting = {}
    BY <1>0, <2>1 DEF InHand, Waiting, NewFeedback, listAllPrFeedback
  <2> QED BY <2>1, <2>2 DEF InHand, Waiting
<1>5. CASE AgentCommits
  BY <1>5 DEF InHand, Waiting, AgentCommits, Goes, lane
<1>6. CASE Comment
  BY <1>6 DEF InHand, Waiting, Comment, lane
<1>7. CASE pc' = pc /\ UNCHANGED <<my, fresh>> /\ Waiting' \subseteq Waiting
  BY <1>7 DEF InHand
<1>8. CASE /\ {pc, pc'} \subseteq Turns \ {"idle", "feedback", "agent"}
           /\ UNCHANGED <<idle, taken, passed>>
  BY <1>8 DEF InHand, Waiting
<1>9. ASSUME pc' # "idle", ~(Wake \/ ReadFeedback \/ NothingNew \/ AgentCommits \/ Comment)
      PROVE  InHand'
  <2>1. \/ pc' = pc /\ UNCHANGED <<my, fresh>> /\ UNCHANGED <<idle, taken>> /\ passed \subseteq passed'
        \/ /\ {pc, pc'} \subseteq Turns \ {"idle", "feedback", "agent"}
           /\ UNCHANGED <<idle, taken, passed>>
    BY <1>9 DEF Turns, Next, vars, hist, lane, World, Loop, LaneStep, ResolveThread, HumanPush, BaseMoves,
       CiAdvances,
             HumanEnds, Poll, PollRow, PlanIssue, LaneEnds, Goes,
             LaneFails, AgentDirty, AgentDeclines, Push, RefetchLease,
             ForcePush, RecordPush, GateStops, ReadRequest, ResolveFails, SyncToRemote, StartRebase, ResolveBatch,
             PushRebased, RecordRebase, CheckThreads, CheckCi, Merge, RecordMerge, Crash
  <2> QED BY <1>7, <1>8, <2>1 DEF Waiting
<1> QED BY <1>1, <1>2, <1>3, <1>4, <1>5, <1>6, <1>9

LEMMA IdleFeedbackStep == Typed /\ InHand /\ IdleFeedbackKept /\ [Next]_vars => IdleFeedbackKept'
<1> SUFFICES ASSUME Typed, InHand, IdleFeedbackKept, [Next]_vars PROVE IdleFeedbackKept'
  OBVIOUS
<1> SUFFICES ASSUME state' = "open", NEW c \in Waiting' PROVE table'[Len(table')].seen < c
  <2>1. Typed'
    BY TypedStep
  <2>2. Fits(table', comments') /\ comments' \in Nat
    BY <2>1, PrDialogConstants DEF Typed
  <2>3. getPrBranchByPrNumber(table', Number) = Len(table')
    BY <2>2, NewestRow
  <2> QED BY <2>3 DEF IdleFeedbackKept, Waiting
<1>0. /\ comments \in Nat /\ Fits(table, comments) /\ Len(table) \in 1 .. Len(table) /\ DOMAIN table = 1 .. Len(table)
      /\ getPrBranchByPrNumber(table, Number) = Len(table) /\ Len(table) \in Nat
  BY TableNumbers
<1>1. table[Len(table)].seen \in Nat /\ table[Len(table)].seen <= comments
  BY <1>0, Shape DEF Fits
<1>2. state = "open"
  BY DEF Next, vars, forge, World, Loop, LaneStep, Comment, ResolveThread, HumanPush, BaseMoves, CiAdvances,
         HumanEnds, Poll, PollRow, PlanIssue, Wake,
         ReadFeedback, NothingNew, LaneFails, AgentDirty, AgentDeclines, AgentCommits, Push, RefetchLease,
         ForcePush, RecordPush, GateStops, ReadRequest, ResolveFails, SyncToRemote, StartRebase, ResolveBatch,
         PushRebased, RecordRebase, CheckThreads, CheckCi, Merge, mergePullRequest, RecordMerge, Crash
<1>3. \A d \in Waiting : table[Len(table)].seen < d
  BY <1>0, <1>2 DEF IdleFeedbackKept, Waiting
<1>4. CASE table' = table /\ c \in Waiting
  BY <1>3, <1>4
<1>5. CASE Comment
  <2>1. table' = table /\ (c \in Waiting \/ c = comments + 1)
    BY <1>5 DEF Comment, Waiting
  <2> QED BY <1>0, <1>1, <1>4, <2>1
<1>6. CASE PlanIssue
  <2>1. table' = CancelRows(table, IssueTask, {"guardrail_blocked"}, comments)
    BY <1>6 DEF PlanIssue, CancelBlocked
  <2>2. Len(table') = Len(table)
    BY <1>0, <2>1, CancelFits
  <2>3. c \in idle /\ c \in Waiting /\ c \notin passed'
    BY <1>6 DEF PlanIssue, Waiting
  <2>4. table[Len(table)].seen < c
    BY <1>3, <2>3
  <2>5. table'[Len(table)] = table[Len(table)]
    BY <1>0, <1>6, <2>3, <2>4 DEF PlanIssue
  <2> QED BY <2>2, <2>4, <2>5
<1>7. CASE AgentDirty \/ AgentDeclines
  BY <1>7 DEF AgentDirty, AgentDeclines, InHand, Waiting
<1>8. CASE RecordPush \/ ResolveFails \/ RecordRebase \/ RecordMerge
  <2>1. pc \notin {"idle", "feedback", "agent"} /\ UNCHANGED <<idle, taken, passed>>
    BY <1>8 DEF RecordPush, ResolveFails, RecordRebase, RecordMerge, hist
  <2> QED BY <2>1 DEF InHand, Waiting
<1>9. CASE ~(Comment \/ PlanIssue \/ AgentDirty \/ AgentDeclines \/ RecordPush \/ ResolveFails \/ RecordRebase
             \/ RecordMerge)
  <2>1. table' = table
    BY <1>2, <1>9 DEF Next, vars, World, Loop, LaneStep, ResolveThread, HumanPush, BaseMoves, CiAdvances,
         HumanEnds, Poll, PollRow, Wake, ReadFeedback, NothingNew, LaneFails, AgentCommits, Push, RefetchLease,
         ForcePush, GateStops, ReadRequest, SyncToRemote, StartRebase, ResolveBatch,
         PushRebased, CheckThreads, CheckCi, Merge, Crash
  <2>2. idle' = idle /\ taken \subseteq taken' /\ passed \subseteq passed'
    BY <1>9 DEF Next, vars, hist, World, Loop, LaneStep, ResolveThread, HumanPush, BaseMoves, CiAdvances,
         HumanEnds, Poll, PollRow, Wake, ReadFeedback, NothingNew, LaneFails, AgentCommits, Push, RefetchLease,
         ForcePush, GateStops, ReadRequest, SyncToRemote, StartRebase, ResolveBatch,
         PushRebased, CheckThreads, CheckCi, Merge, Crash
  <2> QED BY <1>4, <2>1, <2>2 DEF Waiting
<1> QED BY <1>5, <1>6, <1>7, <1>8, <1>9

\* IdleFeedbackKept: no write of the lanes makes a comment from before they woke look old, unless an
\* agent has run on it.
THEOREM IdleFeedbackIsKept == Spec => []IdleFeedbackKept
<1>1. Init => IdleFeedbackKept
  BY DEF Init, IdleFeedbackKept
<1> QED BY <1>1, InitTyped, TypedStep, InHandStep, IdleFeedbackStep, PTL DEF Spec
=============================================================================
